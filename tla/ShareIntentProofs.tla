------------------------- MODULE ShareIntentProofs --------------------------
(***************************************************************************)
(* What the user chose about a file holds through crashes, failed writes   *)
(* and a lost known.met, for every number of them and of choices.          *)
(*                                                                         *)
(* A choice is in one of two files, or on its way from one to the other.   *)
(* Inv says where: while the network task is inside SetFilesShared, what   *)
(* its request did so far; between requests, which copies of the record    *)
(* (the session's list, known.met, the save under way) can contradict what *)
(* the user was told, and that the share intent then overrules them.       *)
(***************************************************************************)
EXTENDS MCOnDisk, TLAPS

(* Steps are first-order, for Zenon, unless they name SMT. *)
USE Zenon

(* The records the variables hold. *)
KnownType  == [kind : Shares!Kinds, rec : Shares!Flags]
ListType   == [rec : Shares!Flags, authoritative : BOOLEAN, absorbed : BOOLEAN]
ReqType    == [by : {"none", "ui", "undo", "auto"}, shared : BOOLEAN, origin : Shares!Origin]
UiType     == [at : {"idle", "asked", "ok", "failed", "botched", "undo"},
               shared : BOOLEAN, loaded : BOOLEAN, raced : BOOLEAN]
ChoiceType == [what : Shares!Flags, loaded : BOOLEAN]

(* The types.  The store in memory never differs from its file: every writer installs *)
(* both, or neither.                                                                  *)
Typed ==
    /\ intent \in Shares!Intent /\ intent_file = intent
    /\ slot \in {"down", "pending", "ready", "failed"} /\ force \in BOOLEAN
    /\ sequence \in Nat /\ write_seq \in 0..sequence /\ deferred \in SUBSET (0..sequence)
    /\ known \in KnownType /\ list \in ListType
    /\ row \in Shares!Flags /\ before \in Shares!Flags /\ saving \in Shares!Flags \cup {"idle"}
    /\ pc \in {"idle", "save", "deny"} /\ req \in ReqType
    /\ ui \in UiType /\ auto \in {"none", "withhold", "admit"}
    /\ choice \in ChoiceType /\ last \in Shares!Flags

(* Before the store is installed nothing of the session exists. *)
Unborn ==
    slot \in {"down", "pending"} =>
        /\ list = Shares!Placeholder /\ row = "none" /\ deferred = {} /\ ~force
        /\ pc = "idle" /\ saving = "idle" /\ ui = Shares!Idle /\ auto = "none"

(* A denied hash is not allowed, and only a denied one has an origin. *)
Origins ==
    /\ intent.denied => ~intent.allow
    /\ ~intent.denied => ~intent.auto_denied

(* The list learns what known.met has when it is loaded, and never loses it again. *)
Records ==
    /\ known.kind \in {"absent", "damaged"} => known.rec = "none"
    /\ list.authoritative => list.absorbed
    /\ list.absorbed /\ list.rec = "none" => known.rec = "none"
    /\ saving \notin {"idle", "none"} => list.rec # "none"
    /\ slot = "ready" /\ force => list.absorbed

(* Every unshare still queued was queued before the last write: it will be skipped. *)
Tickets == \A t \in deferred : t < write_seq

(* The request being handled is the one its asker waits for. *)
AskedFor ==
    \/ req.by = "ui" /\ ui.at = "asked" /\ req.shared = ui.shared /\ req.origin = "user"
    \/ req.by = "undo" /\ ui.at = "undo" /\ req.shared = ~ui.shared /\ req.origin = "unknown"
    \/ req.by = "auto" /\ auto = "withhold" /\ ~req.shared /\ req.origin = "allowlist"
    \/ req.by = "auto" /\ auto = "admit" /\ req.shared

(* What a request did so far: the record is changed first; a share is allowed before *)
(* it is saved; an unshare is denied only after known.met no longer says shared.     *)
Handling ==
    /\ pc # "idle" =>
           /\ AskedFor
           /\ before = "none" <=> list.rec = "none"
           /\ list.rec # "none" => list.rec = Shares!Flag(req.shared)
    /\ pc = "save" /\ req.shared =>
           slot = "ready" /\ intent.allow /\ Tickets /\ last = "shared"
    /\ pc = "deny" =>
           ~req.shared /\ saving = "idle" /\ (list.authoritative => known.rec # "shared")
    /\ pc # "idle" /\ ~req.shared => last = "unshared"

(* The row shows the command under way, which knows of a racing allowlist decision. *)
Asking ==
    /\ ui.at # "idle" => row = Shares!Flag(ui.shared)
    /\ ui.at # "idle" /\ auto # "none" => ui.raced
    /\ ui.at # "idle" /\ ui.loaded => list.authoritative

(* Denied, and not by an allowlist: no widened list admits the hash. *)
Denied == intent.denied /\ ~intent.auto_denied
(* No copy of the record says shared. *)
Unlisted == list.rec # "shared" /\ known.rec # "shared" /\ saving # "shared"
(* No copy of the record says unshared. *)
Unwithheld == list.rec # "unshared" /\ known.rec # "unshared" /\ saving # "unshared"

(* An unshare, from its answer until the user shares the file: it is denied, and no  *)
(* record says shared, so that a failed share can tell that it has to deny it again. *)
UnshareInv ==
    /\ choice.what = "unshared" /\ ui.at = "idle" =>
           /\ Denied /\ auto # "admit"
           /\ choice.loaded => Unlisted /\ (pc # "idle" => before # "shared")
    /\ choice.what = "unshared" /\ ui.at = "asked" /\ ui.shared /\ ~ui.raced =>
           /\ pc = "idle" => Denied
           /\ choice.loaded => /\ known.rec # "shared" /\ saving # "shared"
                               /\ IF pc = "idle" THEN list.rec # "shared"
                                                 ELSE before # "shared"
    /\ ui.at \in {"ok", "undo"} /\ ui.shared /\ ~ui.raced => ~intent.auto_denied
    /\ /\ ui.at = "failed" /\ ui.shared /\ ~ui.raced
       /\ choice.what = "unshared" /\ choice.loaded
       => Denied /\ (ui.loaded => Unlisted)
    /\ ui.at = "ok" /\ ~ui.shared /\ ~ui.raced => Denied /\ (ui.loaded => Unlisted)

(* A share, from its answer: it is allowed, no queued unshare outruns it, and no record *)
(* says unshared, so that no start folds an old unshare into the store.                 *)
ShareInv ==
    /\ ui.at = "ok" /\ ui.shared /\ ~ui.raced /\ ui.loaded =>
           slot = "ready" /\ ~force /\ intent.allow /\ Tickets /\ Unwithheld
    /\ choice.what = "shared" /\ choice.loaded /\ ui.at = "idle" =>
           /\ auto = "none" /\ intent.allow /\ Tickets /\ Unwithheld
           /\ slot = "ready" /\ ~force => row # "unshared"

(* After a share no record says shared while the hash is denied. *)
StuckInv == last = "shared" /\ intent.denied => pc = "idle" /\ Unlisted

(* The inductive invariant. *)
Inv ==
    /\ Typed /\ Unborn /\ Origins /\ Records /\ Handling /\ Asking
    /\ UnshareInv /\ ShareInv /\ StuckInv

-----------------------------------------------------------------------------
(* What deny does to an entry: only the user changes the origin of a denied hash. *)
LEMMA DenyFields ==
    ASSUME NEW i \in Shares!Intent, NEW o \in Shares!Origin
    PROVE  /\ Shares!deny(i, o) \in Shares!Intent
           /\ Shares!deny(i, o).denied /\ ~Shares!deny(i, o).allow
           /\ o = "user" => ~Shares!deny(i, o).auto_denied
           /\ o = "unknown" => Shares!deny(i, o).auto_denied = i.auto_denied
           /\ i.denied /\ ~i.auto_denied => ~Shares!deny(i, o).auto_denied
BY DEF Shares!deny, Shares!Intent, Shares!Origin

(* What allow does to an entry. *)
LEMMA AllowFields ==
    ASSUME NEW i \in Shares!Intent
    PROVE  /\ Shares!allow(i) \in Shares!Intent
           /\ Shares!allow(i).allow /\ ~Shares!allow(i).denied /\ ~Shares!allow(i).auto_denied
BY DEF Shares!allow, Shares!Intent

(* What origin_of says of an entry. *)
LEMMA OriginCases ==
    ASSUME NEW i \in Shares!Intent
    PROVE  /\ i.denied /\ i.auto_denied => Shares!origin_of(i) = "allowlist"
           /\ ~i.denied => Shares!origin_of(i) = "none"
           /\ ~i.auto_denied => Shares!origin_of(i) # "allowlist"
<1>1. CASE ~i.denied
    BY <1>1 DEF Shares!origin_of
<1>2. CASE i.denied /\ i.auto_denied
    BY <1>2 DEF Shares!origin_of
<1>3. CASE ~i.auto_denied
    BY <1>3 DEF Shares!origin_of
<1> QED BY <1>1, <1>2, <1>3

(* Marking the catalog seen, or closing sharing, leaves the choices alone. *)
LEMMA SeenFields ==
    ASSUME NEW i \in Shares!Intent, NEW b \in BOOLEAN,
           NEW j, j = [i EXCEPT !.seen = TRUE, !.fail_closed = b]
    PROVE  /\ j \in Shares!Intent
           /\ j.denied = i.denied /\ j.allow = i.allow /\ j.auto_denied = i.auto_denied
BY DEF Shares!Intent

(* The fields of a command that an allowlist decision met. *)
LEMMA UiRaced ==
    ASSUME NEW u \in UiType, NEW b \in BOOLEAN
    PROVE  /\ [u EXCEPT !.raced = b] \in UiType
           /\ [u EXCEPT !.raced = b].at = u.at
           /\ [u EXCEPT !.raced = b].shared = u.shared
           /\ [u EXCEPT !.raced = b].loaded = u.loaded
           /\ [u EXCEPT !.raced = b].raced = b
BY DEF UiType

(* The fields of a command that moved on. *)
LEMMA UiMoved ==
    ASSUME NEW u \in UiType, NEW a \in {"idle", "asked", "ok", "failed", "botched", "undo"}
    PROVE  /\ [u EXCEPT !.at = a] \in UiType
           /\ [u EXCEPT !.at = a].at = a
           /\ [u EXCEPT !.at = a].shared = u.shared
           /\ [u EXCEPT !.at = a].loaded = u.loaded
           /\ [u EXCEPT !.at = a].raced = u.raced
BY DEF UiType

(* The fields of a list whose record changed. *)
LEMMA ListRecorded ==
    ASSUME NEW l \in ListType, NEW f \in Shares!Flags
    PROVE  /\ [l EXCEPT !.rec = f] \in ListType
           /\ [l EXCEPT !.rec = f].rec = f
           /\ [l EXCEPT !.rec = f].authoritative = l.authoritative
           /\ [l EXCEPT !.rec = f].absorbed = l.absorbed
BY DEF ListType

(* The choices of the store are as before, in memory and in the file. *)
SameIntent ==
    /\ intent' \in Shares!Intent /\ intent_file' = intent'
    /\ intent'.denied = intent.denied
    /\ intent'.allow = intent.allow
    /\ intent'.auto_denied = intent.auto_denied

(* The write took the next number. *)
Numbered ==
    sequence' = sequence + 1 /\ write_seq' = sequence + 1

(* A share batch that is applied allows the hash and stamps it. *)
LEMMA ApplyShare ==
    ASSUME Typed, Origins, NEW ok \in BOOLEAN, Shares!apply_explicit_batch(TRUE, "user", ok),
           Shares!InEffect(intent, TRUE, "user") \/ ok
    PROVE  /\ intent' \in Shares!Intent /\ intent_file' = intent' /\ Numbered
           /\ intent'.allow /\ ~intent'.denied /\ ~intent'.auto_denied
<1>1. CASE Shares!InEffect(intent, TRUE, "user")
    BY <1>1 DEF Shares!apply_explicit_batch, Shares!InEffect, Typed, Origins, Numbered
<1>2. CASE ~Shares!InEffect(intent, TRUE, "user")
    BY <1>2, AllowFields DEF Shares!apply_explicit_batch, Shares!Install, Typed,
                             Numbered
<1> QED BY <1>1, <1>2

(* An unshare batch that is applied denies the hash and stamps it. *)
LEMMA ApplyUnshare ==
    ASSUME Typed, Origins, NEW ok \in BOOLEAN, NEW o \in Shares!Origin,
           Shares!apply_explicit_batch(FALSE, o, ok), Shares!InEffect(intent, FALSE, o) \/ ok
    PROVE  /\ intent' \in Shares!Intent /\ intent_file' = intent' /\ Numbered
           /\ intent'.denied /\ ~intent'.allow
           /\ o = "user" => ~intent'.auto_denied
           /\ o = "unknown" => intent'.auto_denied = intent.auto_denied
           /\ intent.denied /\ ~intent.auto_denied => ~intent'.auto_denied
<1>1. CASE Shares!InEffect(intent, FALSE, o)
    <2>1. intent \in Shares!Intent /\ intent_file = intent
        BY DEF Typed
    <2>2. /\ intent.denied /\ ~intent.allow
          /\ o = "user" => ~intent.auto_denied
        BY <1>1, <2>1, OriginCases DEF Shares!InEffect
    <2>3. UNCHANGED <<intent, intent_file>> /\ Numbered
        BY <1>1 DEF Shares!apply_explicit_batch, Numbered
    <2> QED BY <2>1, <2>2, <2>3
<1>2. CASE ~Shares!InEffect(intent, FALSE, o)
    <2>1. intent \in Shares!Intent
        BY DEF Typed
    <2>2. intent' = Shares!deny(intent, o) /\ intent_file' = intent' /\ Numbered
        BY <1>2 DEF Shares!apply_explicit_batch, Shares!Install, Numbered
    <2> QED BY <2>1, <2>2, DenyFields
<1> QED BY <1>1, <1>2

(* A batch that cannot be written uses up a number and changes nothing else. *)
LEMMA ApplyFails ==
    ASSUME NEW b \in BOOLEAN, NEW o \in Shares!Origin, NEW ok \in BOOLEAN,
           Shares!apply_explicit_batch(b, o, ok), ~Shares!InEffect(intent, b, o), ~ok
    PROVE  sequence' = sequence + 1 /\ UNCHANGED <<intent, intent_file, write_seq>>
BY DEF Shares!apply_explicit_batch

(* Saving known.met changes no choice. *)
LEMMA WriteKeeps ==
    ASSUME Typed, NEW rec \in Shares!Flags, Shares!Write(rec)
    PROVE  SameIntent /\ known' = [kind |-> "whole", rec |-> rec]
BY DEF Typed, Shares!Write, Shares!Install, Shares!Intent, SameIntent

(* Closing sharing for a missing or damaged catalog changes no choice. *)
LEMMA CloseKeeps ==
    ASSUME Typed, NEW ok \in BOOLEAN,
           Shares!enter_fail_closed(ok) \/ Shares!note_catalog_missing(ok)
                                        \/ UNCHANGED <<intent, intent_file, force>>
    PROVE  SameIntent /\ force' \in BOOLEAN /\ (force /\ slot # "ready" => force')
<1>1. CASE intent' = [intent EXCEPT !.seen = TRUE, !.fail_closed = TRUE]
    <2>1. intent_file' = intent' /\ force' \in BOOLEAN /\ (force /\ slot # "ready" => force')
        BY <1>1 DEF Typed, Shares!enter_fail_closed, Shares!note_catalog_missing,
                    Shares!Install
    <2> QED BY <1>1, <2>1, SeenFields DEF SameIntent, Typed
<1>2. CASE UNCHANGED <<intent, intent_file>>
    BY <1>2 DEF Typed, Shares!enter_fail_closed, Shares!note_catalog_missing,
                Shares!Install, SameIntent
<1> QED BY <1>1, <1>2 DEF Shares!enter_fail_closed, Shares!note_catalog_missing,
                          Shares!Install

(* The command is the same one. *)
SameUi == ui' \in UiType /\ ui'.shared = ui.shared /\ ui'.raced = ui.raced

(* The network task is done with r, and its asker learns how it went. *)
Told(r, how) ==
    /\ pc' = "idle" /\ req' \in ReqType /\ before' = "none" /\ SameUi
    /\ r.by = "ui" => /\ ui'.at = how /\ auto' = auto
                      /\ ui'.loaded = (list.authoritative /\ ~force)
    /\ r.by = "undo" => /\ ui'.at = IF how = "ok" THEN "failed" ELSE "botched"
                        /\ ui'.loaded = ui.loaded /\ auto' = auto
    /\ r.by = "auto" => ui' = ui /\ auto' = "none"

(* What each asker learns from an answer of the network task. *)
LEMMA ReplyFields ==
    ASSUME Typed, NEW r \in ReqType, NEW how \in {"ok", "failed", "botched"},
           Shares!Reply(r, how)
    PROVE  Told(r, how)
<1> USE DEF Told
<1>1. /\ pc' = "idle" /\ before' = "none"
      /\ req' = [by |-> "none", shared |-> FALSE, origin |-> "user"]
      /\ auto' = IF r.by = "auto" THEN "none" ELSE auto
    BY DEF Shares!Reply, Shares!NoRequest
<1>2. req' \in ReqType
    BY <1>1 DEF ReqType, Shares!Origin
<1>3. list.authoritative \in BOOLEAN /\ force \in BOOLEAN /\ ui \in UiType
    BY DEF Typed, ListType
<1>4. CASE r.by = "ui"
    <2>1. ui' = [ui EXCEPT !.at = how, !.loaded = list.authoritative /\ ~force]
        BY <1>4 DEF Shares!Reply
    <2>2. SameUi /\ ui'.at = how /\ ui'.loaded = (list.authoritative /\ ~force)
        BY <2>1, <1>3 DEF UiType, SameUi
    <2> QED BY <1>1, <1>2, <1>4, <2>2
<1>5. CASE r.by = "undo"
    <2>1. ui' = [ui EXCEPT !.at = IF how = "ok" THEN "failed" ELSE "botched"]
        BY <1>5 DEF Shares!Reply
    <2>2. SameUi /\ ui'.at = (IF how = "ok" THEN "failed" ELSE "botched")
          /\ ui'.loaded = ui.loaded
        BY <2>1, <1>3 DEF UiType, SameUi
    <2> QED BY <1>1, <1>2, <1>5, <2>2
<1>6. CASE r.by = "auto"
    BY <1>1, <1>2, <1>3, <1>6 DEF Shares!Reply, SameUi
<1> QED BY <1>4, <1>5, <1>6 DEF Shares!Reply

(* The requests that can wait for the network task. *)
LEMMA RequestFields ==
    ASSUME NEW r \in Shares!Requests
    PROVE  /\ r \in ReqType
           /\ \/ r.by = "ui" /\ ui.at = "asked" /\ r.shared = ui.shared /\ r.origin = "user"
              \/ r.by = "undo" /\ ui.at = "undo" /\ r.shared = ~ui.shared
                               /\ r.origin = "unknown"
              \/ r.by = "auto" /\ auto = "withhold" /\ ~r.shared /\ r.origin = "allowlist"
              \/ r.by = "auto" /\ auto = "admit" /\ r.shared
BY SMT DEF Shares!Requests, ReqType

(* A start denies what known.met has as unshared, and withdraws no denial. *)
LEMMA AbsorbedFields ==
    ASSUME Typed
    PROVE  /\ Shares!Absorbed \in Shares!Intent
           /\ IF known.kind \in {"whole", "cut"} /\ known.rec = "unshared"
                THEN Shares!Absorbed.denied /\ ~Shares!Absorbed.allow
                ELSE /\ Shares!Absorbed.denied = intent.denied
                     /\ Shares!Absorbed.allow = intent.allow
           /\ Shares!Absorbed.auto_denied = intent.auto_denied
<1> DEFINE i == IF known.kind \in {"whole", "cut"} /\ known.rec = "unshared"
                  THEN Shares!deny(intent, "unknown") ELSE intent
           lost == \/ known.kind \in {"cut", "damaged"}
                   \/ known.kind = "absent" /\ intent.seen
<1>1. Shares!Absorbed = [i EXCEPT !.seen = @ \/ known.kind # "absent",
                                 !.fail_closed = @ \/ lost]
    BY DEF Shares!Absorbed
<1>2. /\ i \in Shares!Intent /\ i.auto_denied = intent.auto_denied
      /\ IF known.kind \in {"whole", "cut"} /\ known.rec = "unshared"
           THEN i.denied /\ ~i.allow
           ELSE i.denied = intent.denied /\ i.allow = intent.allow
    BY DenyFields DEF Typed, Shares!Origin
<1> HIDE DEF i, lost
<1>3. /\ Shares!Absorbed \in Shares!Intent /\ Shares!Absorbed.auto_denied = i.auto_denied
      /\ Shares!Absorbed.denied = i.denied /\ Shares!Absorbed.allow = i.allow
    BY <1>1, <1>2 DEF Shares!Intent
<1> QED BY <1>2, <1>3

(* A command of the user: the last choice no longer counts. *)
LEMMA AskStep == ASSUME Inv, NEW b \in BOOLEAN, Shares!Ask(b) PROVE Inv'
<1> USE DEF Inv, Shares!Ask, Shares!Spend, Shares!Flag, Shares!Flags, Shares!store,
            Shares!catalog, Shares!handler, Shares!history
<1>1. Typed'
    BY SMT DEF Typed, ReqType, UiType, ChoiceType
<1>2. (Unborn /\ Origins /\ Records)'
    BY DEF Unborn, Origins, Records
<1>3. Handling'
    BY DEF Handling, AskedFor, Tickets
<1>4. Asking'
    BY DEF Asking
<1>5. UnshareInv'
    BY DEF UnshareInv, Denied, Unlisted
<1>6. ShareInv'
    BY DEF ShareInv
<1>7. StuckInv'
    BY DEF StuckInv, Unlisted
<1> QED BY <1>1, <1>2, <1>3, <1>4, <1>5, <1>6, <1>7

(* The periodic save takes the record of this moment. *)
LEMMA StartSaveStep == ASSUME Inv, Shares!StartSave PROVE Inv'
<1> USE DEF Inv, Shares!StartSave, Shares!Flags, Shares!store, Shares!catalog,
            Shares!handler, Shares!history
<1>1. Typed'
    BY SMT DEF Typed, ListType, ChoiceType, Shares!Intent
<1>2. (Unborn /\ Origins /\ Records)'
    BY DEF Unborn, Origins, Records
<1>3. Handling'
    BY DEF Handling
<1>4. Asking'
    BY DEF Asking
<1>5. UnshareInv'
    BY DEF UnshareInv, Denied, Unlisted
<1>6. ShareInv'
    BY DEF ShareInv, Unwithheld, Tickets
<1>7. StuckInv'
    BY DEF StuckInv, Unlisted
<1> QED BY <1>1, <1>2, <1>3, <1>4, <1>5, <1>6, <1>7

(* A folder is no longer shared. *)
LEMMA RemoveStep == ASSUME Inv, Shares!RemoveFolder PROVE Inv'
<1> USE DEF Inv, Shares!RemoveFolder, Shares!Flags, Shares!store, Shares!catalog,
            Shares!handler, Shares!history
<1>1. Typed'
    BY SMT DEF Typed
<1>2. (Unborn /\ Origins /\ Records)'
    BY DEF Unborn, Origins, Records
<1>3. Handling'
    BY SMT DEF Handling, AskedFor, Tickets
<1>4. Asking'
    BY DEF Asking
<1>5. UnshareInv'
    BY DEF UnshareInv, Denied, Unlisted
<1>6. ShareInv'
    BY DEF ShareInv, Unwithheld, Tickets
<1>7. StuckInv'
    BY DEF StuckInv, Unlisted
<1> QED BY <1>1, <1>2, <1>3, <1>4, <1>5, <1>6, <1>7

(* The process starts. *)
LEMMA StartStep == ASSUME Inv, Shares!Start PROVE Inv'
<1> USE DEF Inv, Shares!Start, Shares!Flags, Shares!Placeholder, Shares!Idle, Shares!store,
            Shares!catalog, Shares!handler, Shares!history
<1>1. Typed'
    BY SMT DEF Typed
<1>2. (Unborn /\ Origins /\ Records)'
    BY DEF Unborn, Origins, Records
<1>3. Handling'
    BY DEF Handling, AskedFor
<1>4. Asking'
    BY DEF Asking
<1>5. UnshareInv'
    BY DEF UnshareInv, Denied, Unlisted
<1>6. ShareInv'
    BY DEF ShareInv, Unwithheld, Tickets
<1>7. StuckInv'
    BY DEF StuckInv, Unlisted
<1> QED BY <1>1, <1>2, <1>3, <1>4, <1>5, <1>6, <1>7

(* known.met is lost or damaged: it says less than before, never something else. *)
LEMMA DamageStep == ASSUME Inv, Shares!Damage PROVE Inv'
<1> USE DEF Inv, Shares!Damage, Shares!Spend, Shares!Flags, Shares!Kinds, Shares!store,
            Shares!catalog, Shares!handler, Shares!history
<1>1. Typed'
    BY SMT DEF Typed, KnownType
<1>2. (Unborn /\ Origins /\ Records)'
    BY DEF Unborn, Origins, Records
<1>3. Handling'
    BY SMT DEF Handling, AskedFor
<1>4. Asking'
    BY DEF Asking
<1>5. UnshareInv'
    BY DEF UnshareInv, Denied, Unlisted
<1>6. ShareInv'
    BY DEF ShareInv, Unwithheld, Tickets
<1>7. StuckInv'
    BY DEF StuckInv, Unlisted
<1> QED BY <1>1, <1>2, <1>3, <1>4, <1>5, <1>6, <1>7

(* A scan shows what effective_shared says. *)
LEMMA ScanStep == ASSUME Inv, Shares!Scan PROVE Inv'
<1> USE DEF Inv, Shares!Scan, Shares!effective_shared, Shares!Flag, Shares!Flags,
            Shares!store, Shares!catalog, Shares!handler, Shares!history
<1>1. Typed'
    BY SMT DEF Typed
<1>2. (Unborn /\ Origins /\ Records)'
    BY DEF Unborn, Origins, Records
<1>3. Handling'
    BY DEF Handling, AskedFor, Tickets
<1>4. Asking'
    BY DEF Asking
<1>5. UnshareInv'
    BY DEF UnshareInv, Denied, Unlisted
<1>6. ShareInv'
    BY DEF Origins, ShareInv, Unwithheld, Tickets
<1>7. StuckInv'
    BY DEF StuckInv, Unlisted
<1> QED BY <1>1, <1>2, <1>3, <1>4, <1>5, <1>6, <1>7

(* An allowlist leaves the file out: it never undoes an unshare. *)
LEMMA WithholdStep == ASSUME Inv, Shares!Withhold PROVE Inv'
<1> USE DEF Inv, Shares!Undecided, Shares!Flags, Shares!store, Shares!catalog,
            Shares!handler, Shares!history
<1>0. /\ slot \in {"ready", "failed"}
      /\ auto = "none" /\ row # "shared" /\ auto' = "withhold"
      /\ ui' \in UiType /\ ui'.at = ui.at /\ ui'.shared = ui.shared
      /\ ui'.loaded = ui.loaded /\ ui'.raced = (ui.at # "idle")
      /\ choice' = IF choice.what = "shared" THEN Shares!Undecided ELSE choice
      /\ UNCHANGED <<Shares!store, slot, force, deferred, Shares!catalog, row,
                     Shares!handler, saving, last>>
    BY UiRaced DEF Shares!Withhold, Typed
<1>1. Typed'
    BY <1>0, SMT DEF Typed, ListType, ReqType, ChoiceType
<1>2. (Unborn /\ Origins /\ Records)'
    BY <1>0 DEF Unborn, Origins, Records
<1>3. Handling'
    BY <1>0, SMT DEF Handling, AskedFor, Tickets
<1>4. Asking'
    BY <1>0 DEF Asking
<1>5. UnshareInv'
    BY <1>0 DEF UnshareInv, Denied, Unlisted
<1>6. ShareInv'
    BY <1>0 DEF ShareInv
<1>7. StuckInv'
    BY <1>0 DEF StuckInv, Unlisted
<1> QED BY <1>1, <1>2, <1>3, <1>4, <1>5, <1>6, <1>7

(* A widened list admits only what the user did not unshare. *)
LEMMA AdmitStep == ASSUME Inv, Shares!Admit PROVE Inv'
<1> USE DEF Inv, Shares!Undecided, Shares!Flags, Shares!store, Shares!catalog,
            Shares!handler, Shares!history
<1>0. /\ ~intent.denied => Shares!origin_of(intent) # "allowlist"
      /\ ~intent.auto_denied => Shares!origin_of(intent) # "allowlist"
      /\ slot = "ready" /\ auto = "none" /\ row = "none" /\ auto' = "admit"
      /\ ui' \in UiType /\ ui'.at = ui.at /\ ui'.shared = ui.shared
      /\ ui'.loaded = ui.loaded /\ ui'.raced = (ui.at # "idle")
      /\ choice' = IF Shares!origin_of(intent) = "allowlist" THEN choice ELSE Shares!Undecided
      /\ UNCHANGED <<Shares!store, slot, force, deferred, Shares!catalog, row,
                     Shares!handler, saving, last>>
    BY OriginCases, UiRaced DEF Shares!Admit, Typed
<1>1. Typed'
    BY <1>0, SMT DEF Typed, ChoiceType
<1>2. (Unborn /\ Origins /\ Records)'
    BY <1>0 DEF Unborn, Origins, Records
<1>3. Handling'
    BY <1>0 DEF Handling, AskedFor, Tickets
<1>4. Asking'
    BY <1>0 DEF Asking
<1>5. UnshareInv'
    BY <1>0 DEF UnshareInv, Denied
<1>6. ShareInv'
    BY <1>0 DEF Origins, ShareInv, Unwithheld
<1>7. StuckInv'
    BY <1>0 DEF StuckInv, Unlisted
<1> QED BY <1>1, <1>2, <1>3, <1>4, <1>5, <1>6, <1>7

(* A reconcile writes the record that effective_shared agrees with, or queues a denial *)
(* under the number of now.                                                            *)
LEMMA ReconcileStep == ASSUME Inv, NEW b \in BOOLEAN, Shares!Reconcile(b) PROVE Inv'
<1> USE DEF Inv, Shares!Flags, Shares!Undecided, Shares!store, Shares!catalog,
            Shares!handler, Shares!history
<1>0. /\ slot \in {"ready", "failed"} /\ pc = "idle" /\ row # "none"
      /\ choice' = IF force \/ slot = "failed" THEN Shares!Undecided ELSE choice
      /\ list' \in ListType
      /\ list'.authoritative = list.authoritative /\ list'.absorbed = list.absorbed
      /\ list'.rec \in {"shared", "unshared"}
      /\ intent.denied \/ force \/ slot = "failed" => list'.rec = "unshared"
      /\ slot = "ready" /\ ~force /\ intent.allow /\ ~intent.denied
         /\ row # "unshared" => list'.rec = "shared"
      /\ deferred' \in {deferred, deferred \cup {sequence}}
      /\ row # "unshared" => deferred' = deferred
      /\ UNCHANGED <<Shares!store, slot, force, known, row, Shares!handler, saving, ui,
                     auto, last>>
    <2> DEFINE sh == /\ ~(row = "unshared" /\ list.rec = "none")
                     /\ Shares!effective_shared(IF list.rec = "none" THEN row = "shared"
                                         ELSE list.rec = "shared")
    <2>1. list' = [list EXCEPT !.rec = Shares!Flag(sh)] /\ Shares!Flag(sh) \in Shares!Flags
        BY DEF Shares!Reconcile, Shares!Flag
    <2>2. Shares!Flag(sh) = IF sh THEN "shared" ELSE "unshared"
        BY DEF Shares!Flag
    <2> HIDE DEF sh
    <2>3. /\ list' \in ListType /\ list'.rec = Shares!Flag(sh)
          /\ list'.authoritative = list.authoritative /\ list'.absorbed = list.absorbed
        BY <2>1, ListRecorded DEF Typed
    <2> USE DEF sh
    <2>4. /\ intent.denied \/ force \/ slot = "failed" => ~sh
          /\ slot = "ready" /\ ~force /\ intent.allow /\ ~intent.denied
             /\ row # "unshared" => sh
        BY DEF Shares!effective_shared
    <2> QED BY <2>2, <2>3, <2>4 DEF Shares!Reconcile
<1>1. Typed'
    <2>1. deferred' \in SUBSET (0..sequence)
        BY <1>0, SMT DEF Typed
    <2>2. choice' \in ChoiceType
        BY <1>0 DEF Typed, ChoiceType
    <2> QED BY <1>0, <2>2, SMT DEF Typed
<1>2. (Unborn /\ Origins /\ Records)'
    BY <1>0 DEF Unborn, Origins, Records
<1>3. Handling'
    BY <1>0 DEF Handling, AskedFor, Tickets
<1>4. Asking'
    BY <1>0 DEF Asking
<1>5. UnshareInv'
    BY <1>0 DEF UnshareInv, Denied, Unlisted
<1>6. ShareInv'
    <2>1. ASSUME slot = "ready", ~force, intent.allow, row # "unshared"
          PROVE  deferred' = deferred /\ list'.rec = "shared"
        BY <1>0, <2>1 DEF Typed, Shares!Intent, Origins
    <2> QED BY <1>0, <2>1 DEF Asking, ShareInv, Unwithheld, Tickets, Shares!Flag
<1>7. StuckInv'
    BY <1>0 DEF StuckInv, Unlisted
<1> QED BY <1>1, <1>2, <1>3, <1>4, <1>5, <1>6, <1>7

(* The periodic save lands. *)
LEMMA FinishSaveStep == ASSUME Inv, NEW ok \in BOOLEAN, Shares!FinishSave(ok) PROVE Inv'
<1> USE DEF Inv, Shares!Flags, Shares!Kinds, SameIntent, Shares!store, Shares!catalog,
            Shares!handler, Shares!history
<1>0. /\ saving # "idle" /\ saving' = "idle" /\ SameIntent
      /\ known' \in {known, [kind |-> "whole", rec |-> saving]}
      /\ UNCHANGED <<slot, force, sequence, write_seq, deferred, list, row, Shares!handler, ui,
             auto, Shares!history>>
    BY WriteKeeps DEF Shares!FinishSave, Typed
<1>1. Typed'
    BY <1>0, SMT DEF Typed, KnownType, ListType, ReqType
<1>2. (Unborn /\ Origins /\ Records)'
    BY <1>0, SMT DEF Unborn, Origins, Records
<1>3. Handling'
    BY <1>0 DEF Handling, AskedFor, Tickets
<1>4. Asking'
    BY <1>0 DEF Asking
<1>5. UnshareInv'
    BY <1>0, SMT DEF UnshareInv, Denied, Unlisted
<1>6. ShareInv'
    BY <1>0, SMT DEF ShareInv, Unwithheld, Tickets
<1>7. StuckInv'
    BY <1>0, SMT DEF StuckInv, Unlisted
<1> QED BY <1>1, <1>2, <1>3, <1>4, <1>5, <1>6, <1>7

(* known.met is loaded late: a record the session already has wins. *)
LEMMA LoadStep == ASSUME Inv, NEW copied \in BOOLEAN, NEW ok \in BOOLEAN,
       Shares!LoadCatalog(copied, ok) PROVE Inv'
<1> USE DEF Inv, Shares!Flags, Shares!Kinds, SameIntent, Shares!store, Shares!catalog,
            Shares!handler, Shares!history
<1>0. /\ slot \in {"ready", "failed"} /\ pc = "idle" /\ ~list.absorbed
      /\ SameIntent /\ force' \in BOOLEAN /\ (force /\ slot # "ready" => force')
      /\ list' = [rec |-> IF list.rec = "none" /\ known.kind \in {"whole", "cut"}
                          THEN known.rec ELSE list.rec,
                authoritative |-> list.authoritative \/ known.kind \in {"absent", "whole"}
                                    \/ copied,
                absorbed |-> TRUE]
      /\ UNCHANGED <<slot, sequence, write_seq, deferred, known, row, Shares!handler,
                     saving, ui, auto, Shares!history>>
    BY CloseKeeps DEF Shares!LoadCatalog
<1>1. Typed'
    BY <1>0, SMT DEF Typed, KnownType, ListType, UiType
<1>2. (Unborn /\ Origins /\ Records)'
    BY <1>0, SMT DEF Typed, KnownType, ListType, Unborn, Origins, Records
<1>3. Handling'
    BY <1>0 DEF Handling
<1>4. Asking'
    BY <1>0 DEF Asking
<1>5. UnshareInv'
    BY <1>0 DEF UnshareInv, Denied, Unlisted
<1>6. ShareInv'
    BY <1>0 DEF Records, Asking, ShareInv, Unwithheld, Tickets
<1>7. StuckInv'
    BY <1>0 DEF StuckInv, Unlisted
<1> QED BY <1>1, <1>2, <1>3, <1>4, <1>5, <1>6, <1>7

(* A queued unshare lands, or finds that the hash was written since. *)
LEMMA LandStep == ASSUME Inv, NEW ticket \in deferred, NEW ok \in BOOLEAN,
       Shares!LandDeferred(ticket, ok) PROVE Inv'
<1> USE DEF Inv, Shares!Flags, Shares!store, Shares!catalog, Shares!handler, Shares!history
<1>0. /\ slot = "ready" /\ deferred' = deferred \ {ticket} /\ sequence' = sequence + 1
      /\ UNCHANGED <<slot, force, Shares!catalog, row, Shares!handler, saving, ui, auto,
                     choice>>
    BY DEF Shares!LandDeferred, Shares!apply_explicit_batch
<1>a. \/ UNCHANGED <<intent, intent_file, write_seq, last>>
      \/ /\ ~Tickets /\ last' = "unshared" /\ write_seq' = sequence + 1
         /\ intent' \in Shares!Intent /\ intent_file' = intent'
         /\ intent'.denied /\ ~intent'.allow
         /\ intent'.auto_denied = intent.auto_denied
    <2>1. CASE write_seq > ticket
        BY <2>1 DEF Shares!LandDeferred
    <2>2. CASE ~(write_seq > ticket)
        <3>1. ~Tickets
            BY <2>2 DEF Tickets, Typed
        <3>2. Shares!apply_explicit_batch(FALSE, "unknown", ok)
              /\ last' = IF Shares!Applied(FALSE, "unknown", ok) THEN "unshared" ELSE last
            BY <2>2 DEF Shares!LandDeferred
        <3>3. CASE Shares!InEffect(intent, FALSE, "unknown") \/ ok
            BY <1>0, <3>1, <3>2, <3>3, ApplyUnshare
               DEF Shares!Applied, Numbered, Shares!Origin
        <3>4. CASE ~(Shares!InEffect(intent, FALSE, "unknown") \/ ok)
            BY <3>2, <3>4, ApplyFails DEF Shares!Applied, Shares!Origin
        <3> QED BY <3>3, <3>4
    <2> QED BY <2>1, <2>2
<1>1. Typed'
    BY <1>0, <1>a, SMT DEF Typed
<1>2. (Unborn /\ Origins /\ Records)'
    BY <1>0, <1>a DEF Unborn, Origins, Records
<1>3. Handling'
    BY <1>0, <1>a DEF Handling, AskedFor, Tickets
<1>4. Asking'
    BY <1>0 DEF Asking
<1>5. UnshareInv'
    BY <1>0, <1>a, SMT DEF UnshareInv, Denied, Unlisted
<1>6. ShareInv'
    BY <1>0, <1>a DEF ShareInv, Unwithheld, Tickets
<1>7. StuckInv'
    BY <1>0, <1>a, SMT DEF StuckInv, Unlisted
<1> QED BY <1>1, <1>2, <1>3, <1>4, <1>5, <1>6, <1>7

(* The process is killed. *)
LEMMA CrashStep == ASSUME Inv, Shares!Crash PROVE Inv'
<1> USE DEF Inv, Shares!Flags, Shares!store, Shares!catalog, Shares!handler, Shares!history
<1>0. /\ slot' = "down" /\ force' = FALSE
      /\ sequence' = 0 /\ write_seq' = 0 /\ deferred' = {}
      /\ list' = Shares!Placeholder /\ row' = "none"
      /\ pc' = "idle" /\ req' = Shares!NoRequest /\ before' = "none" /\ saving' = "idle"
      /\ ui' = Shares!Idle /\ auto' = "none"
      /\ intent' = intent /\ intent_file' = intent
      /\ choice' = IF ui.at = "idle" THEN choice ELSE Shares!Undecided
      /\ UNCHANGED <<known, last>>
    BY DEF Shares!Crash, Shares!Killed, Typed
<1> USE DEF Shares!Placeholder, Shares!NoRequest, Shares!Idle, Shares!Undecided, Shares!Origin
<1>1. Typed'
    <2>1. list' \in ListType /\ req' \in ReqType /\ ui' \in UiType
        BY <1>0 DEF ListType, ReqType, UiType
    <2>2. choice' \in ChoiceType
        BY <1>0 DEF Typed, ChoiceType
    <2>3. /\ sequence' \in Nat /\ write_seq' \in 0..sequence'
          /\ deferred' \in SUBSET (0..sequence')
        BY <1>0, SMT
    <2> QED BY <1>0, <2>1, <2>2, <2>3 DEF Typed
<1>2. (Unborn /\ Origins /\ Records)'
    BY <1>0 DEF Unborn, Origins, Records
<1>3. Handling'
    BY <1>0 DEF Handling
<1>4. Asking'
    BY <1>0 DEF Asking
<1>5. UnshareInv'
    BY <1>0 DEF UnshareInv, Denied, Unlisted
<1>6. ShareInv'
    BY <1>0 DEF ShareInv, Unwithheld, Tickets
<1>7. StuckInv'
    BY <1>0 DEF StuckInv, Unlisted
<1> QED BY <1>1, <1>2, <1>3, <1>4, <1>5, <1>6, <1>7

(* The next start folds known.met into the share intent. *)
LEMMA InitializedStep == ASSUME Inv, NEW ok \in BOOLEAN, Shares!Initialized(ok) PROVE Inv'
<1> USE DEF Inv, Shares!Flags, Shares!store, Shares!catalog, Shares!handler, Shares!history
<1>0. /\ slot = "pending" /\ slot' \in {"ready", "failed"}
      /\ intent' \in Shares!Intent /\ intent_file' = intent'
      /\ \/ /\ known.kind \in {"whole", "cut"} /\ known.rec = "unshared"
            /\ intent'.denied /\ ~intent'.allow
         \/ /\ known.rec = "unshared" =>
                   ~(known.kind \in {"whole", "cut"}) \/ slot' = "failed"
            /\ intent'.denied = intent.denied /\ intent'.allow = intent.allow
      /\ intent'.auto_denied = intent.auto_denied
      /\ IF slot' = "ready" THEN force' = force ELSE force' = TRUE
      /\ UNCHANGED <<sequence, write_seq, deferred, Shares!catalog, row, Shares!handler,
                     saving, ui, auto, Shares!history>>
    BY AbsorbedFields DEF Shares!Initialized, Shares!Install, Typed
<1>a. /\ list = Shares!Placeholder /\ row = "none" /\ deferred = {} /\ ~force
      /\ pc = "idle" /\ saving = "idle" /\ ui = Shares!Idle /\ auto = "none"
    BY <1>0 DEF Unborn
<1>1. Typed'
    <2>1. /\ intent' \in Shares!Intent /\ intent_file' = intent' /\ force' \in BOOLEAN
          /\ slot' \in {"down", "pending", "ready", "failed"}
        BY <1>0 DEF Typed
    <2> QED BY <1>0, <2>1, SMT DEF Typed
<1> USE DEF Shares!Placeholder, Shares!Idle
<1>2. (Unborn /\ Origins /\ Records)'
    BY <1>0 DEF Unborn, Origins, Records
<1>3. Handling'
    BY <1>0, <1>a DEF Handling
<1>4. Asking'
    BY <1>0 DEF Asking
<1>5. UnshareInv'
    BY <1>0, <1>a DEF UnshareInv, Denied, Unlisted
<1>6. ShareInv'
    BY <1>0, <1>a DEF ShareInv, Unwithheld, Tickets
<1>7. StuckInv'
    BY <1>0, <1>a DEF StuckInv, Unlisted
<1> QED BY <1>1, <1>2, <1>3, <1>4, <1>5, <1>6, <1>7

(* The user is told, or the command is undone. *)
LEMMA AnsweredStep == ASSUME Inv, NEW saved \in BOOLEAN, Shares!Answered(saved) PROVE Inv'
<1> USE DEF Inv, Shares!Flags, Shares!store, Shares!catalog, Shares!handler, Shares!history
<1>0. /\ UNCHANGED <<Shares!store, slot, force, deferred, Shares!catalog, Shares!handler,
                     saving, auto, last>>
      /\ ui \in UiType /\ choice \in ChoiceType /\ row \in Shares!Flags
    BY DEF Shares!Answered, Typed
<1>a. \/ /\ ui.at = "ok" /\ ui' = Shares!Idle /\ row' = row
         /\ choice' = IF ui.raced THEN Shares!Undecided
                       ELSE [what |-> Shares!Flag(ui.shared), loaded |-> ui.loaded]
      \/ ui.at = "ok" /\ ui' = [ui EXCEPT !.at = "undo"] /\ row' = row /\ choice' = choice
      \/ /\ ui.at \in {"failed", "botched"} /\ ui' = Shares!Idle /\ row' \in Shares!Flags
         /\ \/ choice' = Shares!Undecided
            \/ /\ ui.at = "failed" /\ ui.shared /\ ~ui.raced
               /\ choice.what = "unshared" /\ choice.loaded
               /\ choice' = [choice EXCEPT !.loaded = ui.loaded]
    BY SMT DEF Shares!Answered, Shares!Revert, Typed, Shares!Flag
<1>b. /\ Shares!Idle \in UiType /\ Shares!Idle.at = "idle"
      /\ Shares!Undecided \in ChoiceType /\ Shares!Undecided.what = "none"
    BY DEF Shares!Idle, UiType, Shares!Undecided, ChoiceType
<1>1. ASSUME ui.at \in {"ok", "failed", "botched"}, ui' = Shares!Idle, row' \in Shares!Flags,
       choice' = Shares!Undecided PROVE Inv'
    <2>0. /\ row' \in Shares!Flags /\ ui' \in UiType /\ ui'.at = "idle"
          /\ choice' \in ChoiceType /\ choice'.what = "none"
        BY <1>1, <1>b
    <2>1. Typed'
        BY <1>0, <2>0, SMT DEF Typed
    <2>2. (Unborn /\ Origins /\ Records)'
        BY <1>0, <1>1, <2>0 DEF Shares!Idle, Unborn, Origins, Records
    <2>3. Handling'
        BY <1>0, <1>1 DEF Handling, AskedFor, Tickets
    <2>4. Asking'
        BY <2>0 DEF Asking
    <2>5. UnshareInv'
        BY <2>0 DEF AskedFor, UnshareInv
    <2>6. ShareInv'
        BY <2>0 DEF Asking, ShareInv, Unwithheld, Tickets
    <2>7. StuckInv'
        BY <1>0, <2>0 DEF StuckInv, Unlisted
    <2> QED BY <2>1, <2>2, <2>3, <2>4, <2>5, <2>6, <2>7
<1>2. ASSUME ui.at = "ok", ui' = Shares!Idle, row' = row, ~ui.raced,
             choice' = [what |-> Shares!Flag(ui.shared), loaded |-> ui.loaded]
      PROVE  Inv'
    <2>0. /\ row' \in Shares!Flags /\ ui' \in UiType /\ ui'.at = "idle"
          /\ choice' \in ChoiceType
          /\ choice'.what = Shares!Flag(ui.shared) /\ choice'.loaded = ui.loaded
        BY <1>0, <1>2, <1>b DEF ChoiceType, UiType, Shares!Flag
    <2>a. Shares!Flag(ui.shared) = (IF ui.shared THEN "shared" ELSE "unshared")
        BY DEF Shares!Flag
    <2>1. Typed'
        BY <1>0, <2>0, SMT DEF Typed
    <2>2. (Unborn /\ Origins /\ Records)'
        BY <1>0, <1>2 DEF Unborn, Origins, Records
    <2>3. Handling'
        BY <1>0, <1>2 DEF Handling, AskedFor, Tickets
    <2>4. Asking'
        BY <2>0 DEF Asking
    <2>5. UnshareInv'
        BY <1>0, <1>2, <2>0, <2>a DEF Handling, AskedFor, Asking, UnshareInv, Denied,
           Unlisted
    <2>6. ShareInv'
        BY <1>0, <1>2, <2>0, <2>a DEF Asking, ShareInv, Unwithheld, Tickets
    <2>7. StuckInv'
        BY <1>0, <1>2 DEF StuckInv, Unlisted
    <2> QED BY <2>1, <2>2, <2>3, <2>4, <2>5, <2>6, <2>7
<1>3. ASSUME ui.at = "ok", ui' = [ui EXCEPT !.at = "undo"], row' = row, choice' = choice
      PROVE  Inv'
    <2>0. /\ row' \in Shares!Flags /\ ui' \in UiType /\ choice' \in ChoiceType
          /\ ui'.at = "undo" /\ ui'.shared = ui.shared
          /\ ui'.loaded = ui.loaded /\ ui'.raced = ui.raced
        BY <1>0, <1>3, UiMoved
    <2>1. Typed'
        BY <1>0, <2>0, SMT DEF Typed
    <2>2. (Unborn /\ Origins /\ Records)'
        BY <1>0, <1>3, SMT DEF Shares!Idle, Unborn, Origins, Records
    <2>3. Handling'
        BY <1>0, <1>3 DEF Handling, AskedFor, Tickets
    <2>4. Asking'
        BY <1>0, <1>3, <2>0 DEF Asking
    <2>5. UnshareInv'
        BY <1>0, <1>3, <2>0 DEF AskedFor, UnshareInv
    <2>6. ShareInv'
        BY <2>0 DEF ShareInv
    <2>7. StuckInv'
        BY <1>0 DEF StuckInv, Unlisted
    <2> QED BY <2>1, <2>2, <2>3, <2>4, <2>5, <2>6, <2>7
<1>4. ASSUME ui.at = "failed", ui.shared, ~ui.raced, ui' = Shares!Idle, row' \in Shares!Flags,
             choice.what = "unshared", choice.loaded,
             choice' = [choice EXCEPT !.loaded = ui.loaded]
      PROVE  Inv'
    <2>0. /\ row' \in Shares!Flags /\ ui' \in UiType /\ ui'.at = "idle"
          /\ choice' \in ChoiceType
          /\ choice'.what = "unshared" /\ choice'.loaded = ui.loaded
        BY <1>0, <1>4, <1>b DEF ChoiceType, UiType
    <2>1. Typed'
        BY <1>0, <2>0, SMT DEF Typed
    <2>2. (Unborn /\ Origins /\ Records)'
        BY <1>0, <1>4, <2>0 DEF Shares!Idle, Unborn, Origins, Records
    <2>3. Handling'
        BY <1>0, <1>4 DEF Handling, AskedFor, Tickets
    <2>4. Asking'
        BY <2>0 DEF Asking
    <2>5. UnshareInv'
        BY <1>0, <1>4, <2>0 DEF Handling, AskedFor, Asking, UnshareInv, Denied, Unlisted
    <2>6. ShareInv'
        BY <2>0 DEF ShareInv
    <2>7. StuckInv'
        BY <1>0 DEF StuckInv, Unlisted
    <2> QED BY <2>1, <2>2, <2>3, <2>4, <2>5, <2>6, <2>7
<1> QED BY <1>0, <1>a, <1>1, <1>2, <1>3, <1>4

(* known.met is saved inside SetFilesShared. *)
LEMMA SaveStep == ASSUME Inv, Shares!Save PROVE Inv'
<1> USE DEF Inv, Shares!Flags, Shares!Flag, Shares!store, Shares!catalog, Shares!handler,
            Shares!history
<1>0. /\ pc = "save" /\ saving = "idle" /\ req \in ReqType /\ list \in ListType
      /\ list.rec \in Shares!Flags /\ UNCHANGED <<slot, force, sequence, write_seq, deferred,
                                                 list, row, saving, Shares!history>>
    BY DEF Shares!Save, Typed, ListType
<1>a. ASSUME before # "none" /\ Shares!CanSave
      PROVE  SameIntent /\ known' = [kind |-> "whole", rec |-> list.rec]
    <2>1. Shares!Write(list.rec)
        BY <1>a DEF Shares!Save
    <2> QED BY <1>0, <2>1, WriteKeeps
<1>b. ASSUME ~(before # "none" /\ Shares!CanSave)
      PROVE  SameIntent /\ known' = known
    BY <1>b DEF Shares!Save, Typed, SameIntent
<1>c. /\ SameIntent /\ known' \in KnownType
      /\ known'.rec \in {known.rec, list.rec}
      /\ known'.kind \in {"absent", "damaged"} => known' = known
      /\ list.authoritative => known'.rec = list.rec
      /\ list.rec = "none" => known' = known
    BY <1>0, <1>a, <1>b, SMT DEF Shares!CanSave, Typed, KnownType, Shares!Kinds,
                                 Handling, Records
<1> USE DEF SameIntent
<1>1. ASSUME ~req.shared, pc' = "deny", UNCHANGED <<req, before, ui, auto>> PROVE Inv'
    <2>1. Typed'
        BY <1>0, <1>1, <1>c, SMT DEF Typed
    <2>2. (Unborn /\ Origins /\ Records)'
        BY <1>0, <1>c DEF Unborn, Origins, Records
    <2>3. Handling'
        BY <1>0, <1>1, <1>c DEF Handling, AskedFor
    <2>4. Asking'
        BY <1>0, <1>1 DEF Asking
    <2>5. UnshareInv'
        BY <1>0, <1>1, <1>c DEF Handling, AskedFor, Asking, UnshareInv, Denied, Unlisted
    <2>6. ShareInv'
        BY <1>0, <1>1, <1>c DEF AskedFor, ShareInv, Unwithheld, Tickets
    <2>7. StuckInv'
        BY <1>0, <1>c DEF StuckInv
    <2> QED BY <2>1, <2>2, <2>3, <2>4, <2>5, <2>6, <2>7
<1>2. ASSUME req.shared, Shares!Reply(req, "ok") PROVE Inv'
    <2>0. Told(req, "ok")
        BY <1>0, <1>2, ReplyFields
    <2> USE DEF Told, SameUi
    <2>a. AskedFor /\ req.shared \in BOOLEAN /\ ui.shared \in BOOLEAN
        BY <1>0 DEF Handling, Typed, ReqType, UiType
    <2>1. CASE req.by = "ui" /\ ui.at = "asked" /\ ui.shared
        <3>1. Typed'
                BY <1>0, <1>c, <2>0, <2>1, SMT DEF Typed
        <3>2. (Unborn /\ Origins /\ Records)'
                BY <1>0, <1>c DEF Unborn, Origins, Records
        <3>3. Handling'
                BY <2>0 DEF Handling
        <3>4. Asking'
                BY <1>0, <2>0, <2>1 DEF Asking
        <3>5. UnshareInv'
                BY <1>0, <1>2, <1>c, <2>0, <2>1
                   DEF Origins, Handling, UnshareInv, Denied
        <3>6. ShareInv'
                BY <1>0, <1>2, <1>c, <2>0, <2>1
                   DEF Handling, ShareInv, Unwithheld, Tickets
        <3>7. StuckInv'
                BY <1>0, <1>c DEF StuckInv
        <3> QED BY <3>1, <3>2, <3>3, <3>4, <3>5, <3>6, <3>7
    <2>2. CASE req.by = "undo" /\ ui.at = "undo" /\ ~ui.shared
        <3>1. Typed'
                BY <1>0, <1>c, <2>0, <2>2 DEF Typed
        <3>2. (Unborn /\ Origins /\ Records)'
                BY <1>0, <1>c, <2>0 DEF Unborn, Origins, Records
        <3>3. Handling'
                BY <2>0 DEF Handling
        <3>4. Asking'
                BY <1>0, <2>0, <2>2 DEF Asking
        <3>5. UnshareInv'
                BY <2>0, <2>2 DEF UnshareInv
        <3>6. ShareInv'
                BY <2>0, <2>2 DEF ShareInv
        <3>7. StuckInv'
                BY <1>0, <1>c DEF StuckInv
        <3> QED BY <3>1, <3>2, <3>3, <3>4, <3>5, <3>6, <3>7
    <2>3. CASE req.by = "auto" /\ auto = "admit"
        <3>1. Typed'
                BY <1>0, <1>c, <2>0, <2>3 DEF Typed
        <3>2. (Unborn /\ Origins /\ Records)'
                BY <1>0, <1>c DEF Unborn, Origins, Records
        <3>3. Handling'
                BY <2>0 DEF Handling
        <3>4. Asking'
                BY <1>0, <2>0, <2>3 DEF Asking
        <3>5. UnshareInv'
                BY <1>0, <2>0, <2>3 DEF AskedFor, Asking, UnshareInv, Denied
        <3>6. ShareInv'
                BY <1>0, <1>c, <2>0, <2>3 DEF ShareInv, Unwithheld, Tickets
        <3>7. StuckInv'
                BY <1>0, <1>c DEF StuckInv
        <3> QED BY <3>1, <3>2, <3>3, <3>4, <3>5, <3>6, <3>7
    <2> QED BY <1>2, <2>a, <2>1, <2>2, <2>3 DEF AskedFor
<1> QED BY <1>1, <1>2 DEF Shares!Save

(* SetFilesShared changes the record, and allows a share first. *)
LEMMA BeginStep ==
    ASSUME Inv, NEW r \in Shares!Requests, NEW ok \in BOOLEAN, Shares!Begin(r, ok)
    PROVE  Inv'
<1> USE DEF Inv, Shares!Flags, Shares!Flag, Shares!store, Shares!catalog, Shares!handler,
            Shares!history
<1>0. /\ slot \in {"ready", "failed"} /\ pc = "idle" /\ r \in ReqType
      /\ UNCHANGED <<slot, force, deferred, known, row, saving, choice>>
      /\ r.shared \in BOOLEAN /\ ui.shared \in BOOLEAN
    BY RequestFields DEF Shares!Begin, Typed, UiType, ReqType
<1>a. \/ r.by = "ui" /\ ui.at = "asked" /\ r.shared = ui.shared /\ r.origin = "user"
      \/ r.by = "undo" /\ ui.at = "undo" /\ r.shared = ~ui.shared /\ r.origin = "unknown"
      \/ r.by = "auto" /\ auto = "withhold" /\ ~r.shared /\ r.origin = "allowlist"
      \/ r.by = "auto" /\ auto = "admit" /\ r.shared
    BY RequestFields
<1>1. ASSUME r.shared, ~Shares!Applied(TRUE, "user", ok) PROVE Inv'
    <2>a. /\ UNCHANGED <<intent, intent_file, write_seq, list, last>>
          /\ sequence' \in {sequence, sequence + 1}
        <3>1. CASE slot = "ready"
            BY <1>1, <3>1, ApplyFails DEF Shares!Begin, Shares!Applied, Shares!Origin
        <3>2. CASE slot # "ready"
            BY <1>1, <3>2 DEF Shares!Begin
        <3> QED BY <3>1, <3>2
    <2>0. Told(r, "failed")
        <3>1. Shares!Reply(r, "failed")
            BY <1>1 DEF Shares!Begin
        <3> QED BY <1>0, <3>1, ReplyFields
    <2> USE DEF Told, SameUi
    <2>1. CASE r.by = "ui" /\ ui.at = "asked" /\ ui.shared
        <3>1. Typed'
            BY <1>0, <2>a, <2>0, <2>1, SMT DEF Typed
        <3>2. (Unborn /\ Origins /\ Records)'
            BY <1>0, <2>a DEF Unborn, Origins, Records
        <3>3. Handling'
            BY <1>0, <1>1, <2>0 DEF Handling
        <3>4. Asking'
            BY <1>0, <2>a, <2>0, <2>1 DEF Asking
        <3>5. UnshareInv'
            BY <1>0, <2>a, <2>0, <2>1 DEF UnshareInv, Denied, Unlisted
        <3>6. ShareInv'
            BY <1>1, <2>0, <2>1 DEF ShareInv
        <3>7. StuckInv'
            BY <1>0, <2>a, <2>0 DEF StuckInv, Unlisted
        <3> QED BY <3>1, <3>2, <3>3, <3>4, <3>5, <3>6, <3>7
    <2>2. CASE r.by = "undo" /\ ui.at = "undo" /\ ~ui.shared
        <3>1. Typed'
            BY <1>0, <2>a, <2>0, <2>2, SMT DEF Typed
        <3>2. (Unborn /\ Origins /\ Records)'
            BY <1>0, <2>a DEF Unborn, Origins, Records
        <3>3. Handling'
            BY <2>0 DEF Handling
        <3>4. Asking'
            BY <1>0, <2>a, <2>0, <2>2 DEF Asking
        <3>5. UnshareInv'
            BY <2>0, <2>2 DEF Asking, UnshareInv
        <3>6. ShareInv'
            BY <2>0, <2>2 DEF ShareInv
        <3>7. StuckInv'
            BY <1>0, <2>a, <2>0 DEF StuckInv, Unlisted
        <3> QED BY <3>1, <3>2, <3>3, <3>4, <3>5, <3>6, <3>7
    <2>3. CASE r.by = "auto" /\ auto = "admit"
        <3>1. Typed'
            BY <1>0, <2>a, <2>0, <2>3, SMT DEF Typed
        <3>2. (Unborn /\ Origins /\ Records)'
            BY <1>0, <2>a DEF Unborn, Origins, Records
        <3>3. Handling'
            BY <2>0 DEF Handling
        <3>4. Asking'
            BY <1>0, <1>1, <2>a, <2>0, <2>3 DEF AskedFor, Asking
        <3>5. UnshareInv'
            BY <1>0, <1>1, <2>a, <2>0, <2>3 DEF Origins, UnshareInv, Denied, Unlisted
        <3>6. ShareInv'
            BY <1>0, <2>0, <2>3 DEF Origins, Handling, AskedFor, Asking, ShareInv,
               Unwithheld, Tickets
        <3>7. StuckInv'
            BY <1>0, <2>a, <2>0 DEF StuckInv, Unlisted
        <3> QED BY <3>1, <3>2, <3>3, <3>4, <3>5, <3>6, <3>7
    <2> QED BY <1>1, <1>a, <2>1, <2>2, <2>3
<1> DEFINE Recorded ==
        /\ list' \in ListType
        /\ list'.rec = IF list.rec = "none" THEN "none" ELSE Shares!Flag(r.shared)
        /\ list'.authoritative = list.authoritative /\ list'.absorbed = list.absorbed
        /\ pc' = "save" /\ req' = r /\ before' = list.rec /\ before' \in Shares!Flags
        /\ last' = Shares!Flag(r.shared) /\ UNCHANGED <<ui, auto>>
<1>b. ASSUME ~(r.shared /\ ~Shares!Applied(TRUE, "user", ok)) PROVE Recorded
    <2>1. /\ list' = [list EXCEPT !.rec = IF @ = "none" THEN @ ELSE Shares!Flag(r.shared)]
          /\ pc' = "save" /\ req' = r /\ before' = list.rec
          /\ last' = Shares!Flag(r.shared) /\ UNCHANGED <<ui, auto>>
        BY <1>b DEF Shares!Begin
    <2>2. /\ list \in ListType /\ list.rec \in Shares!Flags
          /\ (IF list.rec = "none" THEN list.rec ELSE Shares!Flag(r.shared)) \in Shares!Flags
        BY DEF Typed, ListType
    <2>3. /\ list' \in ListType
          /\ list'.rec = IF list.rec = "none" THEN list.rec ELSE Shares!Flag(r.shared)
          /\ list'.authoritative = list.authoritative /\ list'.absorbed = list.absorbed
        <3> HIDE DEF Shares!Flag, Recorded
        <3> QED BY <2>1, <2>2, ListRecorded
    <2> QED BY <2>1, <2>2, <2>3
<1>2. ASSUME r.shared, Shares!Applied(TRUE, "user", ok) PROVE Inv'
    <2>0. Recorded
        BY <1>b, <1>2
    <2>a. /\ slot = "ready" /\ intent' \in Shares!Intent /\ intent_file' = intent'
          /\ sequence' = sequence + 1 /\ write_seq' = sequence + 1
          /\ intent'.allow /\ ~intent'.denied /\ ~intent'.auto_denied
        BY <1>2, ApplyShare DEF Shares!Begin, Shares!Applied, Numbered
    <2>b. Tickets'
        BY <1>0, <2>a, SMT DEF Typed, Tickets
    <2>1. Typed'
        BY <1>0, <1>a, <2>0, <1>2, <2>a, <2>b, SMT DEF Typed
    <2>2. (Unborn /\ Origins /\ Records)'
        BY <1>0, <2>0, <2>a DEF Unborn, Origins, Records
    <2>3. Handling'
        <3>1. AskedFor' /\ pc' = "save" /\ req'.shared
            BY <1>a, <2>0, <1>2 DEF AskedFor
        <3>2. /\ before' = "none" <=> list'.rec = "none"
              /\ list'.rec # "none" => list'.rec = Shares!Flag(TRUE)
              /\ last' = "shared" /\ slot' = "ready"
            BY <1>0, <2>0, <1>2, <2>a
        <3>3. req'.shared = TRUE
            BY <2>0, <1>2
        <3> QED BY <2>a, <2>b, <3>1, <3>2, <3>3 DEF Handling
    <2>4. Asking'
        BY <1>0, <2>0 DEF Asking
    <2>5. UnshareInv'
        BY <1>0, <1>a, <2>0, <1>2, <2>b DEF Asking, UnshareInv
    <2>6. ShareInv'
        BY <1>0, <2>0, <1>2, <2>a, <2>b DEF ShareInv, Unwithheld
    <2>7. StuckInv'
        BY <2>0, <2>a DEF StuckInv
    <2> QED BY <2>1, <2>2, <2>3, <2>4, <2>5, <2>6, <2>7
<1>3. ASSUME ~r.shared PROVE Inv'
    <2>0. Recorded
        BY <1>b, <1>3
    <2>a. UNCHANGED <<intent, intent_file, sequence, write_seq>>
        BY <1>3 DEF Shares!Begin
    <2>1. Typed'
        BY <1>0, <2>0, <2>a, SMT DEF Typed
    <2>2. (Unborn /\ Origins /\ Records)'
        BY <1>0, <2>0, <2>a DEF Unborn, Origins, Records
    <2>3. Handling'
        BY <1>0, <1>a, <2>0, <1>3, <2>a DEF Handling, AskedFor, Tickets
    <2>4. Asking'
        BY <1>0, <2>0, <1>3 DEF Asking
    <2>5. UnshareInv'
        BY <1>0, <2>0, <1>3, <2>a DEF UnshareInv, Denied, Unlisted
    <2>6. ShareInv'
        BY <1>0, <1>a, <2>0 DEF AskedFor, Asking, ShareInv
    <2>7. StuckInv'
        BY <2>0, <1>3 DEF StuckInv
    <2> QED BY <2>1, <2>2, <2>3, <2>4, <2>5, <2>6, <2>7
<1> QED BY <1>1, <1>2, <1>3

(* The save fails: the record goes back, and an allow that changed something is *)
(* withdrawn with it.                                                           *)
LEMMA SaveFailedStep == ASSUME Inv, NEW ok \in BOOLEAN, Shares!SaveFailed(ok) PROVE Inv'
<1> USE DEF Inv, Shares!Flags, Shares!Flag, Shares!store, Shares!catalog, Shares!handler,
            Shares!history
<1>0. /\ pc = "save" /\ saving = "idle" /\ before # "none" /\ req \in ReqType
      /\ UNCHANGED <<slot, force, deferred, known, row, saving, choice>>
      /\ req.shared \in BOOLEAN /\ ui.shared \in BOOLEAN
    BY DEF Shares!SaveFailed, Typed, UiType, ReqType
<1>a. /\ list' \in ListType /\ list'.rec = before
      /\ list'.authoritative = list.authoritative /\ list'.absorbed = list.absorbed
    BY ListRecorded DEF Shares!SaveFailed, Typed
<1>c. req.by \in {"ui", "undo", "auto"}
    BY <1>0 DEF Handling, AskedFor
<1> USE DEF Told, SameUi
<1>1. ASSUME req.shared, before # "shared" PROVE Inv'
    <2>a. slot = "ready" /\ Shares!apply_explicit_batch(FALSE, "unknown", ok)
          /\ last' = "unshared"
          /\ Shares!Reply(req, IF ~Shares!Applied(FALSE, "unknown", ok)
                               THEN "botched" ELSE "failed")
        BY <1>0, <1>1 DEF Shares!SaveFailed, Handling
    <2>b. ~intent.auto_denied /\ ~intent.denied
        BY <1>0, <1>1 DEF Handling, Origins, Typed, Shares!Intent
    <2>1. CASE Shares!InEffect(intent, FALSE, "unknown") \/ ok
        <3>a. /\ intent' \in Shares!Intent /\ intent_file' = intent'
              /\ sequence' = sequence + 1 /\ write_seq' = sequence + 1
              /\ intent'.denied /\ ~intent'.allow /\ ~intent'.auto_denied
            BY <2>a, <2>b, <2>1, ApplyUnshare DEF Numbered, Shares!Origin
        <3>b. Told(req, "failed")
            <4>1. Shares!Reply(req, "failed")
                BY <2>a, <2>1, SMT DEF Shares!Applied
            <4> QED BY <1>0, <4>1, ReplyFields
        <3>1. Typed'
            BY <1>0, <1>a, <1>c, <1>1, <2>a, <3>a, <3>b, SMT DEF Typed
        <3>2. (Unborn /\ Origins /\ Records)'
            BY <1>0, <1>a, <3>a DEF Unborn, Origins, Records
        <3>3. Handling'
            BY <3>b DEF Handling
        <3>4. Asking'
            BY <1>0, <1>a, <2>a, <3>b DEF Handling, AskedFor, Asking
        <3>5. UnshareInv'
            BY <1>0, <1>a, <1>1, <3>a, <3>b DEF Handling, AskedFor, UnshareInv, Denied,
               Unlisted
        <3>6. ShareInv'
            BY <1>0, <3>a, <3>b DEF Handling, AskedFor, Asking, ShareInv
        <3>7. StuckInv'
            BY <2>a DEF StuckInv
        <3> QED BY <3>1, <3>2, <3>3, <3>4, <3>5, <3>6, <3>7
    <2>2. CASE ~(Shares!InEffect(intent, FALSE, "unknown") \/ ok)
        <3>a. UNCHANGED <<intent, intent_file, write_seq>> /\ sequence' = sequence + 1
            BY <2>a, <2>2, ApplyFails DEF Shares!Origin
        <3>b. Told(req, "botched")
            <4>1. Shares!Reply(req, "botched")
                BY <2>a, <2>2 DEF Shares!Applied
            <4> QED BY <1>0, <4>1, ReplyFields
        <3>1. Typed'
            BY <1>0, <1>a, <1>c, <1>1, <2>a, <3>a, <3>b, SMT DEF Typed
        <3>2. (Unborn /\ Origins /\ Records)'
            BY <1>0, <1>a, <3>a, <3>b DEF Unborn, Origins, Records
        <3>3. Handling'
            BY <3>b DEF Handling
        <3>4. Asking'
            BY <1>0, <1>a, <1>c, <3>b DEF Handling, AskedFor, Asking
        <3>5. UnshareInv'
            BY <1>0, <1>1, <3>b DEF Handling, AskedFor, Asking, UnshareInv
        <3>6. ShareInv'
            BY <1>0, <3>b DEF Handling, AskedFor, Asking, ShareInv
        <3>7. StuckInv'
            BY <2>a DEF StuckInv
        <3> QED BY <3>1, <3>2, <3>3, <3>4, <3>5, <3>6, <3>7
    <2> QED BY <2>1, <2>2
<1>2. ASSUME ~(req.shared /\ before # "shared") PROVE Inv'
    <2>a. UNCHANGED <<intent, intent_file, sequence, write_seq, last>>
        BY <1>2 DEF Shares!SaveFailed
    <2>b. Told(req, "failed")
        <3>1. Shares!Reply(req, "failed")
            BY <1>2 DEF Shares!SaveFailed
        <3> QED BY <1>0, <3>1, ReplyFields
    <2>1. Typed'
        BY <1>0, <1>a, <1>c, <1>2, <2>a, <2>b, SMT DEF Typed
    <2>2. (Unborn /\ Origins /\ Records)'
        BY <1>0, <1>a, <2>a DEF Unborn, Origins, Records
    <2>3. Handling'
        BY <2>b DEF Handling
    <2>4. Asking'
        BY <1>0, <1>a, <2>b DEF Handling, AskedFor, Asking
    <2>5. UnshareInv'
        BY <1>0, <1>a, <1>2, <2>a, <2>b DEF Origins, Handling, AskedFor, Asking,
           UnshareInv, Denied, Unlisted
    <2>6. ShareInv'
        BY <1>0, <1>a, <1>c, <1>2, <2>a, <2>b
           DEF Handling, ShareInv, Unwithheld, Tickets
    <2>7. StuckInv'
        BY <1>0, <2>a DEF StuckInv
    <2> QED BY <2>1, <2>2, <2>3, <2>4, <2>5, <2>6, <2>7
<1> QED BY <1>1, <1>2

(* The denial of an unshare is written, or known.met is put back as it was. *)
LEMMA DenyStep ==
    ASSUME Inv, NEW ok \in BOOLEAN, NEW saved \in BOOLEAN, Shares!Deny(ok, saved)
    PROVE  Inv'
<1> USE DEF Inv, Shares!Flags, Shares!Flag, Shares!store, Shares!catalog, Shares!handler,
            Shares!history
<1>0. /\ pc = "deny" /\ ~req.shared /\ saving = "idle"
      /\ req \in ReqType /\ req.origin \in Shares!Origin
      /\ UNCHANGED <<slot, force, deferred, row, saving, choice, last>>
      /\ req.shared \in BOOLEAN /\ ui.shared \in BOOLEAN
    BY DEF Shares!Deny, Typed, UiType, ReqType, Handling
<1>c. req.by \in {"ui", "undo", "auto"}
    BY <1>0 DEF Handling, AskedFor
<1> USE DEF Told, SameUi
<1>1. ASSUME Shares!Applied(FALSE, req.origin, ok) PROVE Inv'
    <2>a. /\ slot = "ready" /\ Shares!apply_explicit_batch(FALSE, req.origin, ok)
          /\ Shares!Reply(req, "ok") /\ UNCHANGED <<known, list>>
          /\ Shares!InEffect(intent, FALSE, req.origin) \/ ok
        BY <1>1 DEF Shares!Deny, Shares!Applied
    <2>c. Told(req, "ok")
        BY <1>0, <2>a, ReplyFields
    <2>b. /\ intent' \in Shares!Intent /\ intent_file' = intent'
          /\ sequence' = sequence + 1 /\ write_seq' = sequence + 1
          /\ intent'.denied /\ ~intent'.allow
          /\ req.origin = "user" => ~intent'.auto_denied
          /\ req.origin = "unknown" => intent'.auto_denied = intent.auto_denied
          /\ intent.denied /\ ~intent.auto_denied => ~intent'.auto_denied
        BY <1>0, <2>a, ApplyUnshare DEF Numbered
    <2>1. Typed'
        BY <1>0, <1>c, <2>a, <2>b, <2>c, SMT DEF Typed
    <2>2. (Unborn /\ Origins /\ Records)'
        BY <1>0, <2>a, <2>b DEF Unborn, Origins, Records
    <2>3. Handling'
        BY <2>c DEF Handling
    <2>4. Asking'
        BY <1>0, <2>a, <2>c DEF Handling, AskedFor, Asking
    <2>5. UnshareInv'
        BY <1>0, <1>c, <2>a, <2>b, <2>c
           DEF Handling, AskedFor, Asking, UnshareInv, Denied, Unlisted
    <2>6. ShareInv'
        BY <1>0, <2>c DEF Handling, AskedFor, Asking, ShareInv
    <2>7. StuckInv'
        BY <1>0, <2>b DEF Handling, StuckInv
    <2> QED BY <2>1, <2>2, <2>3, <2>4, <2>5, <2>6, <2>7
<1>2. ASSUME ~Shares!Applied(FALSE, req.origin, ok) PROVE Inv'
    <2>a. /\ Shares!Reply(req, "failed") /\ write_seq' = write_seq
          /\ sequence' \in {sequence, sequence + 1}
        BY <1>2 DEF Shares!Deny
    <2>d. Told(req, "failed")
        BY <1>0, <2>a, ReplyFields
    <2>b. /\ list' \in ListType /\ list'.rec = before
          /\ list'.authoritative = list.authoritative /\ list'.absorbed = list.absorbed
        <3>1. list' = [list EXCEPT !.rec = before] /\ list \in ListType
              /\ before \in Shares!Flags
            BY <1>2 DEF Shares!Deny, Typed
        <3> QED BY <3>1, ListRecorded
    <2>c. /\ SameIntent /\ known' \in KnownType
          /\ known' # known => known'.kind = "whole" /\ known'.rec = before
        <3>1. CASE saved /\ Shares!CanSave
            <4>1. Shares!Write(before) /\ before \in Shares!Flags
                BY <1>2, <3>1 DEF Shares!Deny, Typed
            <4>2. SameIntent /\ known' = [kind |-> "whole", rec |-> before]
                BY <4>1, WriteKeeps
            <4> QED BY <4>1, <4>2 DEF KnownType, Shares!Kinds
        <3>2. CASE ~(saved /\ Shares!CanSave)
            BY <1>2, <3>2 DEF Shares!Deny, Typed, SameIntent
        <3> QED BY <3>1, <3>2
    <2> USE DEF SameIntent
    <2>1. Typed'
        BY <1>0, <1>c, <2>a, <2>b, <2>c, <2>d, SMT DEF Typed
    <2>2. (Unborn /\ Origins /\ Records)'
        BY <1>0, <2>a, <2>b, <2>c DEF Unborn, Origins, Records, Handling
    <2>3. Handling'
        BY <2>d DEF Handling
    <2>4. Asking'
        BY <1>0, <1>c, <2>a, <2>b, <2>d DEF Handling, AskedFor, Asking
    <2>5. UnshareInv'
        BY <1>0, <2>b, <2>c, <2>d DEF Handling, AskedFor, Asking, UnshareInv, Denied,
           Unlisted
    <2>6. ShareInv'
        BY <1>0, <2>a, <2>b, <2>c, <2>d DEF Origins, Handling, AskedFor, ShareInv,
           Unwithheld, Tickets
    <2>7. StuckInv'
        BY <1>0, <2>c DEF StuckInv
    <2> QED BY <2>1, <2>2, <2>3, <2>4, <2>5, <2>6, <2>7
<1> QED BY <1>1, <1>2

(* Before the first start nothing was chosen. *)
LEMMA InitInv == Shares!Init => Inv
<1> SUFFICES ASSUME Shares!Init PROVE Inv
    OBVIOUS
<1> USE DEF Shares!Init, Shares!Flags, Shares!Kinds, Shares!Placeholder, Shares!Idle,
            Shares!Undecided, Shares!NoRequest, Shares!Origin
<1>1. Typed
    <2>1. intent \in Shares!Intent /\ intent_file = intent
        BY DEF Shares!Intent
    <2>2. known \in KnownType /\ list \in ListType
        BY SMT DEF KnownType, ListType
    <2>3. req \in ReqType /\ ui \in UiType /\ choice \in ChoiceType
        BY DEF ReqType, UiType, ChoiceType
    <2>4. sequence \in Nat /\ write_seq \in 0..sequence /\ deferred \in SUBSET (0..sequence)
        BY SMT
    <2>5. /\ slot \in {"down", "pending", "ready", "failed"} /\ force \in BOOLEAN
          /\ row \in Shares!Flags /\ before \in Shares!Flags
          /\ saving \in Shares!Flags \cup {"idle"}
          /\ pc \in {"idle", "save", "deny"} /\ auto \in {"none", "withhold", "admit"}
          /\ last \in Shares!Flags
        OBVIOUS
    <2> QED BY <2>1, <2>2, <2>3, <2>4, <2>5 DEF Typed
<1>2. Unborn /\ Origins /\ Records
    BY SMT DEF Unborn, Origins, Records
<1>3. Handling /\ Asking
    BY DEF Handling, Asking
<1>4. UnshareInv /\ ShareInv /\ StuckInv
    BY DEF UnshareInv, ShareInv, StuckInv
<1> QED BY <1>1, <1>2, <1>3, <1>4 DEF Inv

(* Every step keeps the invariant. *)
LEMMA NextInv == Inv /\ [Shares!Next]_Shares!vars => Inv'
<1> SUFFICES ASSUME Inv, [Shares!Next]_Shares!vars PROVE Inv'
    OBVIOUS
<1>1. CASE UNCHANGED Shares!vars
    <2> USE <1>1 DEF Shares!vars
    <2>1. (Typed /\ Unborn /\ Origins /\ Records)'
        BY SMT DEF Inv, Typed, Unborn, Origins, Records
    <2>2. (Handling /\ Asking)'
        BY DEF Inv, Handling, AskedFor, Tickets, Asking
    <2>3. (UnshareInv /\ ShareInv /\ StuckInv)'
        BY DEF Inv, UnshareInv, Denied, Unlisted, ShareInv, Unwithheld, Tickets,
           StuckInv
    <2> QED BY <2>1, <2>2, <2>3 DEF Inv
<1>2. CASE Shares!Next
    BY <1>2, LandStep, FinishSaveStep, LoadStep, AnsweredStep, BeginStep,
       SaveFailedStep, DenyStep, InitializedStep, AskStep, ReconcileStep, StartSaveStep,
       ScanStep, RemoveStep, WithholdStep, AdmitStep, SaveStep, CrashStep, DamageStep,
       StartStep DEF Shares!Next
<1> QED BY <1>1, <1>2

(* The invariant holds throughout. *)
THEOREM ShareIntentInvariant == Shares!Spec => []Inv
BY InitInv, NextInv, PTL DEF Shares!Spec

(* A file the user unshared is offered by no session until the user shares it: not after *)
(* a crash at any point of SetFilesShared, not with known.met lost or damaged, and not   *)
(* after a share that failed (deny, effective_shared).                                   *)
THEOREM UnsharedStaysOff == Shares!Spec => []UnshareIsKept
<1>1. Inv => UnshareIsKept
    BY DEF Inv, UnshareInv, Denied, UnshareIsKept, Shares!UnshareIsKept,
           Shares!effective_shared
<1> QED BY <1>1, ShareIntentInvariant, PTL

(* A file the user shared while the catalog was read stays offered: no unshare queued *)
(* before it, no restart and no loss of known.met turns it off                        *)
(* (set_explicit_batch_unless_newer, SetFilesShared).                                 *)
THEOREM SharedStaysOffered == Shares!Spec => []ShareIsKept
<1>1. Inv => ShareIsKept
    BY DEF Inv, Typed, Shares!Intent, Origins, ShareInv, ShareIsKept,
           Shares!ShareIsKept, Shares!effective_shared
<1> QED BY <1>1, ShareIntentInvariant, PTL

(* No crash leaves a file that was being shared denied while known.met says shared: *)
(* allows are written first, known.met second, denials last (SetFilesShared).       *)
THEOREM NotLeftDenied == Shares!Spec => []NotStuck
<1>1. Inv => NotStuck
    BY DEF Inv, StuckInv, Unlisted, NotStuck, Shares!NotStuck
<1> QED BY <1>1, ShareIntentInvariant, PTL
=============================================================================
