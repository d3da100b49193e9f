---------------------------- MODULE ShareIntent ----------------------------
(***************************************************************************)
(* Which files are offered: the user's share and unshare choices, kept in  *)
(* two files that are written one after the other.                         *)
(*                                                                         *)
(* share_intent.json holds the explicit choices (denied, explicit_allow),  *)
(* known.met the catalog's own is_shared flag.  Every reader asks          *)
(* effective_shared.  The module follows one content hash: the two files,  *)
(* their copies in memory, the Library row, the network task that writes   *)
(* both files (SetFilesShared), the reconcile whose unshare is written     *)
(* later by another thread under a ticket, the folder allowlists that      *)
(* withhold and admit files by themselves, and the startup that folds      *)
(* known.met into the share intent again.                                  *)
(*                                                                         *)
(* Writes may fail, the process may be killed between any two steps, and   *)
(* known.met may be found lost, cut short or damaged at the next start.    *)
(***************************************************************************)
EXTENDS Naturals, FiniteSets

CONSTANTS
    MaxChanges,   \* share and unshare commands the user gives
    MaxAuto,      \* automatic decisions of the folder allowlists
    MaxFaults,    \* writes that fail
    MaxCrashes,   \* times the process is killed
    MaxDamage     \* times known.met is lost or damaged while it is not running

VARIABLES
    intent,       \* ShareIntentStore.state
    intent_file,  \* share_intent.json
    slot,         \* GlobalSlot, and "down" while the process is not running
    force,        \* FORCE_UNSHARED
    sequence,     \* WRITE_SEQUENCE
    write_seq,    \* the store's write_seq of this hash
    deferred,     \* tickets of the unshares queued on the blocking pool
    known,        \* known.met: the state of the file and the hash's record in it
    list,         \* known_files of the network task
    row,          \* the Library's row
    pc, req, before,  \* the network task inside SetFilesShared
    saving,       \* the periodic known.met save: the record it is writing
    ui,           \* the user's command being carried out
    auto,         \* the allowlist decision being carried out
    choice,       \* history: what the user was last told their choice is
    last,         \* history: which way the last request carried out went
    spent         \* what is used of each bound

store    == <<intent, intent_file, sequence, write_seq>>
catalog  == <<known, list>>
handler  == <<pc, req, before>>
history  == <<choice, last>>
vars == <<intent, intent_file, slot, force, sequence, write_seq, deferred, known, list,
          row, pc, req, before, saving, ui, auto, choice, last, spent>>

Flags  == {"none", "shared", "unshared"}
Origin == {"user", "allowlist", "unknown"}
Kinds  == {"absent", "whole", "cut", "damaged"}
Intent == [seen : BOOLEAN, fail_closed : BOOLEAN, denied : BOOLEAN, allow : BOOLEAN,
           auto_denied : BOOLEAN, origin_unknown : BOOLEAN]

Flag(shared)  == IF shared THEN "shared" ELSE "unshared"
Undecided     == [what |-> "none", loaded |-> FALSE]
Idle          == [at |-> "idle", shared |-> FALSE, loaded |-> FALSE, raced |-> FALSE]
Placeholder   == [rec |-> "none", authoritative |-> FALSE, absorbed |-> FALSE]
Spend(bound)  == spent' = [spent EXCEPT ![bound] = @ + 1]

\* A write to disk that succeeds, or one that fails within the bound.
Writes(ok) ==
    IF ok THEN UNCHANGED spent
          ELSE spent.faults < MaxFaults /\ Spend("faults")

-----------------------------------------------------------------------------
(* The store.                                                              *)

origin_of(i) ==
    IF ~i.denied             THEN "none"
    ELSE IF i.auto_denied    THEN "allowlist"
    ELSE IF i.origin_unknown THEN "unknown"
    ELSE "user"

\* Only the user's own unshare changes the origin of a hash already denied.
deny(i, origin) ==
    LET newly == ~i.denied IN
    [i EXCEPT !.allow = FALSE,
              !.denied = TRUE,
              !.auto_denied = origin # "user" /\ (@ \/ (newly /\ origin = "allowlist")),
              !.origin_unknown = origin # "user" /\ (@ \/ (newly /\ origin = "unknown"))]

allow(i) ==
    [i EXCEPT !.denied = FALSE, !.auto_denied = FALSE, !.origin_unknown = FALSE,
              !.allow = TRUE]

\* A batch already in effect is not written again.
InEffect(i, shared, origin) ==
    IF shared THEN i.allow /\ ~i.denied
    ELSE i.denied /\ ~i.allow /\ (origin = "user" => origin_of(i) = "user")

effective_shared(catalog_value) ==
    /\ slot = "ready"
    /\ ~force
    /\ ~intent.denied
    /\ intent.allow \/ (~intent.fail_closed /\ catalog_value)

Install(i) == intent' = i /\ intent_file' = i

\* apply_explicit_batch, without a ticket.  `ok` is whether the file can be written;
\* a hash whose entry changed nothing is stamped all the same.
apply_explicit_batch(shared, origin, ok) ==
    /\ sequence' = sequence + 1
    /\ IF InEffect(intent, shared, origin)
         THEN UNCHANGED <<intent, intent_file>> /\ write_seq' = sequence + 1
       ELSE IF ok
         THEN /\ Install(IF shared THEN allow(intent) ELSE deny(intent, origin))
              /\ write_seq' = sequence + 1
         ELSE UNCHANGED <<intent, intent_file, write_seq>>

\* Whether a batch is applied: the store is there, and the write succeeds if one is needed.
Applied(shared, origin, ok) ==
    slot = "ready" /\ (InEffect(intent, shared, origin) \/ ok)

\* As LandDeferred, but the write applied last wins.
LandDeferredAnyway(ticket, ok) ==
    /\ slot = "ready"
    /\ ticket \in deferred
    /\ deferred' = deferred \ {ticket}
    /\ apply_explicit_batch(FALSE, "unknown", ok)
    /\ Writes(ok)
    /\ UNCHANGED <<slot, force, catalog, row, handler, saving, ui, auto, history>>

\* The unshare a reconcile queued: skipped when the hash was written after its ticket.
LandDeferred(ticket, ok) ==
    /\ slot = "ready"
    /\ ticket \in deferred
    /\ deferred' = deferred \ {ticket}
    /\ IF write_seq > ticket
         THEN sequence' = sequence + 1 /\ UNCHANGED <<intent, intent_file, write_seq, last>>
         ELSE /\ apply_explicit_batch(FALSE, "unknown", ok)
              /\ last' = IF Applied(FALSE, "unknown", ok) THEN "unshared" ELSE last
    /\ Writes(ok)
    /\ UNCHANGED <<slot, force, catalog, row, handler, saving, ui, auto, choice>>

enter_fail_closed(ok) ==
    IF slot = "ready" /\ ok
      THEN /\ Install([intent EXCEPT !.seen = TRUE, !.fail_closed = TRUE])
           /\ force' = FALSE
      ELSE force' = TRUE /\ UNCHANGED <<intent, intent_file>>

note_catalog_missing(ok) ==
    IF slot = "ready" /\ (~intent.seen \/ intent.fail_closed)
      THEN UNCHANGED <<intent, intent_file, force>>
      ELSE enter_fail_closed(ok)

-----------------------------------------------------------------------------
(* known.met.                                                              *)

\* `save` refuses to replace a catalog on disk that this process never read.
CanSave == list.authoritative \/ known.kind = "absent"

\* save: known.met, then mark_catalog_seen, whose own failure is only logged.
Write(rec) ==
    /\ known' = [kind |-> "whole", rec |-> rec]
    /\ \/ slot = "ready" /\ Install([intent EXCEPT !.seen = TRUE])
       \/ UNCHANGED <<intent, intent_file>>

\* start_known_met_save: the record written is the one of this moment.
StartSave ==
    /\ slot \in {"ready", "failed"}
    /\ pc = "idle" /\ saving = "idle"
    /\ CanSave
    /\ known.kind # "whole" \/ known.rec # list.rec
    /\ saving' = list.rec
    /\ UNCHANGED <<store, slot, force, deferred, catalog, row, handler, ui, auto, history,
                   spent>>

FinishSave(ok) ==
    /\ saving # "idle"
    /\ saving' = "idle"
    /\ IF ok THEN Write(saving) ELSE UNCHANGED <<known, intent, intent_file>>
    /\ Writes(ok)
    /\ UNCHANGED <<slot, force, sequence, write_seq, deferred, list, row, handler, ui, auto,
                   history>>

\* The deferred load of known.met, and absorb_missing_from: a record the session
\* already has wins.  `copied` is whether a damaged file could be set aside.
LoadCatalog(copied, ok) ==
    /\ slot \in {"ready", "failed"}
    /\ pc = "idle" /\ ~list.absorbed
    /\ \/ known.kind = "absent" /\ note_catalog_missing(ok)
       \/ /\ known.kind = "damaged" \/ (known.kind = "cut" /\ copied)
          /\ enter_fail_closed(ok)
       \/ /\ known.kind = "whole" \/ (known.kind = "cut" /\ ~copied)
          /\ UNCHANGED <<intent, intent_file, force>>
    /\ list' = [rec |-> IF list.rec = "none" /\ known.kind \in {"whole", "cut"}
                          THEN known.rec ELSE list.rec,
                authoritative |-> list.authoritative \/ known.kind \in {"absent", "whole"}
                                    \/ copied,
                absorbed |-> TRUE]
    /\ Writes(ok)
    /\ UNCHANGED <<slot, sequence, write_seq, deferred, known, row, handler, saving, ui, auto,
                   history>>

-----------------------------------------------------------------------------
(* The Library and the commands.                                           *)

\* A scan makes the row from the record on disk, or from the hash alone.
Scan ==
    /\ slot \in {"ready", "failed"}
    /\ row = "none"
    /\ row' = Flag(effective_shared(known.kind \in {"whole", "cut"} => known.rec # "unshared"))
    /\ UNCHANGED <<store, slot, force, deferred, catalog, handler, saving, ui, auto, history,
                   spent>>

\* The folder is no longer shared.
RemoveFolder ==
    /\ row # "none" /\ ui.at = "idle"
    /\ row' = "none"
    /\ UNCHANGED <<store, slot, force, deferred, catalog, handler, saving, ui, auto, history,
                   spent>>

\* batch_share, batch_unshare: the row is flipped first, then the request is sent.
Ask(shared) ==
    /\ ui.at = "idle"
    /\ row = Flag(~shared)
    /\ spent.changes < MaxChanges /\ Spend("changes")
    /\ row' = Flag(shared)
    /\ ui' = [at |-> "asked", shared |-> shared, loaded |-> FALSE, raced |-> auto # "none"]
    /\ UNCHANGED <<store, slot, force, deferred, catalog, handler, saving, auto, history>>

\* A folder's allowlist leaves the file out, and no row of the Library offers it.
Withhold ==
    /\ slot \in {"ready", "failed"}
    /\ auto = "none" /\ row # "shared"
    /\ spent.auto < MaxAuto /\ Spend("auto")
    /\ auto' = "withhold"
    /\ ui' = [ui EXCEPT !.raced = ui.at # "idle"]
    /\ choice' = IF choice.what = "shared" THEN Undecided ELSE choice
    /\ UNCHANGED <<store, slot, force, deferred, catalog, row, handler, saving, last>>

\* admit_known_files: a widened list offers the file again, unless the user unshared it.
\* One of unknown origin is offered only if the user agrees.
Admit ==
    /\ slot = "ready"
    /\ auto = "none" /\ row = "none"
    /\ known = [kind |-> "whole", rec |-> "unshared"]
    /\ origin_of(intent) # "user"
    /\ spent.auto < MaxAuto /\ Spend("auto")
    /\ auto' = "admit"
    /\ ui' = [ui EXCEPT !.raced = ui.at # "idle"]
    /\ choice' = IF origin_of(intent) = "allowlist" THEN choice ELSE Undecided
    /\ UNCHANGED <<store, slot, force, deferred, catalog, row, handler, saving, last>>

\* The rows that a failed command flipped are put back.
Revert == row' = IF row = Flag(ui.shared) THEN Flag(~ui.shared) ELSE row

\* persist_share_mutation, once the network task answered.
Answered(saved) ==
    /\ \/ /\ ui.at = "ok" /\ saved
          /\ choice' = IF ui.raced THEN Undecided
                       ELSE [what |-> Flag(ui.shared), loaded |-> ui.loaded]
          /\ ui' = Idle
          /\ UNCHANGED row
       \/ /\ ui.at = "ok" /\ ~saved
          /\ ui' = [ui EXCEPT !.at = "undo"]
          /\ UNCHANGED <<row, choice>>
       \/ /\ ui.at \in {"failed", "botched"} /\ saved
          /\ Revert
          /\ ui' = Idle
          /\ choice' = IF ui.at = "failed" /\ ui.shared /\ ~ui.raced
                          /\ choice = [what |-> "unshared", loaded |-> TRUE]
                       THEN [choice EXCEPT !.loaded = ui.loaded] ELSE Undecided
    /\ Writes(saved)
    /\ UNCHANGED <<store, slot, force, deferred, catalog, handler, saving, auto, last>>

-----------------------------------------------------------------------------
(* SetFilesShared on the network task.                                     *)

\* The requests waiting for the network task.  An undone command sends the opposite one.
Requests ==
    {r \in [by : {"ui", "undo", "auto"}, shared : BOOLEAN, origin : Origin] :
        \/ r = [by |-> "ui", shared |-> ui.shared, origin |-> "user"] /\ ui.at = "asked"
        \/ r = [by |-> "undo", shared |-> ~ui.shared, origin |-> "unknown"] /\ ui.at = "undo"
        \/ r = [by |-> "auto", shared |-> FALSE, origin |-> "allowlist"] /\ auto = "withhold"
        \/ r = [by |-> "auto", shared |-> TRUE, origin |-> "user"] /\ auto = "admit"}

NoRequest == [by |-> "none", shared |-> FALSE, origin |-> "user"]

Reply(r, how) ==
    /\ pc' = "idle" /\ req' = NoRequest /\ before' = "none"
    /\ \/ r.by = "ui"
          /\ ui' = [ui EXCEPT !.at = how, !.loaded = list.authoritative /\ ~force]
       \/ r.by = "undo"
          /\ ui' = [ui EXCEPT !.at = IF how = "ok" THEN "failed" ELSE "botched"]
       \/ r.by = "auto" /\ UNCHANGED ui
    /\ auto' = IF r.by = "auto" THEN "none" ELSE auto

\* As Begin, but a share only changes the catalog.
BeginUnallowed(r, ok) ==
    /\ slot \in {"ready", "failed"}
    /\ pc = "idle" /\ r \in Requests
    /\ last' = Flag(r.shared)
    /\ list' = [list EXCEPT !.rec = IF @ = "none" THEN @ ELSE Flag(r.shared)]
    /\ pc' = "save" /\ req' = r /\ before' = list.rec
    /\ Writes(ok)
    /\ UNCHANGED <<store, ui, auto, slot, force, deferred, known, row, saving, choice>>

\* The record is changed in memory; a share is then allowed in the share intent.
Begin(r, ok) ==
    /\ slot \in {"ready", "failed"}
    /\ pc = "idle" /\ r \in Requests
    /\ IF r.shared /\ slot = "ready" THEN apply_explicit_batch(TRUE, "user", ok)
                                     ELSE UNCHANGED store
    /\ IF r.shared /\ ~Applied(TRUE, "user", ok)
         THEN Reply(r, "failed") /\ UNCHANGED <<list, last>>
         ELSE /\ list' = [list EXCEPT !.rec = IF @ = "none" THEN @ ELSE Flag(r.shared)]
              /\ pc' = "save" /\ req' = r /\ before' = list.rec
              /\ last' = Flag(r.shared)
              /\ UNCHANGED <<ui, auto>>
    /\ Writes(ok)
    /\ UNCHANGED <<slot, force, deferred, known, row, saving, choice>>

\* known.met is saved if it has the record.  A save it declines counts as one.
Save ==
    /\ pc = "save" /\ saving = "idle"
    /\ IF before # "none" /\ CanSave THEN Write(list.rec)
                                     ELSE UNCHANGED <<known, intent, intent_file>>
    /\ IF req.shared THEN Reply(req, "ok")
                     ELSE pc' = "deny" /\ UNCHANGED <<req, before, ui, auto>>
    /\ UNCHANGED <<slot, force, sequence, write_seq, deferred, list, row, saving, history,
                   spent>>

\* As SaveFailed, but the allow is left in place.
SaveFailedOnly(ok) ==
    /\ pc = "save" /\ saving = "idle"
    /\ before # "none" /\ CanSave
    /\ spent.faults < MaxFaults /\ Spend("faults")
    /\ Reply(req, "failed")
    /\ list' = [list EXCEPT !.rec = before]
    /\ UNCHANGED <<store, slot, force, deferred, known, row, saving, history>>

\* The save fails: an allow that made an unshared file shared is withdrawn again.
SaveFailed(ok) ==
    LET stray == req.shared /\ before # "shared"
    IN  /\ pc = "save" /\ saving = "idle"
        /\ before # "none" /\ CanSave
        /\ ok \/ stray
        /\ spent.faults < MaxFaults
        /\ spent' = [spent EXCEPT !.faults = @ + IF ok THEN 1 ELSE 2]
        /\ IF stray THEN apply_explicit_batch(FALSE, "unknown", ok) ELSE UNCHANGED store
        /\ Reply(req, IF stray /\ ~Applied(FALSE, "unknown", ok) THEN "botched" ELSE "failed")
        /\ list' = [list EXCEPT !.rec = before]
        /\ last' = IF stray THEN "unshared" ELSE last
        /\ UNCHANGED <<slot, force, deferred, known, row, saving, choice>>

\* The unshare goes into the share intent last.  If it cannot be written, the
\* catalog is saved again as it was.
Deny(ok, saved) ==
    /\ pc = "deny"
    /\ saved \/ ~Applied(FALSE, req.origin, ok)
    /\ IF Applied(FALSE, req.origin, ok)
         THEN /\ apply_explicit_batch(FALSE, req.origin, ok)
              /\ Reply(req, "ok")
              /\ UNCHANGED catalog
         ELSE /\ saving = "idle"
              /\ sequence' = IF slot = "ready" THEN sequence + 1 ELSE sequence
              /\ list' = [list EXCEPT !.rec = before]
              /\ IF saved /\ CanSave THEN Write(before)
                                     ELSE UNCHANGED <<known, intent, intent_file>>
              /\ Reply(req, "failed")
              /\ UNCHANGED write_seq
    /\ spent' = [spent EXCEPT !.faults = @ + (IF ok THEN 0 ELSE 1) + (IF saved THEN 0 ELSE 1)]
    /\ spent'.faults <= MaxFaults
    /\ UNCHANGED <<slot, force, deferred, row, saving, history>>

\* SharedFilesChangedAck: an unshared row without a record is denied, later, under the
\* ticket of now; a record that is missing, or whose file `drifted`, is written anew.
\* While sharing is forced off every record it writes is unshared, and stays so.
Reconcile(drifted) ==
    LET unrecorded == row = "unshared" /\ list.rec = "none"
        is_shared  == IF list.rec = "none" THEN row = "shared" ELSE list.rec = "shared"
    IN  /\ slot \in {"ready", "failed"}
        /\ pc = "idle" /\ row # "none"
        /\ list.rec = "none" \/ drifted
        /\ deferred' = IF unrecorded THEN deferred \cup {sequence} ELSE deferred
        /\ list' = [list EXCEPT !.rec = Flag(~unrecorded /\ effective_shared(is_shared))]
        /\ choice' = IF force \/ slot = "failed" THEN Undecided ELSE choice
        /\ UNCHANGED <<store, slot, force, known, row, handler, saving, ui, auto, last, spent>>

-----------------------------------------------------------------------------
(* Crashes and starts.                                                     *)

Killed ==
    /\ slot' = "down" /\ force' = FALSE
    /\ sequence' = 0 /\ write_seq' = 0 /\ deferred' = {}
    /\ list' = Placeholder /\ row' = "none"
    /\ pc' = "idle" /\ req' = NoRequest /\ before' = "none" /\ saving' = "idle"
    /\ ui' = Idle /\ auto' = "none"
    /\ intent' = intent_file

Crash ==
    /\ slot # "down"
    /\ spent.crashes < MaxCrashes /\ Spend("crashes")
    /\ Killed
    /\ choice' = IF ui.at = "idle" THEN choice ELSE Undecided
    /\ UNCHANGED <<intent_file, known, last>>

\* What the next start finds of known.met is out of the program's hands.
Damage ==
    /\ slot = "down" /\ known.kind = "whole"
    /\ spent.damage < MaxDamage /\ Spend("damage")
    /\ known' \in [kind : {"absent", "damaged"}, rec : {"none"}]
                  \cup [kind : {"cut"}, rec : {known.rec, "none"}]
    /\ UNCHANGED <<store, slot, force, deferred, list, row, handler, saving, ui, auto, history>>

\* initialize_in_background, up to the thread it starts.
Start ==
    /\ slot = "down"
    /\ slot' = "pending"
    /\ UNCHANGED <<store, force, deferred, catalog, row, handler, saving, ui, auto, history,
                   spent>>

\* absorb_known_catalog: every unshared record becomes a denial again, and a catalog
\* that is gone or unreadable after it was seen closes sharing.
Absorbed ==
    LET readable == known.kind \in {"whole", "cut"}
        lost     == known.kind \in {"cut", "damaged"} \/ (known.kind = "absent" /\ intent.seen)
        i == IF readable /\ known.rec = "unshared" THEN deny(intent, "unknown") ELSE intent
    IN  [i EXCEPT !.seen = @ \/ known.kind # "absent", !.fail_closed = @ \/ lost]

\* The migration is persisted and the store installed, or the session shares nothing.
Initialized(ok) ==
    /\ slot = "pending"
    /\ IF ok THEN Install(Absorbed) /\ slot' = "ready" /\ UNCHANGED force
             ELSE slot' = "failed" /\ force' = TRUE /\ UNCHANGED <<intent, intent_file>>
    /\ Writes(ok)
    /\ UNCHANGED <<sequence, write_seq, deferred, catalog, row, handler, saving, ui, auto,
                   history>>

-----------------------------------------------------------------------------
Init ==
    /\ intent = [seen |-> FALSE, fail_closed |-> FALSE, denied |-> FALSE, allow |-> FALSE,
                 auto_denied |-> FALSE, origin_unknown |-> FALSE]
    /\ intent_file = intent
    /\ slot = "down" /\ force = FALSE
    /\ sequence = 0 /\ write_seq = 0 /\ deferred = {}
    /\ known \in {[kind |-> "absent", rec |-> "none"]} \cup [kind : {"whole"}, rec : Flags]
    /\ list = Placeholder /\ row = "none"
    /\ pc = "idle" /\ req = NoRequest /\ before = "none" /\ saving = "idle"
    /\ ui = Idle /\ auto = "none"
    /\ choice = Undecided /\ last = "none"
    /\ spent = [b \in {"changes", "auto", "faults", "crashes", "damage"} |-> 0]

Next ==
    \/ \E ok \in BOOLEAN :
        \/ \E ticket \in deferred : LandDeferred(ticket, ok)
        \/ FinishSave(ok)
        \/ \E copied \in BOOLEAN : LoadCatalog(copied, ok)
        \/ Answered(ok)
        \/ \E r \in Requests : Begin(r, ok)
        \/ SaveFailed(ok)
        \/ \E saved \in BOOLEAN : Deny(ok, saved)
        \/ Initialized(ok)
    \/ \E b \in BOOLEAN : Ask(b) \/ Reconcile(b)
    \/ StartSave \/ Scan \/ RemoveFolder \/ Withhold \/ Admit \/ Save
    \/ Crash \/ Damage \/ Start

Spec == Init /\ [][Next]_vars

-----------------------------------------------------------------------------
TypeOK ==
    /\ intent \in Intent /\ intent_file \in Intent
    /\ slot \in {"down", "pending", "ready", "failed"} /\ force \in BOOLEAN
    /\ sequence \in Nat /\ write_seq \in 0..sequence /\ deferred \subseteq 0..sequence
    /\ known \in [kind : Kinds, rec : Flags]
    /\ list \in [rec : Flags, authoritative : BOOLEAN, absorbed : BOOLEAN]
    /\ row \in Flags /\ before \in Flags /\ saving \in Flags \cup {"idle"}
    /\ pc \in {"idle", "save", "deny"}
    /\ ui.at \in {"idle", "asked", "ok", "failed", "botched", "undo"}
    /\ auto \in {"none", "withhold", "admit"}

\* A file the user unshared stays off the network: through restarts, a lost or damaged
\* catalog, a widened folder list and a failed attempt to share it again, until the
\* user shares it (deny and effective_shared).
UnshareIsKept ==
    (choice.what = "unshared" /\ ui.at = "idle") => ~effective_shared(TRUE)

\* A file the user shared stays offered, whatever an unshare queued earlier, a
\* restart or a lost catalog says, once the catalog was read when it was shared
\* (the ticket of set_explicit_batch_unless_newer; the order of SetFilesShared).
ShareIsKept ==
    (choice.what = "shared" /\ choice.loaded /\ ui.at = "idle" /\ slot = "ready" /\ ~force)
        => effective_shared(FALSE)

\* No crash leaves a file that was being shared denied for good while the catalog,
\* and so the Library, says shared (allows first, known.met second, denials last).
NotStuck ==
    (last = "shared" /\ slot = "ready" /\ pc = "idle")
        => ~(intent.denied /\ known.kind = "whole" /\ known.rec = "shared")

\* The same for every share the user was told succeeded: "persist before acknowledging
\* so share/unshare cannot appear successful and then revert on the next application
\* start".
AcknowledgedShareIsKept ==
    (choice.what = "shared" /\ ui.at = "idle" /\ slot = "ready" /\ ~force)
        => effective_shared(FALSE)
=============================================================================
