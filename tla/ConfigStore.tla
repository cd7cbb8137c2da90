----------------------------- MODULE ConfigStore -----------------------------
(***************************************************************************)
(* The configuration files behind /api/plus (config_ui.rs): smartdns.conf, *)
(* the managed pages of conf.d that it includes, and the file of a domain  *)
(* or IP set.  A save goes through its files one after the other; for each *)
(* it reads the current text, copies it to "<file>.backup", writes         *)
(* "<file>.tmp" and renames that over the file.  No lock is taken and the  *)
(* name of the temporary file is fixed, and the handlers run on a          *)
(* multi-threaded runtime: saves overlap (the page saves by itself 200 ms  *)
(* after each edit).  A file is opened by its name once and written        *)
(* through the descriptor, wherever the file was renamed to meanwhile.     *)
(*                                                                         *)
(* Texts are model values; what they say is the business of ConfigPages.   *)
(***************************************************************************)
EXTENDS Naturals, Sequences, FiniteSets, Functions

CONSTANTS Savers,       \* the requests that may run at the same time
          Pages,        \* the managed pages, in the order they are written
          AssetPages,   \* those that save_managed_assets writes, in this order
          Main, SetFile,             \* smartdns.conf, the file of a set
          Texts,        \* what a valid request makes of a page
          Items,        \* the entries of a set
          Absent, Torn, \* no file; an empty, cut off or mixed up file
          Plain, Managed, TornManaged,  \* smartdns.conf without and with the
                        \* managed block; the block after what was torn
          None,
          MaxSaves, MaxErrors   \* bounds: requests, failures and crashes

ASSUME StoreAssumption ==
    /\ Pages \in Seq(STRING) /\ IsInjective(Pages)
    /\ AssetPages \in Seq(Range(Pages)) /\ IsInjective(AssetPages)
    /\ Main \notin Range(Pages) /\ SetFile \notin Range(Pages) /\ Main # SetFile
    /\ MaxSaves \in Nat /\ MaxErrors \in Nat
    /\ {Torn, TornManaged} \cap ({Absent, Plain, Managed} \cup Texts) = {}
    /\ Torn \notin Seq(Items) /\ TornManaged \notin Seq(Items)
    /\ Absent \notin Seq(Items)

VARIABLES
    cur, bak, tmp,  \* the text of each file, of its .backup and of its .tmp
    job,            \* what each request is doing
    denied,         \* the file system refuses to rename over a file
    saves, errors,  \* requests begun, failures and crashes so far
    raced           \* history: files that two requests were writing at once,
                    \* and those that two requests were saving at once
storeVars == <<cur, bak, tmp, job, denied, saves, errors, raced>>

Files == Range(Pages) \cup {Main, SetFile}

Whole(text) == text \notin {Torn, TornManaged}

-----------------------------------------------------------------------------
(* Requests *)

Ops == {"save", "assets", "apply", "restore", "set"}

\* The files that a request goes through, in order.
Plan(op) == CASE op = "save"   -> Append(Pages, Main)
              [] op = "assets" -> Append(AssetPages, Main)
              [] op = "set"    -> <<SetFile>>
              [] OTHER         -> <<Main>>

\* at: the place in the plan.  buf: the text to write.  fd: where the file
\* that the request has open is now.  alone: no other request ran meanwhile.
Idle(reply) == [op |-> "idle", text |-> None, at |-> 1, step |-> "next",
                buf |-> None, fd |-> "none", alone |-> TRUE, reply |-> reply]

Busy(s) == job[s].op # "idle"
At(s) == Plan(job[s].op)[job[s].at]

\* s has read the file f and not yet finished it; it has opened it for writing.
Saving(s, f) == Busy(s) /\ At(s) = f /\ job[s].step # "next"
Writing(s, f) == Saving(s, f) /\ job[s].step \in {"write", "rename", "direct"}

StoreInit ==
    /\ cur \in [Files -> {Absent, Plain, <<>>}]
    /\ \A p \in Range(Pages) : cur[p] = Absent
    /\ cur[Main] = Plain /\ cur[SetFile] = <<>>
    /\ bak = [f \in Files |-> Absent]
    /\ tmp = [f \in Files |-> Absent]
    /\ job = [s \in Savers |-> Idle("none")]
    /\ denied \in BOOLEAN
    /\ saves = 0 /\ errors = 0
    /\ raced = [write |-> {}, save |-> {}]

\* A request arrives.  A request whose configuration is not valid changes
\* nothing.  For a set, text is the edit: the items to remove and to add.
Start(s, op, text) ==
    /\ ~Busy(s) /\ saves < MaxSaves
    /\ op \in {"save", "assets"} => text \in Texts
    /\ op \in {"apply", "restore"} => text = None
    /\ op = "set" => text \in [remove : SUBSET Items, add : Items]
    /\ saves' = saves + 1
    /\ LET alone == \A o \in Savers : ~Busy(o) IN
       job' = [o \in Savers |->
                 IF o = s THEN [Idle("none") EXCEPT !.op = op, !.text = text,
                                  !.alone = alone]
                 ELSE [job[o] EXCEPT !.alone = FALSE]]
    /\ UNCHANGED <<cur, bak, tmp, denied, errors, raced>>

\* The job of s once it is done with its file.
Advanced(s) ==
    IF job[s].at = Len(Plan(job[s].op)) THEN [Idle("ok") EXCEPT !.alone = job[s].alone]
    ELSE [job[s] EXCEPT !.at = @ + 1, !.step = "next", !.buf = None, !.fd = "none"]

-----------------------------------------------------------------------------
(* The text to write *)

\* ensure_managed_block, seen from outside: whether the block is there.
EnsureManagedBlock(text) ==
    CASE text \in {Absent, Plain} -> Managed
      [] text = Torn -> TornManaged
      [] OTHER -> text

\* The items of a set file: a torn file has lost some.
ReadItems(text) == IF text \in {Absent, Torn} THEN <<>> ELSE text

\* The positions I in ascending order, and the items that stand there.
Ascending(I) == CHOOSE f \in [1..Cardinality(I) -> I] :
                   \A j, k \in 1..Cardinality(I) : j < k => f[j] < f[k]
Picked(items, I) == [k \in 1..Cardinality(I) |-> items[Ascending(I)[k]]]

\* items.retain
Retained(items, remove) == Picked(items, {i \in DOMAIN items : items[i] \notin remove})

\* dedupe_rule_set_items keeps the first of each.
Dedupe(items) ==
    Picked(items, {i \in DOMAIN items : \A k \in 1..(i - 1) : items[k] # items[i]})

\* Mutant: the added item is not looked up among the others.
EditedTwice(items, edit) == Append(Retained(items, edit.remove), edit.add)

Edited(items, edit) == Dedupe(Append(Retained(items, edit.remove), edit.add))

\* The text that s makes of the file f, from what f holds now.
NewText(s, f) ==
    CASE f = SetFile -> Edited(ReadItems(cur[f]), job[s].text)
      [] f = Main /\ job[s].op = "restore" -> Plain
      [] f = Main /\ job[s].op # "restore" -> EnsureManagedBlock(cur[f])
      [] OTHER -> job[s].text

\* A set and a restored smartdns.conf are written even when nothing changes.
Unchanged(s, f) ==
    /\ job[s].op \notin {"set", "restore"}
    /\ NewText(s, f) = cur[f]

\* Mutant: sets are not copied.
BacksUpPages(f) == f \in Range(Pages) /\ cur[f] # Absent

\* smartdns.conf is never copied to a backup.
BacksUp(f) == f # Main /\ cur[f] # Absent

ReadFile(s) ==
    /\ Busy(s) /\ job[s].step = "next"
    /\ job' = [job EXCEPT ![s] =
                 IF Unchanged(s, At(s)) THEN Advanced(s)
                 ELSE [@ EXCEPT !.buf = NewText(s, At(s)),
                                !.step = IF BacksUp(At(s)) THEN "backup" ELSE "open"]]
    /\ UNCHANGED <<cur, bak, tmp, denied, saves, errors>>
    /\ raced' = IF \E o \in Savers \ {s} : Saving(o, At(s))
                THEN [raced EXCEPT !.save = @ \cup {At(s)}] ELSE raced

-----------------------------------------------------------------------------
(* backup_file: fs::copy empties the copy, then fills it *)

BackupOpen(s) ==
    /\ Busy(s) /\ job[s].step = "backup"
    /\ bak' = [bak EXCEPT ![At(s)] = Torn]
    /\ job' = [job EXCEPT ![s].step = "copy"]
    /\ UNCHANGED <<cur, tmp, denied, saves, errors, raced>>

BackupCopy(s) ==
    /\ Busy(s) /\ job[s].step = "copy"
    /\ bak' = [bak EXCEPT ![At(s)] = cur[At(s)]]
    /\ job' = [job EXCEPT ![s].step = "open"]
    /\ UNCHANGED <<cur, tmp, denied, saves, errors, raced>>

-----------------------------------------------------------------------------
(* write_text_atomic *)

\* Mutant: the file is renamed before it is written.
TmpOpenUnwritten(s) ==
    /\ Busy(s) /\ job[s].step = "open"
    /\ tmp' = [tmp EXCEPT ![At(s)] = Torn]
    /\ job' = [job EXCEPT ![s].step = "rename"]
    /\ UNCHANGED <<cur, bak, denied, saves, errors, raced>>

TmpOpen(s) ==
    /\ Busy(s) /\ job[s].step = "open"
    /\ tmp' = [tmp EXCEPT ![At(s)] = Torn]
    /\ job' = [job EXCEPT ![s] = [@ EXCEPT !.step = "write", !.fd = "tmp"]]
    /\ raced' = IF \E o \in Savers \ {s} : Writing(o, At(s))
                THEN [raced EXCEPT !.write = @ \cup {At(s)}] ELSE raced
    /\ UNCHANGED <<cur, bak, denied, saves, errors>>

\* What a file holds after new was written from its start over old: an end
\* of a longer old text stays.
Overwritten(old, new) == IF old \in {Torn, new} THEN {new} ELSE {new, Torn}

TmpWrite(s) ==
    /\ Busy(s) /\ job[s].step = "write"
    /\ LET f == At(s) IN
       /\ tmp' \in IF job[s].fd = "tmp"
                   THEN {[tmp EXCEPT ![f] = t] : t \in Overwritten(tmp[f], job[s].buf)}
                   ELSE {tmp}
       /\ cur' \in IF job[s].fd = "cur"
                   THEN {[cur EXCEPT ![f] = t] : t \in Overwritten(cur[f], job[s].buf)}
                   ELSE {cur}
    /\ job' = [job EXCEPT ![s] = [@ EXCEPT !.step = "rename", !.fd = "none"]]
    /\ UNCHANGED <<bak, denied, saves, errors, raced>>

\* The jobs after the temporary file of f took the place of f: those that
\* have one of the two open keep it.
Moved(s, f) ==
    [o \in Savers |->
       IF o # s /\ Writing(o, f)
       THEN [job[o] EXCEPT !.fd = CASE @ = "tmp" -> "cur" [] @ = "cur" -> "gone" [] OTHER -> @]
       ELSE job[o]]

Rename(s) ==
    /\ Busy(s) /\ job[s].step = "rename"
    /\ LET f == At(s) IN
       /\ tmp[f] # Absent /\ ~(denied /\ cur[f] # Absent)
       /\ cur' = [cur EXCEPT ![f] = tmp[f]]
       /\ tmp' = [tmp EXCEPT ![f] = Absent]
       /\ job' = [Moved(s, f) EXCEPT ![s] = Advanced(s)]
    /\ UNCHANGED <<bak, denied, saves, errors, raced>>

\* The rename fails, for one because another request has renamed the
\* temporary file away.
RenameFails(s) ==
    /\ Busy(s) /\ job[s].step = "rename"
    /\ \/ tmp[At(s)] = Absent /\ UNCHANGED errors
       \/ tmp[At(s)] # Absent /\ errors < MaxErrors /\ errors' = errors + 1
    /\ job' = [job EXCEPT ![s].step = "drop"]
    /\ UNCHANGED <<cur, bak, tmp, denied, saves, raced>>

\* PermissionDenied: the file itself is emptied and written.
DirectOpen(s) ==
    /\ Busy(s) /\ job[s].step = "rename"
    /\ LET f == At(s) IN
       /\ tmp[f] # Absent /\ denied /\ cur[f] # Absent
       /\ cur' = [cur EXCEPT ![f] = Torn]
       /\ job' = [job EXCEPT ![s] = [@ EXCEPT !.step = "direct", !.fd = "cur"]]
    /\ UNCHANGED <<bak, tmp, denied, saves, errors, raced>>

DirectWrite(s) ==
    /\ Busy(s) /\ job[s].step = "direct"
    /\ LET f == At(s) IN
       cur' \in {[cur EXCEPT ![f] = t] : t \in Overwritten(cur[f], job[s].buf)}
    /\ job' = [job EXCEPT ![s] = [@ EXCEPT !.step = "clean", !.fd = "none"]]
    /\ UNCHANGED <<bak, tmp, denied, saves, errors, raced>>

\* remove_file of the temporary file, whoever has created it: after a failed
\* rename the save fails, and with it the rest of its files.
RemoveTmp(s) ==
    /\ Busy(s) /\ job[s].step \in {"drop", "clean"}
    /\ LET f == At(s) IN
       /\ tmp' = [tmp EXCEPT ![f] = Absent]
       /\ job' = [o \in Savers |->
                    IF o = s
                    THEN IF job[s].step = "clean" THEN Advanced(s)
                         ELSE [Idle("error") EXCEPT !.alone = job[s].alone]
                    ELSE IF Writing(o, f) /\ job[o].fd = "tmp"
                    THEN [job[o] EXCEPT !.fd = "gone"] ELSE job[o]]
    /\ UNCHANGED <<cur, bak, denied, saves, errors, raced>>

\* Mutant: the save goes on with its next file.
FailIgnored(s) ==
    /\ Busy(s) /\ errors < MaxErrors
    /\ errors' = errors + 1
    /\ job' = [job EXCEPT ![s] = Advanced(s)]
    /\ UNCHANGED <<cur, bak, tmp, denied, saves, raced>>

\* An input or output error ends the request with the files as they are:
\* a full disk leaves behind what was written of the temporary file.
Fail(s) ==
    /\ Busy(s) /\ errors < MaxErrors
    /\ job[s].step \notin {"rename", "drop", "clean"}
    /\ errors' = errors + 1
    /\ job' = [job EXCEPT ![s] = [Idle("error") EXCEPT !.alone = job[s].alone]]
    /\ UNCHANGED <<cur, bak, tmp, denied, saves, raced>>

\* The process is killed, or restarts because a request asked it to.
Restart ==
    /\ errors < MaxErrors
    /\ \E s \in Savers : Busy(s)
    /\ errors' = errors + 1
    /\ job' = [s \in Savers |-> Idle("none")]
    /\ UNCHANGED <<cur, bak, tmp, denied, saves, raced>>

StoreNext ==
    \/ \E s \in Savers :
        \/ \E op \in Ops, text \in Texts \cup {None} \cup [remove : SUBSET Items, add : Items] :
             Start(s, op, text)
        \/ ReadFile(s) \/ BackupOpen(s) \/ BackupCopy(s) \/ TmpOpen(s) \/ TmpWrite(s)
        \/ Rename(s) \/ RenameFails(s) \/ DirectOpen(s) \/ DirectWrite(s)
        \/ RemoveTmp(s) \/ Fail(s)
    \/ Restart

StoreSpec == StoreInit /\ [][StoreNext]_storeVars

-----------------------------------------------------------------------------
(* Properties *)

\* What a file, its copy and its temporary file may hold.
Contents(f) == CASE f = Main -> {Absent, Torn, Plain, Managed, TornManaged}
                 [] f = SetFile -> {Absent, Torn} \cup Seq(Items)
                 [] OTHER -> {Absent, Torn} \cup Texts

Steps == {"next", "backup", "copy", "open", "write", "rename", "direct", "drop", "clean"}

\* What a request may ask for.
TextsOf(op) == CASE op = "set" -> [remove : SUBSET Items, add : Items]
                 [] op \in {"save", "assets"} -> Texts
                 [] OTHER -> {None}

AnyText == {Absent, Torn, Plain, Managed, TornManaged, None} \cup Texts \cup Seq(Items)

Job == [op : Ops \cup {"idle"}, text : UNION {TextsOf(op) : op \in Ops}, at : Nat,
        step : Steps, buf : AnyText, fd : {"none", "tmp", "cur", "gone"},
        alone : BOOLEAN, reply : {"none", "ok", "error"}]

\* What the request j may leave in the file f.
MayLeave(j, f, text) ==
    CASE f = SetFile -> text \in Seq(Items) /\ j.text.add \in Range(text)
      [] f = Main -> text \in IF j.op = "restore" THEN {Plain} ELSE {Managed, TornManaged}
      [] OTHER -> text = j.text

\* A request is at one of its files, with a text for it in hand.
JobOK(j) ==
    /\ j \in Job
    /\ j.op # "idle" =>
         /\ j.text \in TextsOf(j.op)
         /\ j.at \in 1..Len(Plan(j.op))
         /\ j.step # "next" => MayLeave(j, Plan(j.op)[j.at], j.buf)

\* Every file holds a text it may hold, and a request is at one of its files.
StoreTypeOK ==
    /\ {cur, bak, tmp} \subseteq [Files -> AnyText]
    /\ \A f \in Files : {cur[f], bak[f], tmp[f]} \subseteq Contents(f)
    /\ job \in [Savers -> Job] /\ \A s \in Savers : JobOK(job[s])
    /\ denied \in BOOLEAN
    /\ raced \in [write : SUBSET Files, save : SUBSET Files]

\* write_text_atomic: where files can be renamed, whatever fails or is killed
\* and at whatever step, each file is a complete text at every moment, unless
\* two requests were between opening and renaming its temporary file at the
\* same time.
WholeUnlessRaced ==
    \A f \in Files : Whole(cur[f]) \/ f \in raced.write \/ denied

\* backup_file before write_text_atomic: a file that loses its text, because
\* it is overwritten in place, has just this text as its backup, unless two
\* requests were saving it at the same time.  smartdns.conf has no backup.
OverwriteBackedUp ==
    [][\A f \in Files \ {Main} :
         Whole(cur[f]) /\ ~Whole(cur'[f]) /\ f \notin raced.save => bak'[f] = cur[f]]_storeVars

\* The save that the answer says was made was made: a request that no other
\* overlapped and that is answered without an error has left its text in all
\* of its pages, and smartdns.conf includes them.
AnsweredInPlace ==
    [][\A s \in Savers :
         Busy(s) /\ job'[s].op = "idle" /\ job'[s].reply = "ok" /\ job'[s].alone =>
         \A i \in 1..Len(Plan(job[s].op)) :
            LET f == Plan(job[s].op)[i] IN MayLeave(job[s], f, cur'[f])]_storeVars

\* save_rule_set_file: a save replaces the entries of a set by what its edit
\* makes of them, each once and none lost, unless two were saving the set.
SetEditExact ==
    [][\A s \in Savers :
         LET old == IF Whole(cur[SetFile]) THEN cur[SetFile] ELSE bak[SetFile]
             new == cur'[SetFile]
         IN Writing(s, SetFile) /\ new # cur[SetFile] /\ Whole(new) /\ Whole(old)
              /\ SetFile \notin raced.save
            => /\ Range(new) = (Range(ReadItems(old)) \ job[s].text.remove) \cup {job[s].text.add}
               /\ IsInjective(new)]_storeVars
=============================================================================
