------------------------------ MODULE Operate ------------------------------
(***************************************************************************)
(* The config file and the processes around it: omny add and omny rm       *)
(* (internal/edit), which edit it through a temporary file and signal the  *)
(* gateway that the pidfile names, and the gateway (internal/omny/run.go), *)
(* which loads it at the start and again on SIGHUP.                        *)
(*                                                                         *)
(* Files are inodes: an editor that has opened the temporary file writes   *)
(* to wherever that inode is by then, be it in place or unlinked.  rev     *)
(* counts the changes of the file, so that what a process has read can be  *)
(* compared with what an editor has been told.                             *)
(***************************************************************************)
EXTENDS Config

CONSTANTS
  Editor,        \* runs of omny add and omny rm
  Gateway,       \* runs of the gateway, by their pids
  NoPid,         \* no pidfile; a gateway that is not up
  Absent,        \* no temporary file
  Command,       \* what the editors are asked to do
  HandWritten,   \* the contents the operator writes by hand
  MaxHand,       \* bound: edits by hand
  MaxHups        \* bound: signals the operator sends

ASSUME OperateAssumption ==
  /\ NoPid \notin Gateway
  /\ Refused \notin HandWritten /\ Absent \notin HandWritten
  /\ MaxHand \in Nat /\ MaxHups \in Nat

VARIABLES
  file, temp,    \* the config file, and the one beside it
  pidfile,       \* whose pid is in the pidfile
  ed, src,       \* each editor, and the bytes it is to write
  phase,         \* how far each gateway is
  conf,          \* the config each gateway runs
  hup,           \* whether a SIGHUP waits in its channel
  loading,       \* what its reload has read and not yet applied, as a set
  rev, looked,   \* the changes of the file; the last that each gateway has read
  alone,         \* no two of the editors that are at work have met
  hands, hups    \* the operator's edits and signals

files    == <<file, temp>>
editor   == <<ed, src>>
gateway  == <<phase, conf, hup, loading, looked>>
operator == <<hands, hups>>
vars     == <<files, pidfile, editor, gateway, rev, alone, operator>>

-----------------------------------------------------------------------------
(* Helpers.                                                                *)

Busy(e) == ed[e].pc \notin {"idle", "done"}

\* A gateway that exists, and one that has its handler for SIGHUP installed.
Up(g) == phase[g] \notin {"off", "over"}
Hooked(g) == phase[g] \in {"serving", "draining"}

To(e, pc) == ed' = [ed EXCEPT ![e].pc = pc] /\ UNCHANGED src

\* The command ends, telling the pid it has signalled.
Ended(x, pid) == [x EXCEPT !.pc = "done", !.fd = "none", !.told = pid]
Ends(e, pid) ==
  /\ ed' = [ed EXCEPT ![e] = Ended(@, pid)]
  /\ src' = [src EXCEPT ![e] = Empty]

NewEditor == [pc |-> "idle", fd |-> "none", rev |-> 0, told |-> NoPid]

Init ==
  /\ file \in {c \in HandWritten : Loads(c)} /\ temp = Absent /\ pidfile = NoPid
  /\ ed = [e \in Editor |-> NewEditor] /\ src = [e \in Editor |-> Empty]
  /\ phase = [g \in Gateway |-> "off"] /\ conf = [g \in Gateway |-> Empty]
  /\ hup = [g \in Gateway |-> FALSE] /\ loading = [g \in Gateway |-> {}]
  /\ rev = 0 /\ looked = [g \in Gateway |-> 0]
  /\ alone = TRUE /\ hands = 0 /\ hups = 0

-----------------------------------------------------------------------------
(* The operator.                                                           *)

HandEdit ==
  /\ hands < MaxHand /\ hands' = hands + 1
  /\ file' \in HandWritten \ {file} /\ rev' = rev + 1
  /\ UNCHANGED <<temp, pidfile, editor, gateway, alone, hups>>

\* A process ends, and its memory with it.
Over(g) ==
  /\ phase' = [phase EXCEPT ![g] = "over"] /\ conf' = [conf EXCEPT ![g] = Empty]
  /\ hup' = [hup EXCEPT ![g] = FALSE] /\ loading' = [loading EXCEPT ![g] = {}]
  /\ looked' = [looked EXCEPT ![g] = 0]

DeliverUnbuffered(g) ==
  IF Hooked(g)
    THEN /\ hup' = [hup EXCEPT ![g] = @ \/ loading[g] = {}]
         /\ UNCHANGED <<phase, conf, loading, looked>>
    ELSE Over(g)

DeliverAnyway(g) ==
  hup' = [hup EXCEPT ![g] = TRUE] /\ UNCHANGED <<phase, conf, loading, looked>>

\* What a SIGHUP does: it waits in the channel, or is dropped when one does; it ends
\* a process that has no handler installed.
Deliver(g) ==
  IF Hooked(g) THEN hup' = [hup EXCEPT ![g] = TRUE] /\ UNCHANGED <<phase, conf, loading, looked>>
  ELSE Over(g)

Hup(g) ==
  /\ Up(g) /\ hups < MaxHups /\ hups' = hups + 1
  /\ Deliver(g)
  /\ UNCHANGED <<files, pidfile, editor, rev, alone, hands>>

-----------------------------------------------------------------------------
(* omny add and omny rm.                                                   *)

\* amend reads the file and applies the tweaks.
Begin(e) ==
  /\ ed[e].pc = "idle"
  /\ \E m \in Command : LET s == Edited(file, m) IN
       IF s = Refused THEN Ends(e, NoPid)
       ELSE ed' = [ed EXCEPT ![e].pc = "edited"] /\ src' = [src EXCEPT ![e] = s]
  /\ alone' = (\A x \in Editor : ~Busy(x))
  /\ UNCHANGED <<files, pidfile, gateway, rev, operator>>

\* Replace opens the temporary file, which truncates it, ...
Open(e) ==
  /\ ed[e].pc = "edited"
  /\ temp' = Empty
  /\ ed' = [ed EXCEPT ![e].pc = "opened", ![e].fd = "temp"]
  /\ UNCHANGED <<src, file, pidfile, gateway, rev, alone, operator>>

\* What a write leaves: the bytes, or a mixture with those of another writer.
Written(there, bytes) == IF there = Empty THEN {bytes} ELSE {bytes, Garbled}

\* ... writes it, ...
Write(e) ==
  /\ ed[e].pc = "opened"
  /\ ed' = [ed EXCEPT ![e].pc = "written", ![e].fd = "none"]
  /\ CASE ed[e].fd = "temp" -> temp' \in Written(temp, src[e]) /\ UNCHANGED <<file, rev>>
       [] ed[e].fd = "file" -> file' \in Written(file, src[e]) /\ rev' = rev + 1 /\ UNCHANGED temp
       [] OTHER -> UNCHANGED <<files, rev>>
  /\ UNCHANGED <<src, pidfile, gateway, alone, operator>>

\* Unlinking the temporary file leaves its inode to who has it open.
Unlinked(e) ==
  [x \in Editor |-> IF x = e THEN Ended(ed[e], NoPid)
                    ELSE [ed[x] EXCEPT !.fd = IF @ = "temp" THEN "gone" ELSE @]]

VetsParsed(c) == c \notin Unread \cup {Absent}

\* What Load says of the temporary file.
Vets(c) == c # Absent /\ Loads(c)

\* ... and loads it: it is removed when Load refuses it, and left when Load panics.
Vet(e) ==
  /\ ed[e].pc = "written"
  /\ \/ Vets(temp) /\ To(e, "vetted") /\ UNCHANGED temp
     \/ temp # Absent /\ Panics(temp) /\ Ends(e, NoPid) /\ UNCHANGED temp
     \/ /\ ~Vets(temp) /\ (temp # Absent => ~Panics(temp))
        /\ ed' = Unlinked(e) /\ src' = [src EXCEPT ![e] = Empty] /\ temp' = Absent
  /\ UNCHANGED <<file, pidfile, gateway, rev, alone, operator>>

\* Who has the temporary file open now writes to the file, whose old inode is gone.
Moved(fd) == IF fd = "temp" THEN "file" ELSE IF fd = "file" THEN "gone" ELSE fd

\* ... and renames it over the file.
Rename(e) ==
  /\ ed[e].pc = "vetted" /\ temp # Absent
  /\ file' = temp /\ temp' = Absent /\ rev' = rev + 1
  /\ ed' = [x \in Editor |-> IF x = e THEN [ed[x] EXCEPT !.pc = "renamed", !.rev = rev']
                             ELSE [ed[x] EXCEPT !.fd = Moved(@)]]
  /\ src' = [src EXCEPT ![e] = Empty]
  /\ UNCHANGED <<pidfile, gateway, alone, operator>>

RenameFails(e) ==
  /\ ed[e].pc = "vetted" /\ temp = Absent
  /\ Ends(e, NoPid)
  /\ UNCHANGED <<files, pidfile, gateway, rev, alone, operator>>

\* nudge reads the pidfile; told is whose pid it has found, ...
ReadPid(e) ==
  /\ ed[e].pc = "renamed"
  /\ IF pidfile = NoPid THEN Ends(e, NoPid)
     ELSE ed' = [ed EXCEPT ![e].pc = "found", ![e].told = pidfile] /\ UNCHANGED src
  /\ UNCHANGED <<files, pidfile, gateway, rev, alone, operator>>

\* ... and signals that process, if there is one.
Signal(e) ==
  /\ ed[e].pc = "found"
  /\ IF Up(ed[e].told)
       THEN Deliver(ed[e].told) /\ Ends(e, ed[e].told)
       ELSE Ends(e, NoPid) /\ UNCHANGED gateway
  /\ UNCHANGED <<files, pidfile, rev, alone, operator>>

\* An editor is killed, or its write fails: the files stay as they are.
Killed(e) ==
  /\ Busy(e)
  /\ Ends(e, NoPid)
  /\ UNCHANGED <<files, pidfile, gateway, rev, alone, operator>>

-----------------------------------------------------------------------------
(* The gateway.                                                            *)

Becomes(g, ph) == phase' = [phase EXCEPT ![g] = ph]

\* Run loads the config, or returns.
Load(g) ==
  /\ phase[g] = "off"
  /\ IF Loads(file)
       THEN /\ Becomes(g, "loaded")
            /\ conf' = [conf EXCEPT ![g] = file] /\ looked' = [looked EXCEPT ![g] = rev]
            /\ UNCHANGED <<hup, loading>>
       ELSE Over(g)
  /\ UNCHANGED <<files, pidfile, editor, rev, alone, operator>>

WritePid(g) ==
  /\ phase[g] = "loaded" /\ Becomes(g, "listed")
  /\ pidfile' = g
  /\ UNCHANGED <<files, editor, conf, hup, loading, looked, rev, alone, operator>>

\* The handler is installed and the listener starts, unless a signal to stop has come
\* or the address is taken.
Listen(g) ==
  /\ phase[g] = "listed"
  /\ \/ Becomes(g, "draining")
     \/ Becomes(g, "serving") /\ \A h \in Gateway : phase[h] # "serving"
  /\ UNCHANGED <<files, pidfile, editor, conf, hup, loading, looked, rev, alone, operator>>

\* The listener is shut down, or fails.
Stop(g) ==
  /\ phase[g] = "serving" /\ Becomes(g, "draining")
  /\ UNCHANGED <<files, pidfile, editor, conf, hup, loading, looked, rev, alone, operator>>

\* Run returns: first the handler goes, then whatever pidfile is there.
Unhook(g) ==
  /\ phase[g] = "draining" /\ Becomes(g, "leaving")
  /\ hup' = [hup EXCEPT ![g] = FALSE] /\ loading' = [loading EXCEPT ![g] = {}]
  /\ UNCHANGED <<files, pidfile, editor, conf, looked, rev, alone, operator>>

Return(g) ==
  /\ phase[g] = "leaving" /\ Over(g)
  /\ pidfile' = NoPid
  /\ UNCHANGED <<files, editor, rev, alone, operator>>

\* Killed: the pidfile stays.
Die(g) ==
  /\ Up(g) /\ Over(g)
  /\ UNCHANGED <<files, pidfile, editor, rev, alone, operator>>

TakeUp(g) ==
  /\ hup' = [hup EXCEPT ![g] = FALSE]
  /\ loading' = [loading EXCEPT ![g] = {file}] /\ looked' = [looked EXCEPT ![g] = rev]
  /\ UNCHANGED <<phase, conf>>

\* The goroutine that reloads takes the signal and reads the file.  When Load panics
\* the process ends: nothing recovers in that goroutine.
Read(g) ==
  /\ Hooked(g) /\ hup[g] /\ loading[g] = {}
  /\ IF Panics(file) THEN Over(g) ELSE TakeUp(g)
  /\ UNCHANGED <<files, pidfile, editor, rev, alone, operator>>

ApplyGood(g) ==
  /\ \E c \in loading[g] : Loads(c) /\ conf' = [conf EXCEPT ![g] = c]
  /\ loading' = [loading EXCEPT ![g] = {}]
  /\ UNCHANGED <<files, pidfile, editor, phase, hup, looked, rev, alone, operator>>

\* It adopts what it has read, or rejects it, and waits for the next signal.
Apply(g) ==
  /\ \E c \in loading[g] : conf' = [conf EXCEPT ![g] = IF Loads(c) THEN c ELSE @]
  /\ loading' = [loading EXCEPT ![g] = {}]
  /\ UNCHANGED <<files, pidfile, editor, phase, hup, looked, rev, alone, operator>>

-----------------------------------------------------------------------------
(* The system.                                                             *)

Edit(e) ==
  \/ Begin(e) \/ Open(e) \/ Write(e) \/ Vet(e) \/ Rename(e) \/ RenameFails(e)
  \/ ReadPid(e) \/ Signal(e) \/ Killed(e)

Start(g) == Load(g) \/ WritePid(g) \/ Listen(g)
End(g) == Stop(g) \/ Unhook(g) \/ Return(g) \/ Die(g)
Reload(g) == Read(g) \/ Apply(g)

Next ==
  \/ HandEdit
  \/ \E e \in Editor : Edit(e)
  \/ \E g \in Gateway : Hup(g) \/ Start(g) \/ End(g) \/ Reload(g)

Spec == Init /\ [][Next]_vars

\* The goroutine that reloads runs.
FairSpec == Spec /\ \A g \in Gateway : WF_vars(Reload(g))

-----------------------------------------------------------------------------
(* Properties.                                                             *)

\* The state has its types.
EditorState ==
  [pc : {"idle", "edited", "opened", "written", "vetted", "renamed", "found", "done"},
   fd : {"none", "temp", "file", "gone"}, rev : Nat, told : Gateway \cup {NoPid}]

TypeOK ==
  /\ pidfile \in Gateway \cup {NoPid}
  /\ ed \in [Editor -> EditorState]
  /\ \A e \in Editor :
       /\ ed[e].fd # "none" <=> ed[e].pc = "opened"
       /\ ed[e].pc = "found" => ed[e].told # NoPid
       /\ ed[e].rev <= rev
  /\ phase \in [Gateway -> {"off", "loaded", "listed", "serving", "draining", "leaving", "over"}]
  /\ hup \in [Gateway -> BOOLEAN] /\ \A g \in Gateway : hup[g] \/ loading[g] # {} => Hooked(g)
  /\ looked \in [Gateway -> Nat] /\ (\A g \in Gateway : looked[g] <= rev) /\ rev \in Nat
  /\ alone \in BOOLEAN /\ hands \in 0..MaxHand /\ hups \in 0..MaxHups

Installs(e) == ed[e].pc = "vetted" /\ ed'[e].pc = "renamed"

\* An edit beside which no other runs installs what it has made of the file, and
\* only if the gateway would take it, whatever commands that were killed have left
\* beside the file ("Validate the temporary file with the server loader before
\* replacing the real file", splice.go:37).  Two at once share the temporary file.
LoneEditsAreVetted ==
  [][\A e \in Editor : alone /\ Installs(e) => file' = src[e] /\ Loads(file')]_vars

Servable(c) ==
  /\ \A p, q \in DOMAIN c.provs :
       \A i \in DOMAIN Slots(c, p), j \in DOMAIN Slots(c, q) :
         Slots(c, p)[i] = Slots(c, q)[j] => p = q /\ i = j
  /\ \A n \in DOMAIN ProvOf \cup DOMAIN c.aliases :
       Targets(c, n) # {} /\ \A p \in Targets(c, n) : p \in DOMAIN c.provs /\ c.provs[p] # Blank
  /\ \A i \in DOMAIN c.fallback : c.fallback[i] \in DOMAIN c.aliases
  /\ \E p \in DOMAIN c.provs : DOMAIN Slots(c, p) # {}

\* What a gateway runs has what its pool and its dispatch rely on, whoever has
\* edited the file in the meantime and however: one slot for a secret, a provider
\* behind every target of every name, and some key to use (config.go:106-200).
RunningIsServable == \A g \in Gateway : Up(g) => Servable(conf[g])

Acked(e) == ed[e].pc = "done" /\ ed[e].told # NoPid

\* Once an editor has said "reloaded", a gateway that has no reload under way or
\* waiting has read the file as that editor left it, or later: a signal that comes
\* during a reload is not lost, and one that is dropped was not needed
\* (run.go:47-61, cli.go:181-202).
AckedIsRead ==
  \A e \in Editor : LET g == ed[e].told IN
    Acked(e) /\ Hooked(g) /\ ~hup[g] /\ loading[g] = {} => looked[g] >= ed[e].rev

\* ... and it comes to that, through reloads that are rejected, unless it stops.
EditsTakeEffect ==
  \A e \in Editor : \A g \in Gateway :
    (Acked(e) /\ ed[e].told = g)
      ~> (~Hooked(g) \/ (loading[g] = {} /\ looked[g] >= ed[e].rev))

-----------------------------------------------------------------------------
(* What the comments say, and the code does not do.                        *)

\* A config that the gateway cannot use leaves it running the one it has ("Swap only
\* after validation so a bad reload leaves the active config unchanged",
\* serve.go:87).  A provider with nothing in its block is a nil pointer, which check
\* reads through.
BadReloadKeepsRunning == [][\A g \in Gateway : Reload(g) => Up(g)']_vars

=============================================================================
