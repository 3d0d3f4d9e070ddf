--------------------------- MODULE OperateProofs ---------------------------
(***************************************************************************)
(* Proofs about the config file and the processes around it, for any       *)
(* number of editors and gateways, any commands and any contents.          *)
(***************************************************************************)
EXTENDS Operate, TLAPS

Phases == {"off", "loaded", "listed", "serving", "draining", "leaving", "over"}

\* The parts of TypeOK that the steps below take one at a time.
EditorsTyped ==
  /\ ed \in [Editor -> EditorState]
  /\ \A e \in Editor :
       /\ ed[e].fd # "none" <=> ed[e].pc = "opened"
       /\ ed[e].pc = "found" => ed[e].told # NoPid
       /\ ed[e].rev <= rev

GatewaysTyped ==
  /\ phase \in [Gateway -> Phases] /\ hup \in [Gateway -> BOOLEAN]
  /\ DOMAIN conf = Gateway /\ DOMAIN loading = Gateway
  /\ \A g \in Gateway : hup[g] \/ loading[g] # {} => Hooked(g)
  /\ looked \in [Gateway -> Nat] /\ (\A g \in Gateway : looked[g] <= rev)

OthersTyped ==
  /\ pidfile \in Gateway \cup {NoPid} /\ rev \in Nat
  /\ alone \in BOOLEAN /\ hands \in 0..MaxHand /\ hups \in 0..MaxHups

Typed == EditorsTyped /\ GatewaysTyped /\ OthersTyped

\* What every gateway runs has been loaded.
Loaded == \A g \in Gateway : Up(g) => Loads(conf[g])

\* The gateway that an acknowledged editor has signalled had its handler installed,
\* and while it has, the signal waits or the file has been read since.
AckedWaits ==
  \A e \in Editor : Acked(e) =>
    /\ phase[ed[e].told] \notin {"off", "loaded", "listed"}
    /\ Hooked(ed[e].told) => hup[ed[e].told] \/ looked[ed[e].told] >= ed[e].rev

\* While no two editors have met, the one at work has the temporary file to itself:
\* it has truncated it, has written what it is to write, and has had that vetted.
OwnTemp(e) ==
  /\ \A x \in Editor : Busy(x) => x = e
  /\ ed[e].pc = "opened" => ed[e].fd = "temp" /\ temp = Empty
  /\ ed[e].pc \in {"written", "vetted"} => temp = src[e]
  /\ ed[e].pc = "vetted" => Loads(src[e])

LoneWork == alone => \A e \in Editor : Busy(e) => OwnTemp(e)

Inv == Typed /\ Loaded /\ AckedWaits /\ LoneWork

-----------------------------------------------------------------------------
(* What check lets through is what the rest of the gateway relies on.      *)

LEMMA OneSlotEach ==
  ASSUME NEW c, NoKeyTwice(c), NEW p \in DOMAIN c.provs, NEW q \in DOMAIN c.provs,
         NEW i \in DOMAIN Slots(c, p), NEW j \in DOMAIN Slots(c, q),
         Slots(c, p)[i] = Slots(c, q)[j]
  PROVE  p = q /\ i = j
<1>1. CASE c.provs[p].keyless /\ c.provs[q].keyless
  BY <1>1 DEF Slots
<1>2. CASE c.provs[p].keyless /\ ~c.provs[q].keyless
  BY <1>2 DEF Slots
<1>3. CASE ~c.provs[p].keyless /\ c.provs[q].keyless
  BY <1>3 DEF Slots
<1>4. CASE ~c.provs[p].keyless /\ ~c.provs[q].keyless
  BY <1>4 DEF Slots, NoKeyTwice
<1> QED
  BY <1>1, <1>2, <1>3, <1>4

LEMMA LoadedIsServable ==
  ASSUME NEW c, Loads(c)
  PROVE  Servable(c)
<1>1. Check(c) /\ \A p \in DOMAIN c.provs : c.provs[p] # Blank
  BY DEF Loads, Panics
<1>2. \A p, q \in DOMAIN c.provs :
        \A i \in DOMAIN Slots(c, p), j \in DOMAIN Slots(c, q) :
          Slots(c, p)[i] = Slots(c, q)[j] => p = q /\ i = j
  BY <1>1, OneSlotEach DEF Check
<1>3. \A n \in DOMAIN ProvOf \cup DOMAIN c.aliases :
        Targets(c, n) # {} /\ \A p \in Targets(c, n) : p \in DOMAIN c.provs /\ c.provs[p] # Blank
  <2> TAKE n \in DOMAIN ProvOf \cup DOMAIN c.aliases
  <2>1. CASE n \in DOMAIN c.aliases
    BY <1>1, <2>1 DEF Check, Targets
  <2>2. CASE n \notin DOMAIN c.aliases
    BY <1>1, <2>2 DEF Check, Targets
  <2> QED
    BY <2>1, <2>2
<1>4. \A i \in DOMAIN c.fallback : c.fallback[i] \in DOMAIN c.aliases
  BY <1>1 DEF Check, Range
<1>5. \E p \in DOMAIN c.provs : DOMAIN Slots(c, p) # {}
  <2>1. PICK p \in DOMAIN c.provs : Armed(c.provs[p])
    BY <1>1 DEF Check
  <2>2. DOMAIN Slots(c, p) # {}
    BY <2>1 DEF Armed, Slots
  <2> QED
    BY <2>2
<1> QED
  BY <1>2, <1>3, <1>4, <1>5 DEF Servable

-----------------------------------------------------------------------------
(* The signal and the end of a process.                                    *)

LEMMA OverTyped ==
  ASSUME GatewaysTyped, NEW g \in Gateway, Over(g), rev \in Nat, rev' = rev
  PROVE  GatewaysTyped'
BY DEF GatewaysTyped, Over, Phases, Hooked

LEMMA DeliverTyped ==
  ASSUME GatewaysTyped, NEW g \in Gateway, Deliver(g), rev \in Nat, rev' = rev
  PROVE  GatewaysTyped'
<1>1. CASE Hooked(g)
  BY <1>1 DEF GatewaysTyped, Deliver, Phases, Hooked
<1>2. CASE ~Hooked(g)
  BY <1>2, OverTyped DEF Deliver
<1> QED
  BY <1>1, <1>2

LEMMA EndsTyped ==
  ASSUME EditorsTyped, NEW e \in Editor, NEW pid \in Gateway \cup {NoPid}, Ends(e, pid),
         rev \in Nat, rev' = rev
  PROVE  EditorsTyped'
BY DEF EditorsTyped, EditorState, Ends, Ended

\* What a rename does to an editor that has the temporary file open, and to the
\* editor whose rename it is.
LEMMA MovedFields ==
  ASSUME NEW r \in EditorState
  PROVE  LET s == [r EXCEPT !.fd = Moved(@)]
         IN  /\ s \in EditorState /\ s.pc = r.pc /\ s.rev = r.rev /\ s.told = r.told
             /\ s.fd # "none" <=> r.fd # "none"
BY DEF EditorState, Moved

LEMMA RenamedFields ==
  ASSUME NEW r \in EditorState, NEW n \in Nat
  PROVE  LET s == [r EXCEPT !.pc = "renamed", !.rev = n]
         IN  s \in EditorState /\ s.pc = "renamed" /\ s.rev = n /\ s.told = r.told /\ s.fd = r.fd
BY DEF EditorState

-----------------------------------------------------------------------------
(* The types.                                                              *)

LEMMA InitTyped == Init => Typed
<1> SUFFICES ASSUME Init PROVE Typed
  OBVIOUS
<1>1. EditorsTyped
  BY DEF Init, NewEditor, EditorsTyped, EditorState
<1>2. GatewaysTyped
  BY DEF Init, GatewaysTyped, Phases, Hooked
<1>3. OthersTyped
  BY OperateAssumption DEF Init, OthersTyped
<1> QED
  BY <1>1, <1>2, <1>3 DEF Typed

LEMMA EditTyped ==
  ASSUME Typed, NEW e \in Editor, Edit(e)
  PROVE  Typed'
<1> USE DEF Typed
<1>1. CASE Begin(e)
  <2>1. EditorsTyped'
    BY <1>1, EndsTyped DEF Begin, EditorsTyped, EditorState, OthersTyped
  <2> QED
    BY <1>1, <2>1 DEF Begin, GatewaysTyped, OthersTyped, gateway, operator, Hooked
<1>2. CASE Open(e)
  BY <1>2 DEF Open, EditorsTyped, EditorState, GatewaysTyped, OthersTyped, gateway, operator, Hooked
<1>3. CASE Write(e)
  <2>1. rev' \in Nat /\ rev <= rev'
    BY <1>3 DEF Write, files, OthersTyped
  <2>2. EditorsTyped'
    BY <1>3, <2>1 DEF Write, EditorsTyped, EditorState, OthersTyped
  <2>3. GatewaysTyped'
    BY <1>3, <2>1 DEF Write, GatewaysTyped, OthersTyped, gateway, Hooked
  <2> QED
    BY <1>3, <2>1, <2>2, <2>3 DEF Write, OthersTyped, operator
<1>4. CASE Vet(e)
  <2>1. EditorsTyped'
    <3>1. CASE To(e, "vetted")
      BY <1>4, <3>1 DEF Vet, To, EditorsTyped, EditorState
    <3>2. CASE Ends(e, NoPid)
      BY <1>4, <3>2, EndsTyped DEF Vet, OthersTyped
    <3>3. CASE ed' = Unlinked(e)
      BY <1>4, <3>3 DEF Vet, Unlinked, Ended, EditorsTyped, EditorState
    <3> QED
      BY <1>4, <3>1, <3>2, <3>3 DEF Vet
  <2> QED
    BY <1>4, <2>1 DEF Vet, GatewaysTyped, OthersTyped, gateway, operator, Hooked
<1>5. CASE Rename(e)
  <2>1. EditorsTyped'
    <3>1. rev' = rev + 1 /\ rev \in Nat
      BY <1>5 DEF Rename, OthersTyped
    <3>2. ed'[e] = [ed[e] EXCEPT !.pc = "renamed", !.rev = rev']
      BY <1>5 DEF Rename
    <3>3. \A x \in Editor \ {e} : ed'[x] = [ed[x] EXCEPT !.fd = Moved(@)]
      BY <1>5 DEF Rename
    <3>4. ed'[e] \in EditorState /\ ed'[e].fd = "none" /\ ed'[e].pc = "renamed" /\ ed'[e].rev <= rev'
      <4> DEFINE s == [ed[e] EXCEPT !.pc = "renamed", !.rev = rev']
      <4>1. ed[e].pc = "vetted"
        BY <1>5 DEF Rename
      <4>2. ed[e] \in EditorState /\ ed[e].fd = "none" /\ rev' \in Nat
        BY <3>1, <4>1 DEF EditorsTyped
      <4>3. s \in EditorState /\ s.pc = "renamed" /\ s.rev = rev' /\ s.fd = ed[e].fd
        BY <4>2, RenamedFields
      <4>4. rev' <= rev'
        BY <4>2
      <4>5. ed'[e] = s
        BY <3>2
      <4> HIDE DEF s
      <4> QED
        BY <4>2, <4>3, <4>4, <4>5
    <3>5. ASSUME NEW x \in Editor \ {e}
          PROVE  /\ ed'[x] \in EditorState
                 /\ ed'[x].fd # "none" <=> ed'[x].pc = "opened"
                 /\ ed'[x].pc = "found" => ed'[x].told # NoPid
                 /\ ed'[x].rev <= rev'
      <4>1. ed[x] \in EditorState /\ ed[x].rev \in Nat
        BY DEF EditorsTyped, EditorState
      <4> DEFINE s == [ed[x] EXCEPT !.fd = Moved(@)]
      <4>2. ed'[x] = s
        BY <3>3
      <4>3. /\ s \in EditorState /\ s.pc = ed[x].pc /\ s.rev = ed[x].rev
            /\ s.told = ed[x].told /\ (s.fd # "none" <=> ed[x].fd # "none")
        BY <4>1, MovedFields
      <4>4. /\ ed[x].fd # "none" <=> ed[x].pc = "opened"
            /\ ed[x].pc = "found" => ed[x].told # NoPid
            /\ ed[x].rev <= rev /\ rev \in Int /\ ed[x].rev \in Int
        BY <3>1, <4>1 DEF EditorsTyped
      <4>5. ed[x].rev <= rev'
        BY <3>1, <4>4
      <4> HIDE DEF s
      <4> QED
        BY <4>2, <4>3, <4>4, <4>5
    <3>6. ed' = [x \in Editor |-> ed'[x]]
      BY <1>5 DEF Rename
    <3> QED
      BY <3>4, <3>5, <3>6 DEF EditorsTyped
  <2>2. rev' = rev + 1 /\ UNCHANGED <<gateway, operator, pidfile, alone>>
    BY <1>5 DEF Rename
  <2>3. GatewaysTyped'
    BY <2>2 DEF GatewaysTyped, OthersTyped, gateway, Hooked
  <2>4. OthersTyped'
    BY <2>2 DEF OthersTyped, operator
  <2> QED
    BY <2>1, <2>3, <2>4
<1>6. CASE RenameFails(e)
  BY <1>6, EndsTyped DEF RenameFails, GatewaysTyped, OthersTyped, gateway, operator, Hooked
<1>7. CASE ReadPid(e)
  <2>1. EditorsTyped'
    BY <1>7, EndsTyped DEF ReadPid, EditorsTyped, EditorState, OthersTyped
  <2> QED
    BY <1>7, <2>1 DEF ReadPid, GatewaysTyped, OthersTyped, gateway, operator, Hooked
<1>8. CASE Signal(e)
  <2>1. ed[e].told \in Gateway \cup {NoPid} /\ ed[e].told # NoPid
    BY <1>8 DEF Signal, EditorsTyped, EditorState
  <2>2. EditorsTyped'
    BY <1>8, <2>1, EndsTyped DEF Signal, OthersTyped
  <2>3. GatewaysTyped'
    BY <1>8, <2>1, DeliverTyped DEF Signal, GatewaysTyped, gateway, OthersTyped, Hooked
  <2> QED
    BY <1>8, <2>2, <2>3 DEF Signal, OthersTyped, operator
<1>9. CASE Killed(e)
  BY <1>9, EndsTyped DEF Killed, GatewaysTyped, OthersTyped, gateway, operator, Hooked
<1> QED
  BY <1>1, <1>2, <1>3, <1>4, <1>5, <1>6, <1>7, <1>8, <1>9 DEF Edit

LEMMA GatewayTyped ==
  ASSUME Typed, NEW g \in Gateway, Hup(g) \/ Start(g) \/ End(g) \/ Reload(g)
  PROVE  Typed'
<1> USE DEF Typed
<1>1. EditorsTyped'
  BY DEF Hup, Start, End, Reload, Load, WritePid, Listen, Stop, Unhook, Return, Die, Read, Apply,
         editor, EditorsTyped
<1>2. OthersTyped'
  BY OperateAssumption
  DEF Hup, Start, End, Reload, Load, WritePid, Listen, Stop, Unhook, Return, Die, Read, Apply,
      operator, OthersTyped
<1>3. rev \in Nat /\ rev' = rev
  BY DEF Hup, Start, End, Reload, Load, WritePid, Listen, Stop, Unhook, Return, Die, Read, Apply,
         OthersTyped
<1>4. GatewaysTyped'
  <2>1. CASE Hup(g)
    BY <1>3, <2>1, DeliverTyped DEF Hup
  <2>2. CASE Load(g)
    <3>1. CASE Loads(file)
      BY <1>3, <2>2, <3>1 DEF Load, Becomes, GatewaysTyped, Phases, Hooked
    <3>2. CASE ~Loads(file)
      BY <1>3, <2>2, <3>2, OverTyped DEF Load
    <3> QED
      BY <3>1, <3>2
  <2>3. CASE WritePid(g) \/ Listen(g) \/ Stop(g)
    BY <1>3, <2>3 DEF WritePid, Listen, Stop, Becomes, GatewaysTyped, Phases, Hooked
  <2>4. CASE Unhook(g)
    BY <1>3, <2>4 DEF Unhook, Becomes, GatewaysTyped, Phases, Hooked
  <2>5. CASE Return(g) \/ Die(g)
    BY <1>3, <2>5, OverTyped DEF Return, Die
  <2>6. CASE Read(g)
    <3>1. CASE Panics(file)
      BY <1>3, <2>6, <3>1, OverTyped DEF Read
    <3>2. CASE ~Panics(file)
      <4>1. Hooked(g) /\ TakeUp(g)
        BY <2>6, <3>2 DEF Read
      <4> QED
        BY <1>3, <4>1 DEF TakeUp, GatewaysTyped, Phases, Hooked
    <3> QED
      BY <3>1, <3>2
  <2>7. CASE Apply(g)
    <3>1. DOMAIN conf' = DOMAIN conf
      BY <2>7 DEF Apply
    <3> QED
      BY <1>3, <2>7, <3>1 DEF Apply, GatewaysTyped, Phases, Hooked
  <2> QED
    BY <2>1, <2>2, <2>3, <2>4, <2>5, <2>6, <2>7 DEF Start, End, Reload
<1> QED
  BY <1>1, <1>2, <1>4

LEMMA StepTyped == Typed /\ [Next]_vars => Typed'
<1> SUFFICES ASSUME Typed, [Next]_vars PROVE Typed'
  OBVIOUS
<1>1. CASE HandEdit
  <2>1. rev' = rev + 1 /\ hands' \in 0..MaxHand
    BY <1>1, OperateAssumption DEF HandEdit, Typed, OthersTyped
  <2>2. EditorsTyped'
    BY <1>1, <2>1 DEF HandEdit, Typed, EditorsTyped, EditorState, OthersTyped, editor
  <2>3. GatewaysTyped'
    BY <1>1, <2>1 DEF HandEdit, Typed, GatewaysTyped, OthersTyped, gateway, Hooked
  <2> QED
    BY <1>1, <2>1, <2>2, <2>3 DEF HandEdit, Typed, OthersTyped
<1>2. CASE UNCHANGED vars
  BY <1>2 DEF vars, files, editor, gateway, operator, Typed, EditorsTyped, EditorState,
              GatewaysTyped, OthersTyped, Hooked
<1> QED
  BY <1>1, <1>2, EditTyped, GatewayTyped DEF Next

-----------------------------------------------------------------------------
(* What a gateway runs.                                                    *)

LEMMA OverLoaded ==
  ASSUME Typed, Loaded, NEW g \in Gateway, Over(g)
  PROVE  Loaded'
BY DEF Typed, GatewaysTyped, Loaded, Over, Up

LEMMA DeliverLoaded ==
  ASSUME Typed, Loaded, NEW g \in Gateway, Deliver(g)
  PROVE  Loaded'
<1>1. CASE Hooked(g)
  BY <1>1 DEF Deliver, Loaded, Up
<1>2. CASE ~Hooked(g)
  BY <1>2, OverLoaded DEF Deliver
<1> QED
  BY <1>1, <1>2

\* Only the signal of an editor reaches a gateway.
LEMMA EditLeavesGateways ==
  ASSUME NEW e \in Editor, Edit(e)
  PROVE  UNCHANGED gateway \/ (ed[e].pc = "found" /\ Up(ed[e].told) /\ Deliver(ed[e].told))
BY DEF Edit, Begin, Open, Write, Vet, Rename, RenameFails, ReadPid, Signal, Killed

LEMMA StepLoaded == Typed /\ Loaded /\ [Next]_vars => Loaded'
<1> SUFFICES ASSUME Typed, Loaded, [Next]_vars PROVE Loaded'
  OBVIOUS
<1>1. CASE UNCHANGED gateway
  BY <1>1 DEF gateway, Loaded, Up
<1>2. ASSUME NEW e \in Editor, Edit(e) PROVE Loaded'
  <2>1. CASE ed[e].pc = "found" /\ Up(ed[e].told) /\ Deliver(ed[e].told)
    <3>1. ed[e].told \in Gateway
      BY <2>1 DEF Typed, EditorsTyped, EditorState
    <3> QED
      BY <2>1, <3>1, DeliverLoaded
  <2> QED
    BY <1>1, <1>2, <2>1, EditLeavesGateways
<1>3. ASSUME NEW g \in Gateway, Hup(g) PROVE Loaded'
  BY <1>3, DeliverLoaded DEF Hup
<1>4. ASSUME NEW g \in Gateway, Start(g) PROVE Loaded'
  <2>1. CASE Load(g) /\ Loads(file)
    BY <2>1 DEF Load, Becomes, Loaded, Up, Typed, GatewaysTyped
  <2>2. CASE Load(g) /\ ~Loads(file)
    BY <2>2, OverLoaded DEF Load
  <2>3. CASE WritePid(g) \/ Listen(g)
    BY <2>3 DEF WritePid, Listen, Becomes, Loaded, Up, Typed, GatewaysTyped
  <2> QED
    BY <1>4, <2>1, <2>2, <2>3 DEF Start
<1>5. ASSUME NEW g \in Gateway, End(g) PROVE Loaded'
  <2>1. CASE Stop(g) \/ Unhook(g)
    BY <2>1 DEF Stop, Unhook, Becomes, Loaded, Up, Typed, GatewaysTyped
  <2>2. CASE Return(g) \/ Die(g)
    BY <2>2, OverLoaded DEF Return, Die
  <2> QED
    BY <1>5, <2>1, <2>2 DEF End
<1>6. ASSUME NEW g \in Gateway, Reload(g) PROVE Loaded'
  <2>1. CASE Read(g)
    BY <2>1, OverLoaded DEF Read, TakeUp, Loaded, Up
  <2>2. CASE Apply(g)
    BY <2>2 DEF Apply, Loaded, Up, Typed, GatewaysTyped
  <2> QED
    BY <1>6, <2>1, <2>2 DEF Reload
<1>7. CASE HandEdit
  BY <1>1, <1>7 DEF HandEdit
<1>8. CASE UNCHANGED vars
  BY <1>1, <1>8 DEF vars
<1> QED
  BY <1>2, <1>3, <1>4, <1>5, <1>6, <1>7, <1>8 DEF Next

-----------------------------------------------------------------------------
(* What an editor has been told.                                           *)

\* No step of a gateway, nor a signal, takes an acknowledged edit back.
Keeps(g) ==
  \A n \in Nat :
    /\ phase[g] \notin {"off", "loaded", "listed"}
    /\ Hooked(g) => hup[g] \/ looked[g] >= n
    /\ n <= rev
    => /\ phase'[g] \notin {"off", "loaded", "listed"}
       /\ phase'[g] \in {"serving", "draining"} => hup'[g] \/ looked'[g] >= n

LEMMA OverKeeps ==
  ASSUME Typed, NEW g \in Gateway, Over(g)
  PROVE  /\ \A h \in Gateway : Keeps(h)
         /\ phase'[g] = "over"
BY DEF Typed, GatewaysTyped, Over, Keeps, Hooked, Phases

LEMMA DeliverKeeps ==
  ASSUME Typed, NEW g \in Gateway, Deliver(g)
  PROVE  /\ \A h \in Gateway : Keeps(h)
         /\ phase'[g] \notin {"off", "loaded", "listed"}
         /\ Hooked(g)' => hup'[g]
<1>1. CASE Hooked(g)
  BY <1>1 DEF Typed, GatewaysTyped, Deliver, Keeps, Hooked, Phases
<1>2. CASE ~Hooked(g)
  BY <1>2, OverKeeps DEF Deliver, Hooked
<1> QED
  BY <1>1, <1>2

LEMMA GatewayKeeps ==
  ASSUME Typed, NEW g \in Gateway, Hup(g) \/ Start(g) \/ End(g) \/ Reload(g)
  PROVE  \A h \in Gateway : Keeps(h)
<1>1. CASE Hup(g)
  BY <1>1, DeliverKeeps DEF Hup
<1>2. CASE Load(g)
  <2>1. CASE Loads(file)
    BY <1>2, <2>1 DEF Load, Becomes, Keeps, Hooked, Typed, GatewaysTyped, Phases
  <2>2. CASE ~Loads(file)
    BY <1>2, <2>2, OverKeeps DEF Load
  <2> QED
    BY <2>1, <2>2
<1>3. CASE WritePid(g) \/ Listen(g) \/ Stop(g)
  BY <1>3 DEF WritePid, Listen, Stop, Becomes, Keeps, Hooked, Typed, GatewaysTyped, Phases
<1>4. CASE Unhook(g)
  BY <1>4 DEF Unhook, Becomes, Keeps, Hooked, Typed, GatewaysTyped, Phases
<1>5. CASE Return(g) \/ Die(g)
  BY <1>5, OverKeeps DEF Return, Die
<1>6. CASE Read(g)
  <2>1. CASE Panics(file)
    BY <1>6, <2>1, OverKeeps DEF Read
  <2>2. CASE ~Panics(file)
    <3>1. TakeUp(g)
      BY <1>6, <2>2 DEF Read
    <3> QED
      BY <3>1 DEF TakeUp, Keeps, Hooked, Typed, GatewaysTyped, OthersTyped, Phases
  <2> QED
    BY <2>1, <2>2
<1>7. CASE Apply(g)
  BY <1>7 DEF Apply, Keeps, Hooked
<1> QED
  BY <1>1, <1>2, <1>3, <1>4, <1>5, <1>6, <1>7 DEF Start, End, Reload

\* An editor that is done after a step was done before it, and as it is, or has been
\* told of no gateway, or has just signalled it.
LEMMA EditorDone ==
  ASSUME Typed, NEW e \in Editor, Edit(e), NEW x \in Editor, Acked(x)'
  PROVE  \/ Acked(x) /\ ed'[x].told = ed[x].told /\ ed'[x].rev = ed[x].rev
         \/ Signal(e) /\ x = e /\ Up(ed[e].told) /\ ed'[x].told = ed[e].told
<1> USE DEF Typed, EditorsTyped, EditorState, Acked
<1>1. CASE Begin(e)
  BY <1>1 DEF Begin, Ends, Ended
<1>2. CASE Open(e)
  BY <1>2 DEF Open
<1>3. CASE Write(e)
  <2>1. ed' = [ed EXCEPT ![e].pc = "written", ![e].fd = "none"]
    BY <1>3 DEF Write
  <2> QED
    BY <2>1
<1>4. CASE Vet(e)
  <2>1. CASE To(e, "vetted")
    BY <2>1 DEF To
  <2>2. CASE Ends(e, NoPid)
    BY <2>2 DEF Ends, Ended
  <2>3. CASE ed' = Unlinked(e)
    BY <2>3 DEF Unlinked, Ended
  <2> QED
    BY <1>4, <2>1, <2>2, <2>3 DEF Vet
<1>5. CASE Rename(e)
  BY <1>5 DEF Rename
<1>6. CASE RenameFails(e)
  BY <1>6 DEF RenameFails, Ends, Ended
<1>7. CASE ReadPid(e)
  BY <1>7 DEF ReadPid, Ends, Ended
<1>8. CASE Signal(e)
  BY <1>8 DEF Signal, Ends, Ended
<1>9. CASE Killed(e)
  BY <1>9 DEF Killed, Ends, Ended
<1> QED
  BY <1>1, <1>2, <1>3, <1>4, <1>5, <1>6, <1>7, <1>8, <1>9 DEF Edit

LEMMA StepAcked == Typed /\ AckedWaits /\ [Next]_vars => AckedWaits'
<1> SUFFICES ASSUME Typed, AckedWaits, [Next]_vars PROVE AckedWaits'
  OBVIOUS
<1>1. \A x \in Editor : Acked(x) => ed[x].told \in Gateway /\ ed[x].rev \in Nat /\ ed[x].rev <= rev
  BY DEF Acked, Typed, EditorsTyped, EditorState
<1>2. ASSUME UNCHANGED <<ed, phase, hup, looked>> PROVE AckedWaits'
  BY <1>2 DEF AckedWaits, Acked, Hooked
<1>3. ASSUME NEW g \in Gateway, Hup(g) \/ Start(g) \/ End(g) \/ Reload(g)
      PROVE  AckedWaits'
  <2>1. UNCHANGED ed
    BY <1>3 DEF Hup, Start, End, Reload, Load, WritePid, Listen, Stop, Unhook, Return, Die, Read,
                Apply, editor
  <2>2. \A h \in Gateway : Keeps(h)
    BY <1>3, GatewayKeeps
  <2> QED
    BY <1>1, <2>1, <2>2 DEF AckedWaits, Acked, Keeps, Hooked
<1>4. ASSUME NEW e \in Editor, Edit(e) PROVE AckedWaits'
  <2> SUFFICES ASSUME NEW x \in Editor, Acked(x)'
               PROVE  /\ phase'[ed'[x].told] \notin {"off", "loaded", "listed"}
                      /\ Hooked(ed[x].told)' => hup'[ed'[x].told] \/ looked'[ed'[x].told] >= ed'[x].rev
    BY DEF AckedWaits
  <2>1. CASE Acked(x) /\ ed'[x].told = ed[x].told /\ ed'[x].rev = ed[x].rev
    <3>1. Keeps(ed[x].told)
      <4>1. CASE UNCHANGED gateway
        BY <4>1 DEF gateway, Keeps, Hooked
      <4>2. CASE ed[e].pc = "found" /\ Up(ed[e].told) /\ Deliver(ed[e].told)
        <5>1. ed[e].told \in Gateway
          BY <4>2 DEF Typed, EditorsTyped, EditorState
        <5> QED
          BY <1>1, <2>1, <4>2, <5>1, DeliverKeeps
      <4> QED
        BY <1>4, <4>1, <4>2, EditLeavesGateways
    <3> QED
      BY <1>1, <2>1, <3>1 DEF AckedWaits, Keeps, Hooked
  <2>2. CASE Signal(e) /\ x = e /\ Up(ed[e].told) /\ ed'[x].told = ed[e].told
    <3>1. ed[e].told \in Gateway /\ Deliver(ed[e].told)
      BY <2>2 DEF Signal, Typed, EditorsTyped, EditorState
    <3> QED
      BY <2>2, <3>1, DeliverKeeps DEF Hooked
  <2> QED
    BY <1>4, <2>1, <2>2, EditorDone
<1>5. CASE HandEdit
  BY <1>2, <1>5 DEF HandEdit, gateway, editor
<1>6. CASE UNCHANGED vars
  BY <1>2, <1>6 DEF vars, gateway, editor
<1> QED
  BY <1>3, <1>4, <1>5, <1>6 DEF Next

-----------------------------------------------------------------------------
(* What an editor installs when it is alone.                               *)

\* An editor at rest stays at rest while another works, and is not moved on by it.
LEMMA EditLeavesOthers ==
  ASSUME Typed, NEW e \in Editor, Edit(e), NEW x \in Editor, x # e
  PROVE  ed'[x].pc = ed[x].pc
<1>1. ed \in [Editor -> EditorState]
  BY DEF Typed, EditorsTyped
<1>2. CASE Begin(e)
  BY <1>1, <1>2 DEF Begin, Ends
<1>3. CASE Open(e) \/ Write(e) \/ RenameFails(e) \/ ReadPid(e) \/ Signal(e) \/ Killed(e)
  BY <1>1, <1>3 DEF Open, Write, RenameFails, ReadPid, Signal, Killed, Ends
<1>4. CASE Vet(e)
  <2>1. CASE ed' = Unlinked(e)
    BY <1>1, <2>1 DEF Unlinked, EditorState
  <2> QED
    BY <1>1, <1>4, <2>1 DEF Vet, To, Ends
<1>5. CASE Rename(e)
  BY <1>1, <1>5 DEF Rename, EditorState
<1> QED
  BY <1>2, <1>3, <1>4, <1>5 DEF Edit

\* How far an editor is after its step.
LEMMA EditMovesOn ==
  ASSUME Typed, NEW e \in Editor, Edit(e)
  PROVE  /\ Begin(e) => ed'[e].pc \in {"edited", "done"}
         /\ Open(e) => ed'[e].pc = "opened" /\ ed'[e].fd = "temp"
         /\ Write(e) => ed'[e].pc = "written"
         /\ Vet(e) => \/ ed'[e].pc = "done"
                      \/ ed'[e].pc = "vetted" /\ Vets(temp) /\ UNCHANGED <<temp, src>>
         /\ Rename(e) => ed'[e].pc = "renamed"
         /\ RenameFails(e) \/ Signal(e) \/ Killed(e) => ed'[e].pc = "done"
         /\ ReadPid(e) => ed'[e].pc \in {"done", "found"}
<1>1. ed \in [Editor -> EditorState]
  BY DEF Typed, EditorsTyped
<1>2. \A pid : Ends(e, pid) => ed'[e].pc = "done"
  BY <1>1 DEF Ends, Ended, EditorState
<1>3. Vet(e) => \/ ed'[e].pc = "done"
                \/ ed'[e].pc = "vetted" /\ Vets(temp) /\ UNCHANGED <<temp, src>>
  <2>1. ed' = Unlinked(e) => ed'[e].pc = "done"
    BY <1>1 DEF Unlinked, Ended, EditorState
  <2>2. To(e, "vetted") => ed'[e].pc = "vetted" /\ src' = src
    BY <1>1 DEF To, EditorState
  <2> QED
    BY <1>2, <2>1, <2>2 DEF Vet
<1>4. Rename(e) => ed'[e].pc = "renamed"
  BY <1>1 DEF Rename, EditorState
<1>5. Begin(e) => ed'[e].pc \in {"edited", "done"}
  BY <1>1, <1>2 DEF Begin, EditorState
<1>6. Open(e) => ed'[e].pc = "opened" /\ ed'[e].fd = "temp"
  BY <1>1 DEF Open, EditorState
<1>7. Write(e) => ed'[e].pc = "written"
  <2>1. Write(e) => ed' = [ed EXCEPT ![e].pc = "written", ![e].fd = "none"]
    BY DEF Write
  <2> QED
    BY <1>1, <2>1 DEF EditorState
<1>8. RenameFails(e) \/ Signal(e) \/ Killed(e) => ed'[e].pc = "done"
  BY <1>2 DEF RenameFails, Signal, Killed
<1>9. ReadPid(e) => ed'[e].pc \in {"done", "found"}
  BY <1>1, <1>2 DEF ReadPid, EditorState
<1> QED
  BY <1>3, <1>4, <1>5, <1>6, <1>7, <1>8, <1>9

LEMMA EditLone ==
  ASSUME Typed, LoneWork, NEW e \in Editor, Edit(e), alone', Busy(e)'
  PROVE  OwnTemp(e)'
<1>1. Begin(e) => \A x \in Editor : Busy(x) => x = e
  BY DEF Begin
<1>2. ~Begin(e) => alone /\ Busy(e)
  BY DEF Edit, Open, Write, Vet, Rename, RenameFails, ReadPid, Signal, Killed, Busy
<1>3. ~Begin(e) => OwnTemp(e)
  BY <1>2 DEF LoneWork
<1>4. \A x \in Editor : Busy(x)' => x = e
  BY <1>1, <1>3, EditLeavesOthers DEF Busy, OwnTemp
<1>5. CASE Write(e)
  <2>1. ed[e].pc = "opened"
    BY <1>5 DEF Write
  <2>2. ed[e].fd = "temp" /\ temp = Empty
    BY <1>3, <2>1 DEF OwnTemp, Begin
  <2>3. temp' = src[e] /\ src' = src
    BY <1>5, <2>2 DEF Write, Written
  <2> QED
    BY <1>4, <1>5, <2>3, EditMovesOn DEF OwnTemp
<1>6. CASE Vet(e)
  <2>1. ed[e].pc = "written"
    BY <1>6 DEF Vet
  <2>2. temp = src[e]
    BY <1>3, <2>1 DEF OwnTemp, Begin
  <2>3. ed'[e].pc = "vetted" /\ Vets(temp) /\ UNCHANGED <<temp, src>>
    BY <1>6, EditMovesOn DEF Busy
  <2> QED
    BY <1>4, <2>2, <2>3 DEF OwnTemp, Vets
<1>7. CASE Open(e)
  BY <1>4, <1>7, EditMovesOn DEF OwnTemp, Open
<1>8. CASE Begin(e) \/ Rename(e) \/ RenameFails(e) \/ ReadPid(e) \/ Signal(e) \/ Killed(e)
  BY <1>4, <1>8, EditMovesOn DEF OwnTemp
<1> QED
  BY <1>5, <1>6, <1>7, <1>8 DEF Edit

LEMMA StepLone == Typed /\ LoneWork /\ [Next]_vars => LoneWork'
<1> SUFFICES ASSUME Typed, LoneWork, [Next]_vars PROVE LoneWork'
  OBVIOUS
<1>1. ASSUME UNCHANGED <<ed, src, temp, alone>> PROVE LoneWork'
  BY <1>1 DEF LoneWork, OwnTemp, Busy
<1>2. ASSUME NEW e \in Editor, Edit(e) PROVE LoneWork'
  <2> SUFFICES ASSUME alone', NEW x \in Editor, Busy(x)' PROVE OwnTemp(x)'
    BY DEF LoneWork
  <2>1. CASE x = e
    BY <1>2, <2>1, EditLone
  <2>2. CASE x # e
    <3>1. Busy(x)
      BY <1>2, <2>2, EditLeavesOthers DEF Busy
    <3>2. FALSE
      <4>1. Begin(e)
        BY <1>2, <2>2, <3>1 DEF LoneWork, OwnTemp, Edit, Open, Write, Vet, Rename, RenameFails, ReadPid,
                                Signal, Killed, Busy
      <4> QED
        BY <3>1, <4>1 DEF Begin
    <3> QED
      BY <3>2
  <2> QED
    BY <2>1, <2>2
<1>3. ASSUME NEW g \in Gateway, Hup(g) \/ Start(g) \/ End(g) \/ Reload(g) PROVE LoneWork'
  BY <1>1, <1>3 DEF Hup, Start, End, Reload, Load, WritePid, Listen, Stop, Unhook, Return, Die, Read,
                    Apply, editor, files
<1>4. CASE HandEdit
  BY <1>1, <1>4 DEF HandEdit, editor
<1>5. CASE UNCHANGED vars
  BY <1>1, <1>5 DEF vars, editor, files
<1> QED
  BY <1>2, <1>3, <1>4, <1>5 DEF Next

\* An editor gets to "renamed" by a rename, and only by its own.
LEMMA InstallIsRename ==
  ASSUME Typed, [Next]_vars, NEW e \in Editor, Installs(e)
  PROVE  Rename(e)
<1> USE DEF Installs
<1>1. ASSUME UNCHANGED ed PROVE FALSE
  BY <1>1
<1>2. ASSUME NEW x \in Editor, Edit(x) PROVE Rename(e)
  <2>1. x = e
    BY <1>2, EditLeavesOthers
  <2> QED
    BY <1>2, <2>1, EditMovesOn DEF Edit
<1>3. ASSUME NEW g \in Gateway, Hup(g) \/ Start(g) \/ End(g) \/ Reload(g) PROVE FALSE
  BY <1>1, <1>3 DEF Hup, Start, End, Reload, Load, WritePid, Listen, Stop, Unhook, Return, Die, Read,
                    Apply, editor
<1>4. CASE HandEdit
  BY <1>1, <1>4 DEF HandEdit, editor
<1>5. CASE UNCHANGED vars
  BY <1>1, <1>5 DEF vars, editor
<1> QED
  BY <1>2, <1>3, <1>4, <1>5 DEF Next

-----------------------------------------------------------------------------
(* The theorems.                                                           *)

LEMMA InitInv == Init => Inv
<1> SUFFICES ASSUME Init PROVE Inv
  OBVIOUS
<1>1. Loaded
  BY DEF Init, Loaded, Up
<1>2. AckedWaits
  BY DEF Init, NewEditor, AckedWaits, Acked
<1>3. LoneWork
  BY DEF Init, NewEditor, LoneWork, Busy
<1> QED
  BY <1>1, <1>2, <1>3, InitTyped DEF Inv

LEMMA StepInv == Inv /\ [Next]_vars => Inv'
BY StepTyped, StepLoaded, StepAcked, StepLone DEF Inv

\* The invariant holds in every reachable state of files, editors and gateways.
THEOREM Invariant == Spec => []Inv
BY InitInv, StepInv, PTL DEF Spec

\* The state is well typed; in particular no signal waits and no reload is under way
\* in a gateway that has no handler (run.go:47-61).
THEOREM TypeCorrect == Spec => []TypeOK
<1>1. Inv => TypeOK
  BY DEF Inv, Typed, EditorsTyped, GatewaysTyped, OthersTyped, TypeOK, Phases
<1> QED
  BY <1>1, Invariant, PTL

\* Whatever the editors and the operator do to the file, and whatever is in it, every
\* gateway that is up runs a config that its pool and its dispatch can work with
\* (config.go:106-200, run.go:16-61).
THEOREM RunningServable == Spec => []RunningIsServable
<1>1. Inv => RunningIsServable
  BY LoadedIsServable DEF Inv, Loaded, RunningIsServable
<1> QED
  BY <1>1, Invariant, PTL

\* A gateway at rest has read the file as every editor that was told "reloaded" left
\* it, or later (run.go:47-61, cli.go:163-189).
THEOREM AckedRead == Spec => []AckedIsRead
<1>1. Inv => AckedIsRead
  BY DEF Inv, AckedWaits, AckedIsRead, Acked
<1> QED
  BY <1>1, Invariant, PTL

\* An editor that no other has met installs exactly what it has made of the file, and
\* only what Load accepts, whatever earlier commands have left in the temporary file
\* and whatever the operator does to the file meanwhile (splice.go:37).
THEOREM LoneVetted == Spec => LoneEditsAreVetted
<1>1. Inv /\ [Next]_vars =>
        [\A e \in Editor : alone /\ Installs(e) => file' = src[e] /\ Loads(file')]_vars
  <2> SUFFICES ASSUME Inv, [Next]_vars, NEW e \in Editor, alone, Installs(e)
               PROVE  file' = src[e] /\ Loads(file')
    OBVIOUS
  <2>1. Rename(e)
    BY InstallIsRename DEF Inv
  <2>2. temp = src[e] /\ Loads(src[e])
    BY <2>1 DEF Inv, LoneWork, OwnTemp, Rename, Busy
  <2> QED
    BY <2>1, <2>2 DEF Rename
<1> QED
  BY <1>1, Invariant, PTL DEF Spec, LoneEditsAreVetted

=============================================================================
