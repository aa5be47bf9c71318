--------------------------- MODULE RegistryProofs ---------------------------
(***************************************************************************)
(* The registry of Workers and the gateway's routes, for any number of     *)
(* Workers, names, ports, profiles, requests, polls and discoveries.       *)
(*                                                                         *)
(* The table of Workers, the definitions in memory and the registry agree, *)
(* and what is live exists, is qualified and permitted.  What handlers     *)
(* read before an await is in call: of it the invariant needs its type,    *)
(* and that the routes a rollback would bring back were qualified.  A row  *)
(* that is not in memory was ignored by a start of the service: that is    *)
(* why a port is given away twice.                                         *)
(*                                                                         *)
(* A request that chose a Worker found it listening on its own port, and   *)
(* is marked when that port changes hands.  A job that was found and not   *)
(* let go of is in the table, with a Worker that has a row: so the gateway *)
(* searches the candidates only for jobs that it let go of.                *)
(***************************************************************************)
EXTENDS Registry, SequenceTheorems, TLAPS

Shape ==
    /\ row \in [Workers -> {"none", "live", "archived"}]
    /\ name \in [Workers -> Names \cup {None}] /\ known \in [Workers -> Names \cup {None}]
    /\ port \in [Workers -> Ports \cup {0}]
    /\ registered \subseteq Workers
    /\ state \in [Workers -> {"down", "held", "starting", "ready"}]
    /\ policy \subseteq {"model", "capability"}
    /\ draft \in [Profiles -> Bindings] /\ live \in [Profiles -> Bindings]
    /\ revs \in [Profiles -> SUBSET Bindings]
    /\ qualified \subseteq Workers /\ ignored \subseteq Workers /\ unchecked \subseteq Workers

\* What a request in progress may remember.
CallOK(x) ==
    \/ x = Idle
    \/ \E n \in Names, old \in Workers \cup {None} : x = Verifying(n, old)
    \/ \E w \in Workers : x = Removing(w) \/ x = Probing(w)
    \/ \E w \in Workers, ok \in BOOLEAN : x = Recording(w, ok)
    \/ \E p \in Profiles, before \in [Profiles -> Bindings] :
          x = Asking(p, before) /\ \A q \in Tested \cap Profiles : before[q] \subseteq qualified

CallsOK == call = [c \in Calls |-> call[c]] /\ \A c \in Calls : CallOK(call[c])

Named == \A w \in LiveRows : name[w] \in Names

\* Rows are in memory, or were ignored; of those in memory the ports differ.
Remembered ==
    /\ LiveRows \subseteq Known \cup ignored
    /\ \A v, w \in LiveRows : port[v] = port[w] => v = w \/ {v, w} \cap ignored # {}

\* What is live is a row that is not archived, unless nobody checked.
Routed ==
    \A p \in Profiles : \A w \in live[p] :
        /\ w \in LiveRows \cup unchecked
        /\ p \in Tested => w \in qualified
        /\ Allowed \/ w \in ignored \cup unchecked

DefinitionsInv == Shape /\ CallsOK /\ Named /\ DefinitionsAgree /\ Remembered /\ Routed

\* The fields of what a request remembers.
LEMMA CallFields ==
  ASSUME NEW x, CallOK(x)
  PROVE  /\ x.op = "verifying" => x.name \in Names /\ x.replaces \in Workers \cup {None}
         /\ x.op \in {"removing", "probing", "recording"} => x.worker \in Workers
         /\ x.op = "recording" => x.ok \in BOOLEAN
         /\ x.op = "asking" => /\ x.profile \in Profiles /\ x.before \in [Profiles -> Bindings]
                              /\ \A q \in Tested \cap Profiles : x.before[q] \subseteq qualified
  BY DEF CallOK, Idle, Verifying, Removing, Probing, Recording, Asking

\* Bindings are sets of Workers.
LEMMA BindingsAreSets ==
  /\ [Profiles -> Bindings] \subseteq [Profiles -> SUBSET Workers]
  /\ \A ws \in Bindings : ws \subseteq Workers
  BY DefinitionsAssumption

LEMMA DefinitionsInitially == DefinitionsInit => DefinitionsInv
<1> SUFFICES ASSUME DefinitionsInit PROVE DefinitionsInv
  OBVIOUS
<1>1. Known = {} /\ LiveRows = {}
  BY DEF DefinitionsInit, Known, LiveRows
<1>2. Shape
  BY DefinitionsAssumption DEF DefinitionsInit, Shape
<1>3. CallsOK
  BY DEF DefinitionsInit, CallsOK, CallOK, Idle
<1>. QED
  BY <1>1, <1>2, <1>3 DEF DefinitionsInit, DefinitionsInv, Named, DefinitionsAgree, Remembered, Routed

---------------------------------------------------------------------------
(* The kinds of steps *)

\* Handlers that change neither rows nor memory.
Waits(c) ==
    \/ \E n \in Names, old \in Workers \cup {None} : Creates(c, n, old)
    \/ CreationFails(c) \/ ProbeEnds(c) \/ Records(c)
    \/ \E w \in Workers : ArchiveWaits(c, w) \/ Qualifies(c, w)
Supervised(w) == StartWaits(w) \/ StartGoesOn(w) \/ StartEnds(w) \/ Ends(w)
Routing(p) ==
    \/ \E ws \in Bindings : SavesDraft(p, ws) \/ Reactivates(p, ws)
    \/ Publishes(p) \/ Deactivates(p)
Permits(what) == Allows(what) \/ Disallows(what)
Setting(c) == (\E p \in Profiles, ws \in Bindings : PublishesSetup(c, p, ws)) \/ GatewayAnswers(c)

\* Every step is of one of these kinds.
LEMMA StepKinds ==
  ASSUME [DefinitionsNext]_definitionVars
  PROVE  \/ \E c \in Calls : Waits(c) \/ Setting(c) \/ Created(c) \/ ArchiveResumes(c)
         \/ \E w \in Workers : Supervised(w) \/ Archives(w) \/ \E n \in Names : Renames(w, n)
         \/ \E p \in Profiles : Routing(p)
         \/ \E what \in {"model", "capability"} : Permits(what)
         \/ \E trusted \in SUBSET Workers : RestartsService(trusted)
         \/ UNCHANGED definitionVars
  BY DEF DefinitionsNext, Waits, Supervised, Routing, Permits, Setting

\* What happens to the rows and the memory.
Quiet == UNCHANGED <<tables, memory, ignored>>
Saved(w, n) == SavesWorker(w, n) /\ UNCHANGED <<ignored, unchecked, policy, live, qualified>>
Removed(w) ==
    /\ Removes(w) /\ UNCHANGED <<name, port, ignored, policy, live, qualified>>
    /\ unchecked \subseteq unchecked'
    /\ w \in unchecked' \/ \A p \in Profiles : w \notin live[p]

LEMMA TableSteps ==
  ASSUME DefinitionsInv, [DefinitionsNext]_definitionVars
  PROVE  \/ Quiet
         \/ \E w \in Workers, n \in Names : Saved(w, n) \/ Renames(w, n)
         \/ \E w \in Workers : Removed(w)
         \/ \E trusted \in SUBSET Workers : RestartsService(trusted)
<1>1. ASSUME NEW c \in Calls, Waits(c) \/ Setting(c) PROVE Quiet
  BY <1>1 DEF Waits, Setting, Creates, CreationFails, ProbeEnds, Records, ArchiveWaits, Qualifies,
     PublishesSetup, GatewayAnswers, Quiet, ghosts
<1>2. ASSUME NEW c \in Calls, Created(c) PROVE \E w \in Workers, n \in Names : Saved(w, n)
  <2>1. call[c].name \in Names
    BY <1>2, CallFields DEF Created, DefinitionsInv, CallsOK
  <2>. QED
    BY <1>2, <2>1 DEF Created, Saved, ghosts
<1>3. ASSUME NEW c \in Calls, ArchiveResumes(c) PROVE Quiet \/ \E w \in Workers : Removed(w)
  <2>1. call[c].worker \in Workers
    BY <1>3, CallFields DEF ArchiveResumes, DefinitionsInv, CallsOK
  <2>. QED
    BY <1>3, <2>1 DEF ArchiveResumes, Removed, Quiet, tables, memory, routes
<1>4. ASSUME NEW w \in Workers, Supervised(w) PROVE Quiet
  BY <1>4 DEF Supervised, StartWaits, StartGoesOn, StartEnds, Ends, Quiet, ghosts
<1>5. ASSUME NEW w \in Workers, Archives(w) PROVE Removed(w)
  BY <1>5 DEF Archives, Archivable, Removed, routes, ghosts
<1>6. ASSUME NEW p \in Profiles, Routing(p) PROVE Quiet
  BY <1>6 DEF Routing, SavesDraft, Reactivates, Publishes, Deactivates, Quiet, ghosts
<1>7. ASSUME NEW what, Permits(what) PROVE Quiet
  BY <1>7 DEF Permits, Allows, Disallows, Quiet, ghosts
<1>8. UNCHANGED definitionVars => Quiet
  BY DEF definitionVars, Quiet, ghosts
<1>. QED
  BY <1>1, <1>2, <1>3, <1>4, <1>5, <1>6, <1>7, <1>8, StepKinds

---------------------------------------------------------------------------
(* Rows, memory and registry *)

LEMMA QuietKeeps ==
  ASSUME Named, DefinitionsAgree, Remembered, Quiet
  PROVE  Named' /\ DefinitionsAgree' /\ Remembered'
<1>1. Known' = Known /\ LiveRows' = LiveRows
  BY DEF Quiet, tables, memory, Known, LiveRows
<1>. QED
  BY <1>1 DEF Quiet, tables, memory, Named, DefinitionsAgree, Remembered

LEMMA SavedKeeps ==
  ASSUME DefinitionsInv, NEW w \in Workers, NEW n \in Names, Saved(w, n)
  PROVE  Named' /\ DefinitionsAgree' /\ Remembered' /\ LiveRows \subseteq LiveRows'
<1>1. row[w] = "none" /\ w \notin LiveRows /\ w \notin Known
  BY DEF Saved, SavesWorker, LiveRows, DefinitionsInv, DefinitionsAgree
<1>2. \A v \in Workers : v # w =>
         row'[v] = row[v] /\ name'[v] = name[v] /\ known'[v] = known[v] /\ port'[v] = port[v]
  BY DEF Saved, SavesWorker, DefinitionsInv, Shape
<1>3. row'[w] = "live" /\ name'[w] = n /\ known'[w] = n /\ port'[w] \in FreePorts
  BY DEF Saved, SavesWorker, DefinitionsInv, Shape
<1>4. LiveRows' = LiveRows \cup {w} /\ Known' = Known \cup {w}
  BY <1>2, <1>3, DefinitionsAssumption DEF LiveRows, Known
<1>5. Named'
  BY <1>1, <1>2, <1>3, <1>4 DEF Named, DefinitionsInv, LiveRows
<1>6. DefinitionsAgree'
  <2>1. registered' = registered \cup {w} /\ \A v \in LiveRows : name[v] # n
    BY DEF Saved, SavesWorker
  <2>. QED
    BY <1>1, <1>2, <1>3, <1>4, <2>1 DEF DefinitionsInv, DefinitionsAgree, LiveRows, Known
<1>7. Remembered'
  <2>1. \A v \in LiveRows : port[v] = port'[w] => v \in ignored
    BY <1>3 DEF FreePorts, UsedPorts, DefinitionsInv, Remembered
  <2>. QED
    BY <1>1, <1>2, <1>4, <2>1 DEF DefinitionsInv, Remembered, Saved, LiveRows
<1>. QED
  BY <1>4, <1>5, <1>6, <1>7

LEMMA RenamedKeeps ==
  ASSUME DefinitionsInv, NEW w \in Workers, NEW n \in Names, Renames(w, n)
  PROVE  Named' /\ DefinitionsAgree' /\ Remembered' /\ LiveRows' = LiveRows
<1>1. w \in LiveRows
  BY DEF Renames, DefinitionsInv, DefinitionsAgree
<1>2. \A v \in Workers : name'[v] = (IF v = w THEN n ELSE name[v])
                      /\ known'[v] = (IF v = w THEN n ELSE known[v])
  BY DEF Renames, DefinitionsInv, Shape
<1>3. LiveRows' = LiveRows
  BY DEF Renames, LiveRows
<1>4. Known' = Known
  BY <1>2, DefinitionsAssumption DEF Renames, Known
<1>5. Named'
  BY <1>2, <1>3 DEF Named, DefinitionsInv, LiveRows
<1>6. DefinitionsAgree'
  <2>1. registered' = registered /\ \A v \in LiveRows \ {w} : name[v] # n
    BY DEF Renames
  <2>. QED
    BY <1>2, <1>3, <1>4, <2>1 DEF DefinitionsInv, DefinitionsAgree, LiveRows, Known
<1>7. Remembered'
  BY <1>3, <1>4 DEF DefinitionsInv, Remembered, Renames, ghosts
<1>. QED
  BY <1>3, <1>5, <1>6, <1>7

LEMMA RemovedKeeps ==
  ASSUME DefinitionsInv, NEW w \in Workers, Removed(w)
  PROVE  Named' /\ DefinitionsAgree' /\ Remembered' /\ LiveRows' = LiveRows \ {w}
<1>1. LiveRows' = LiveRows \ {w}
  BY DEF Removed, Removes, LiveRows, DefinitionsInv, Shape
<1>2. Known' = Known \ {w}
  BY DEF Removed, Removes, Known, DefinitionsInv, Shape
<1>3. UNCHANGED <<name, port, ignored>> /\ registered' = registered \ {w}
      /\ \A v \in Known' : known'[v] = known[v]
  BY <1>2 DEF Removed, Removes, DefinitionsInv, Shape, Known
<1>. QED
  BY <1>1, <1>2, <1>3 DEF DefinitionsInv, Named, DefinitionsAgree, Remembered

LEMMA RestartKeeps ==
  ASSUME DefinitionsInv, NEW trusted \in SUBSET Workers, RestartsService(trusted)
  PROVE  Named' /\ DefinitionsAgree' /\ Remembered' /\ LiveRows' = LiveRows /\ ignored \subseteq ignored'
<1>1. LiveRows' = LiveRows /\ UNCHANGED <<name, port>>
  BY DEF RestartsService, tables, LiveRows
<1>2. registered' = LiveRows \cap trusted
      /\ \A w \in Workers : known'[w] = IF w \in registered' THEN name[w] ELSE None
  BY DEF RestartsService
<1>3. Known' = LiveRows \cap trusted
  BY <1>1, <1>2, DefinitionsAssumption DEF Known, LiveRows, DefinitionsInv, Named
<1>4. ignored' = ignored \cup (LiveRows \ trusted)
  BY DEF RestartsService
<1>5. DefinitionsAgree'
  BY <1>1, <1>2, <1>3 DEF DefinitionsInv, DefinitionsAgree, LiveRows
<1>. QED
  BY <1>1, <1>3, <1>4, <1>5 DEF DefinitionsInv, Named, Remembered

LEMMA TablesStep ==
  ASSUME DefinitionsInv, [DefinitionsNext]_definitionVars
  PROVE  Named' /\ DefinitionsAgree' /\ Remembered'
  BY TableSteps, QuietKeeps, SavedKeeps, RenamedKeeps, RemovedKeeps, RestartKeeps DEF DefinitionsInv

---------------------------------------------------------------------------
(* Shapes *)

LEMMA ShapeStep ==
  ASSUME DefinitionsInv, [DefinitionsNext]_definitionVars
  PROVE  Shape'
<1>0. Shape
  BY DEF DefinitionsInv
<1>1. ASSUME NEW c \in Calls, Waits(c) PROVE Shape'
  <2>1. UNCHANGED <<tables, memory, state, policy, routes, ghosts>>
    BY <1>1 DEF Waits, Creates, CreationFails, ProbeEnds, Records, ArchiveWaits, Qualifies
  <2>2. qualified' \subseteq Workers
    <3>1. call[c].op = "recording" => call[c].worker \in Workers
      BY CallFields DEF DefinitionsInv, CallsOK
    <3>. QED
      BY <1>0, <1>1, <3>1 DEF Waits, Creates, CreationFails, ProbeEnds, Records, ArchiveWaits, Qualifies,
         Shape
  <2>. QED
    BY <1>0, <2>1, <2>2 DEF Shape, tables, memory, routes, ghosts
<1>2. ASSUME NEW c \in Calls, NEW p \in Profiles, NEW ws \in Bindings, PublishesSetup(c, p, ws)
      PROVE  Shape'
  <2>1. UNCHANGED <<tables, memory, state, policy, qualified, ghosts>>
    BY <1>2 DEF PublishesSetup
  <2>2. /\ draft' \in [Profiles -> Bindings] /\ live' \in [Profiles -> Bindings]
        /\ revs' \in [Profiles -> SUBSET Bindings]
    BY <1>0, <1>2 DEF PublishesSetup, Shape
  <2>. QED
    BY <1>0, <2>1, <2>2 DEF Shape, tables, memory, ghosts
<1>3. ASSUME NEW c \in Calls, GatewayAnswers(c) PROVE Shape'
  <2>1. call[c].before \in [Profiles -> Bindings]
    BY <1>3, CallFields DEF GatewayAnswers, DefinitionsInv, CallsOK
  <2>2. live' \in [Profiles -> Bindings]
    BY <1>0, <1>3, <2>1, DefinitionsAssumption DEF GatewayAnswers, Shape
  <2>3. UNION {call[c].before[p] : p \in Profiles} \subseteq Workers
    BY <2>1, DefinitionsAssumption
  <2>4. unchecked' \subseteq Workers
    BY <1>0, <1>3, <2>3 DEF GatewayAnswers, Shape
  <2>5. UNCHANGED <<tables, memory, state, policy, draft, revs, qualified, ignored>>
    BY <1>3 DEF GatewayAnswers
  <2>. QED
    BY <1>0, <2>2, <2>4, <2>5 DEF Shape, tables, memory
<1>4. ASSUME NEW c \in Calls, Created(c) PROVE Shape'
  <2>1. PICK w \in Workers : SavesWorker(w, call[c].name) /\ Replaces(call[c].replaces, w)
    BY <1>4 DEF Created
  <2>2. call[c].name \in Names
    BY <1>4, CallFields DEF Created, DefinitionsInv, CallsOK
  <2>3. draft' \in [Profiles -> Bindings]
    <3>1. CASE Rebinds(call[c].replaces, w)
      <4>1. \A p \in Profiles : draft[p] \in Bindings
        BY <1>0 DEF Shape
      <4>2. \A p \in Profiles : (IF call[c].replaces \in draft[p]
               THEN (draft[p] \ {call[c].replaces}) \cup {w} ELSE draft[p]) \in Bindings
        BY <4>1, DefinitionsAssumption
      <4>. QED
        BY <3>1, <4>2 DEF Rebinds
    <3>2. CASE UNCHANGED draft
      BY <1>0, <3>2 DEF Shape
    <3>. QED
      BY <2>1, <3>1, <3>2 DEF Replaces
  <2>4. UNCHANGED <<policy, live, revs, qualified, ghosts>>
    BY <1>4 DEF Created
  <2>. QED
    BY <1>0, <2>1, <2>2, <2>3, <2>4 DEF SavesWorker, FreePorts, Shape, ghosts
<1>5. ASSUME NEW c \in Calls, ArchiveResumes(c) PROVE Shape'
  <2>1. call[c].worker \in Workers
    BY <1>5, CallFields DEF ArchiveResumes, DefinitionsInv, CallsOK
  <2>2. UNCHANGED <<name, port, state, policy, routes, qualified, ignored>>
    BY <1>5 DEF ArchiveResumes
  <2>3. /\ registered' \subseteq Workers /\ row' \in [Workers -> {"none", "live", "archived"}]
        /\ known' \in [Workers -> Names \cup {None}] /\ unchecked' \subseteq Workers
    BY <1>0, <1>5, <2>1 DEF ArchiveResumes, Removes, Shape
  <2>. QED
    BY <1>0, <2>2, <2>3 DEF Shape, routes
<1>6. ASSUME NEW w \in Workers, Supervised(w) PROVE Shape'
  <2>1. UNCHANGED <<tables, memory, policy, routes, qualified, call, ghosts>>
    BY <1>6 DEF Supervised, StartWaits, StartGoesOn, StartEnds, Ends
  <2>2. state' \in [Workers -> {"down", "held", "starting", "ready"}]
    BY <1>0, <1>6 DEF Supervised, StartWaits, StartGoesOn, StartEnds, Ends, Shape
  <2>. QED
    BY <1>0, <2>1, <2>2 DEF Shape, tables, memory, routes, ghosts
<1>7. ASSUME NEW w \in Workers, NEW n \in Names, Renames(w, n) PROVE Shape'
  BY <1>0, <1>7 DEF Renames, Shape, routes, ghosts
<1>8. ASSUME NEW w \in Workers, Archives(w) PROVE Shape'
  BY <1>0, <1>8 DEF Archives, Removes, Shape, routes, ghosts
<1>9. ASSUME NEW p \in Profiles, Routing(p) PROVE Shape'
  <2>1. UNCHANGED <<tables, memory, state, policy, qualified, ghosts>>
    BY <1>9 DEF Routing, SavesDraft, Reactivates, Publishes, Deactivates
  <2>2. /\ draft' \in [Profiles -> Bindings] /\ live' \in [Profiles -> Bindings]
        /\ revs' \in [Profiles -> SUBSET Bindings]
    <3>1. CASE Publishes(p)
      <4>1. draft[p] \in Bindings /\ revs[p] \subseteq Bindings
        BY <1>0 DEF Shape
      <4>2. draft' = draft /\ live' \in [Profiles -> Bindings]
        BY <1>0, <3>1, <4>1 DEF Publishes, Shape
      <4>3. PICK rs \in SUBSET Bindings : rs = revs[p] \cup ({draft[p]} \ {{}})
        BY <4>1
      <4>4. revs' = [revs EXCEPT ![p] = rs]
        BY <3>1, <4>3 DEF Publishes
      <4>. QED
        BY <1>0, <4>2, <4>4 DEF Shape
    <3>2. CASE Deactivates(p)
      BY <1>0, <3>2, DefinitionsAssumption DEF Deactivates, Shape
    <3>3. ASSUME NEW ws \in Bindings, SavesDraft(p, ws) \/ Reactivates(p, ws)
          PROVE  /\ draft' \in [Profiles -> Bindings] /\ live' \in [Profiles -> Bindings]
                 /\ revs' \in [Profiles -> SUBSET Bindings]
      BY <1>0, <3>3 DEF SavesDraft, Reactivates, Shape
    <3>. QED
      BY <1>9, <3>1, <3>2, <3>3 DEF Routing
  <2>. QED
    BY <1>0, <2>1, <2>2 DEF Shape, tables, memory, ghosts
<1>10. ASSUME NEW what \in {"model", "capability"}, Permits(what) PROVE Shape'
  BY <1>0, <1>10 DEF Permits, Allows, Disallows, Shape, tables, memory, routes, ghosts
<1>11. ASSUME NEW trusted \in SUBSET Workers, RestartsService(trusted) PROVE Shape'
  BY <1>0, <1>11 DEF RestartsService, LiveRows, Shape, tables, routes
<1>12. UNCHANGED definitionVars => Shape'
  BY <1>0 DEF definitionVars, Shape, tables, memory, routes, ghosts
<1>. QED
  BY <1>1, <1>2, <1>3, <1>4, <1>5, <1>6, <1>7, <1>8, <1>9, <1>10, <1>11, <1>12, StepKinds DEF Setting

\* The requests in progress: a new one remembers what CallOK says, the others what they did.
LEMMA CallBegins ==
  ASSUME CallsOK, NEW c \in Calls, NEW x, Awaits(c, x), CallOK(x)', qualified \subseteq qualified'
  PROVE  CallsOK'
<1>1. call' = [d \in Calls |-> call'[d]] /\ \A d \in Calls : call'[d] = IF d = c THEN x ELSE call[d]
  BY DEF Awaits, CallsOK
<1>2. ASSUME NEW d \in Calls, d # c PROVE CallOK(call[d])'
  BY <1>1, <1>2 DEF CallsOK, CallOK
<1>. QED
  BY <1>1, <1>2 DEF CallsOK, CallOK

LEMMA CallsKept ==
  ASSUME CallsOK, UNCHANGED call, qualified \subseteq qualified'
  PROVE  CallsOK'
  BY DEF CallsOK, CallOK

LEMMA CallsStep ==
  ASSUME DefinitionsInv, [DefinitionsNext]_definitionVars
  PROVE  CallsOK' /\ qualified \subseteq qualified'
<1>0. CallsOK
  BY DEF DefinitionsInv
<1>1. ASSUME NEW c \in Calls, Waits(c) \/ Created(c) \/ ArchiveResumes(c) \/ GatewayAnswers(c)
      PROVE  CallsOK' /\ qualified \subseteq qualified'
  <2>1. qualified \subseteq qualified'
    BY <1>1 DEF Waits, Creates, CreationFails, ProbeEnds, Records, ArchiveWaits, Qualifies, Created,
       ArchiveResumes, GatewayAnswers
  <2>2. PICK x : /\ Awaits(c, x)
                 /\ \/ x = Idle
                    \/ \E n \in Names, old \in Workers \cup {None} : x = Verifying(n, old)
                    \/ \E w \in Workers : x = Removing(w) \/ x = Probing(w)
                    \/ \E w \in Workers, ok \in BOOLEAN : x = Recording(w, ok)
    <3>1. call[c].op = "probing" => call[c].worker \in Workers
      BY <1>0, CallFields DEF CallsOK
    <3>2. CASE ProbeEnds(c)
      <4>1. PICK ok \in {FALSE, state[call[c].worker] = "ready"} : Awaits(c, Recording(call[c].worker, ok))
        BY <3>2 DEF ProbeEnds
      <4>2. ok \in BOOLEAN
        OBVIOUS
      <4>. QED
        BY <3>1, <3>2, <4>1, <4>2 DEF ProbeEnds
    <3>3. CASE Waits(c) /\ ~ProbeEnds(c)
      BY <3>3 DEF Waits, Creates, CreationFails, Records, ArchiveWaits, Qualifies
    <3>4. CASE Created(c) \/ ArchiveResumes(c) \/ GatewayAnswers(c)
      BY <3>4 DEF Created, ArchiveResumes, GatewayAnswers
    <3>. QED
      BY <1>1, <3>2, <3>3, <3>4
  <2>3. CallOK(x)'
    BY <2>2 DEF CallOK
  <2>. QED
    BY <1>0, <2>1, <2>2, <2>3, CallBegins
<1>2. ASSUME NEW c \in Calls, NEW p \in Profiles, NEW ws \in Bindings, PublishesSetup(c, p, ws)
      PROVE  CallsOK' /\ qualified \subseteq qualified'
  <2>1. Awaits(c, Asking(p, live)) /\ qualified' = qualified
    BY <1>2 DEF PublishesSetup
  <2>2. \A q \in Tested \cap Profiles : live[q] \subseteq qualified
    BY DefinitionsAssumption DEF DefinitionsInv, Routed, Shape
  <2>3. PICK before \in [Profiles -> Bindings] : before = live
    BY DEF DefinitionsInv, Shape
  <2>4. PICK x : x = Asking(p, before) /\ Awaits(c, x)
    BY <2>1, <2>3
  <2>5. CallOK(x)'
    BY <2>1, <2>2, <2>3, <2>4 DEF CallOK
  <2>. QED
    BY <1>0, <2>1, <2>4, <2>5, CallBegins
<1>3. ASSUME NEW w \in Workers, NEW n \in Names, Renames(w, n) PROVE UNCHANGED <<call, qualified>>
  BY <1>3 DEF Renames
<1>4. ASSUME NEW w \in Workers, Supervised(w) \/ Archives(w) PROVE UNCHANGED <<call, qualified>>
  BY <1>4 DEF Supervised, StartWaits, StartGoesOn, StartEnds, Ends, Archives
<1>5. ASSUME NEW p \in Profiles, Routing(p) PROVE UNCHANGED <<call, qualified>>
  BY <1>5 DEF Routing, SavesDraft, Reactivates, Publishes, Deactivates
<1>6. ASSUME NEW what, Permits(what) PROVE UNCHANGED <<call, qualified>>
  BY <1>6 DEF Permits, Allows, Disallows
<1>7. ASSUME NEW trusted \in SUBSET Workers, RestartsService(trusted)
      PROVE  CallsOK' /\ qualified \subseteq qualified'
  BY <1>7 DEF RestartsService, CallsOK, CallOK, Idle
<1>8. UNCHANGED definitionVars => UNCHANGED <<call, qualified>>
  BY DEF definitionVars
<1>. QED
  BY <1>0, <1>1, <1>2, <1>3, <1>4, <1>5, <1>6, <1>7, <1>8, CallsKept, StepKinds DEF Setting

---------------------------------------------------------------------------
(* What is live *)

LEMMA RoutedKept ==
  ASSUME Routed, UNCHANGED <<live, policy>>, qualified \subseteq qualified',
         ignored \subseteq ignored', unchecked \subseteq unchecked',
         \A p \in Profiles : \A w \in live[p] \cap LiveRows : w \in LiveRows' \cup unchecked'
  PROVE  Routed'
  BY DEF Routed, Allowed

\* A revision that was valid becomes live, or none.
LEMMA RoutedAnew ==
  ASSUME DefinitionsInv, NEW p \in Profiles, NEW ws \in SUBSET Workers, ws = {} \/ Valid(p, ws),
         live' = [live EXCEPT ![p] = ws], UNCHANGED <<row, policy, qualified, ignored, unchecked>>
  PROVE  Routed'
<1>1. \A q \in Profiles : live'[q] = IF q = p THEN ws ELSE live[q]
  BY DEF DefinitionsInv, Shape
<1>2. LiveRows' = LiveRows /\ Allowed' = Allowed
  BY DEF LiveRows, Allowed
<1>3. \A w \in ws : w \in LiveRows /\ Allowed /\ (p \in Tested => w \in qualified)
  BY DEF Valid, DefinitionsInv, DefinitionsAgree
<1>. QED
  BY <1>1, <1>2, <1>3 DEF DefinitionsInv, Routed

LEMMA RoutedStep ==
  ASSUME DefinitionsInv, [DefinitionsNext]_definitionVars
  PROVE  Routed'
<1>0. Routed
  BY DEF DefinitionsInv
<1>1. ASSUME NEW c \in Calls, Waits(c) PROVE Routed'
  <2>1. UNCHANGED <<row, live, policy, ghosts>>
    BY <1>1 DEF Waits, Creates, CreationFails, ProbeEnds, Records, ArchiveWaits, Qualifies, tables,
       routes
  <2>. QED
    BY <1>0, <2>1, CallsStep, RoutedKept DEF ghosts, LiveRows
<1>2. ASSUME NEW c \in Calls, NEW p \in Profiles, NEW ws \in Bindings, PublishesSetup(c, p, ws)
      PROVE  Routed'
  BY <1>2, DefinitionsAssumption, RoutedAnew DEF PublishesSetup, tables, ghosts
<1>3. ASSUME NEW c \in Calls, GatewayAnswers(c) PROVE Routed'
  <2>1. UNCHANGED <<row, policy, qualified, ignored>> /\ LiveRows' = LiveRows /\ Allowed' = Allowed
    BY <1>3 DEF GatewayAnswers, tables, LiveRows, Allowed
  <2>2. CASE UNCHANGED <<live, unchecked>>
    BY <1>0, <2>1, <2>2 DEF Routed
  <2>3. CASE /\ live' = [p \in Profiles |->
                     IF call[c].before[p] # {} THEN call[c].before[p]
                     ELSE IF p = call[c].profile THEN {} ELSE live[p]]
             /\ unchecked' = unchecked \cup UNION {call[c].before[p] : p \in Profiles}
    <3>1. \A p \in Profiles \cap Tested : call[c].before[p] \subseteq qualified
      BY <1>3, CallFields DEF GatewayAnswers, DefinitionsInv, CallsOK
    <3>2. \A p \in Profiles : \A w \in call[c].before[p] : w \in unchecked'
      BY <2>3
    <3>3. \A p \in Profiles : live'[p] \in {call[c].before[p], {}, live[p]}
      BY <2>3
    <3>. QED
      BY <1>0, <2>1, <2>3, <3>1, <3>2, <3>3 DEF Routed
  <2>. QED
    BY <1>3, <2>2, <2>3 DEF GatewayAnswers
<1>4. ASSUME NEW w \in Workers, NEW n \in Names, Saved(w, n) PROVE Routed'
  BY <1>0, <1>4, SavedKeeps, RoutedKept DEF Saved
<1>5. ASSUME NEW w \in Workers, NEW n \in Names, Renames(w, n) PROVE Routed'
  BY <1>0, <1>5, RenamedKeeps, RoutedKept DEF Renames, routes, ghosts
<1>6. ASSUME NEW w \in Workers, Removed(w) PROVE Routed'
  BY <1>0, <1>6, RemovedKeeps, RoutedKept DEF Removed
<1>7. ASSUME NEW w \in Workers, Supervised(w) PROVE Routed'
  BY <1>0, <1>7, RoutedKept DEF Supervised, StartWaits, StartGoesOn, StartEnds, Ends, tables, routes,
     ghosts, LiveRows
<1>8. ASSUME NEW p \in Profiles, Routing(p) PROVE Routed'
  <2>1. ASSUME NEW ws \in Bindings, SavesDraft(p, ws) PROVE Routed'
    BY <1>0, <2>1, RoutedKept DEF SavesDraft, tables, ghosts, LiveRows
  <2>2. ASSUME NEW ws \in Bindings, Reactivates(p, ws) PROVE Routed'
    BY <2>2, DefinitionsAssumption, RoutedAnew DEF Reactivates, tables, ghosts
  <2>3. CASE Publishes(p)
    <3>1. draft[p] \in SUBSET Workers
      BY BindingsAreSets DEF DefinitionsInv, Shape
    <3>. QED
      BY <2>3, <3>1, RoutedAnew DEF Publishes, tables, ghosts
  <2>4. CASE Deactivates(p)
    BY <2>4, RoutedAnew DEF Deactivates, tables, ghosts
  <2>. QED
    BY <1>8, <2>1, <2>2, <2>3, <2>4 DEF Routing
<1>9. ASSUME NEW what \in {"model", "capability"}, Permits(what) PROVE Routed'
  <2>1. UNCHANGED <<row, live, qualified, ghosts>> /\ LiveRows' = LiveRows
    BY <1>9 DEF Permits, Allows, Disallows, tables, routes, LiveRows
  <2>2. CASE Allows(what)
    <3>1. Allowed => Allowed'
      BY <2>2 DEF Allows, Allowed
    <3>. QED
      BY <1>0, <2>1, <3>1 DEF Routed, ghosts
  <2>3. CASE Disallows(what)
    <3>1. \A p \in Profiles : Known \cap live[p] = {}
      BY <2>3 DEF Disallows, References
    <3>2. \A p \in Profiles : \A w \in live[p] : w \in ignored \cup unchecked
      BY <1>0, <3>1 DEF Routed, DefinitionsInv, Remembered
    <3>. QED
      BY <1>0, <2>1, <3>2 DEF Routed, ghosts
  <2>. QED
    BY <1>9, <2>2, <2>3 DEF Permits
<1>10. ASSUME NEW trusted \in SUBSET Workers, RestartsService(trusted) PROVE Routed'
  BY <1>0, <1>10, RestartKeeps, RoutedKept DEF RestartsService, routes
<1>11. UNCHANGED definitionVars => Routed'
  BY <1>0, RoutedKept DEF definitionVars, tables, routes, ghosts, LiveRows
<1>12. ASSUME NEW c \in Calls, Created(c) PROVE Routed'
  <2>1. \E w \in Workers, n \in Names : Saved(w, n)
    BY <1>12, CallFields DEF Created, Saved, ghosts, DefinitionsInv, CallsOK
  <2>. QED
    BY <1>4, <2>1
<1>13. ASSUME NEW c \in Calls, ArchiveResumes(c) PROVE Routed'
  <2>1. call[c].worker \in Workers
    BY <1>13, CallFields DEF ArchiveResumes, DefinitionsInv, CallsOK
  <2>2. Removed(call[c].worker) \/ UNCHANGED <<row, live, policy, qualified, ignored, unchecked>>
    BY <1>13 DEF ArchiveResumes, Removed, routes
  <2>. QED
    BY <1>0, <1>6, <2>1, <2>2, RoutedKept DEF LiveRows
<1>14. ASSUME NEW w \in Workers, Archives(w) PROVE Removed(w)
  BY <1>14 DEF Archives, Archivable, Removed, routes, ghosts
<1>. QED
  BY <1>1, <1>2, <1>3, <1>5, <1>6, <1>7, <1>8, <1>9, <1>10, <1>11, <1>12, <1>13, <1>14, StepKinds DEF Setting

---------------------------------------------------------------------------
LEMMA DefinitionsStep == DefinitionsInv /\ [DefinitionsNext]_definitionVars => DefinitionsInv'
  BY ShapeStep, CallsStep, TablesStep, RoutedStep DEF DefinitionsInv

LEMMA DefinitionsAreTyped == DefinitionsInv => DefinitionTypesOK
<1> SUFFICES ASSUME DefinitionsInv PROVE DefinitionTypesOK
  OBVIOUS
<1> DEFINE Typed == {Idle} \cup {Verifying(n, w) : n \in Names, w \in Workers \cup {None}}
            \cup {Removing(w) : w \in Workers} \cup {Probing(w) : w \in Workers}
            \cup {Recording(w, ok) : w \in Workers, ok \in BOOLEAN}
            \cup {Asking(p, before) : p \in Profiles, before \in [Profiles -> Bindings]}
<1>1. \A c \in Calls : call[c] \in Typed
  <2> TAKE c \in Calls
  <2>1. CallOK(call[c])
    BY DEF DefinitionsInv, CallsOK
  <2>2. CASE call[c] = Idle
    BY <2>2
  <2>3. CASE \E n \in Names, old \in Workers \cup {None} : call[c] = Verifying(n, old)
    BY <2>3
  <2>4. CASE \E w \in Workers : call[c] = Removing(w) \/ call[c] = Probing(w)
    BY <2>4
  <2>5. CASE \E w \in Workers, ok \in BOOLEAN : call[c] = Recording(w, ok)
    BY <2>5
  <2>6. CASE \E p \in Profiles, before \in [Profiles -> Bindings] : call[c] = Asking(p, before)
    BY <2>6
  <2>. QED
    BY <2>1, <2>2, <2>3, <2>4, <2>5, <2>6 DEF CallOK
<1>. QED
  BY <1>1 DEF DefinitionsInv, Shape, DefinitionTypesOK

LEMMA DefinitionsInvGives ==
  DefinitionsInv => PortsAreUniqueUnlessIgnored /\ RoutesNameWorkers /\ RoutesStayPermitted
<1>1. DefinitionsInv => PortsAreUniqueUnlessIgnored
  BY DEF DefinitionsInv, DefinitionsAgree, Remembered, PortsAreUniqueUnlessIgnored
<1>2. DefinitionsInv => RoutesNameWorkers
  BY DefinitionsAssumption DEF DefinitionsInv, Shape, Routed, RoutesNameWorkers, LiveRows
<1>3. DefinitionsInv => RoutesStayPermitted
  BY DEF DefinitionsInv, Routed, RoutesStayPermitted
<1>. QED
  BY <1>1, <1>2, <1>3

\* The invariant of the definitions.
THEOREM DefinitionsInvariant == DefinitionsSpec => []DefinitionsInv
  BY DefinitionsStep, DefinitionsInitially, PTL DEF DefinitionsSpec

\* Memory, registry and table say the same, and a name means one Worker, whatever handlers are
\* between their awaits (create_worker, rename_worker, archive_worker, lifespan).
THEOREM TablesAgree == DefinitionsSpec => []DefinitionsAgree
<1>1. DefinitionsInv => DefinitionsAgree
  BY DEF DefinitionsInv
<1>. QED
  BY <1>1, DefinitionsInvariant, PTL

\* Two Workers of the registry share a port only if a start ignored one of them (_next_port).
THEOREM PortsAreUnique == DefinitionsSpec => []PortsAreUniqueUnlessIgnored
<1>1. DefinitionsInv => PortsAreUniqueUnlessIgnored
  BY DefinitionsInvGives
<1>. QED
  BY <1>1, DefinitionsInvariant, PTL

\* A live route names an archived Worker only after a late archiving or a rollback.
THEOREM RoutesHaveWorkers == DefinitionsSpec => []RoutesNameWorkers
<1>1. DefinitionsInv => RoutesNameWorkers
  BY DefinitionsInvGives
<1>. QED
  BY <1>1, DefinitionsInvariant, PTL

\* What is live was qualified and stays permitted, with the same exceptions.
THEOREM RoutesArePermitted == DefinitionsSpec => []RoutesStayPermitted
<1>1. DefinitionsInv => RoutesStayPermitted
  BY DefinitionsInvGives
<1>. QED
  BY <1>1, DefinitionsInvariant, PTL

---------------------------------------------------------------------------
(* Routes: requests, polls, jobs and discovery *)

Started(r) == request[r].pc = "answered" /\ request[r].code = "ok"

\* The tables are tables.
RouteTables ==
    /\ R!RouteTypesOK
    /\ listener = [p \in R!ListeningPorts |-> listener[p]]
    /\ request = [r \in Requests |-> request[r]]
    /\ poll = [c \in Polls |-> poll[c]]
    /\ discovery = [d \in Discoveries |-> discovery[d]]

\* Places of a route whose rows are there.
PlacesOf(ids, places) ==
    /\ ids \in Seq(RouteWorkers) /\ places \subseteq DOMAIN ids
    /\ \A i \in places : ids[i] \in RouteWorkers /\ rows[ids[i]] # "missing"

\* A request, from its route to its answer: it chose a Worker that listened on its port, and its
\* role was read off the route it came by.
RequestHolds(r) ==
    LET q == request[r] IN
    /\ q.pc \in {"new", "probing", "ready"} => memo[r] = None /\ assigned[r] = None /\ job[r] = R!NoJob
    /\ q.pc \in {"probing", "ready"} => PlacesOf(q.ids, q.cands)
    /\ q.pc = "probing" => q.left \subseteq q.cands
    /\ q.pc = "ready" => q.worker \in RouteWorkers /\ (q.moved \/ listener[PortOf[q.worker]] = q.worker)
    /\ q.pc = "resolving" => PlacesOf(q.ids, q.left)
    /\ R!Processed(q) =>
        /\ q.worker \in RouteWorkers
        /\ q.by = q.worker \/ q.moved
        /\ q.role = R!RouteRole(q, q.worker)

\* A job that was found and not let go of is in the table, with a Worker that has a row.
JobHolds(j) ==
    /\ job[j].home # None =>
        /\ memo[j] # None => PortOf[memo[j]] = PortOf[job[j].home]
        /\ assigned[j] # None => PortOf[assigned[j]] = PortOf[job[j].home]
    /\ Started(j) /\ j \notin released => assigned[j] # None
    /\ assigned[j] # None => rows[assigned[j]] # "missing"

\* Only a job that was let go of is searched for among the candidates.
PollHolds(c) ==
    LET q == poll[c] IN
    /\ q.pc # "idle" => q.job \in Requests
    /\ q.pc = "asking" => q.worker \in RouteWorkers
    /\ q.pc \in {"searching", "asking"} => Started(q.job)
    /\ q.pc \in {"searching", "answered"} => q.job \in released
    /\ q.pc = "searching" => PlacesOf(q.ids, q.left)

DiscoveryHolds(d) ==
    LET q == discovery[d] IN
    q.pc = "told" =>
        (q.reason = "primary_ready" <=> q.selected # None /\ q.selected = Head(q.ids))

RoutesInv ==
    /\ RouteTables
    /\ \A r \in Requests : RequestHolds(r) /\ JobHolds(r)
    /\ \A c \in Polls : PollHolds(c)
    /\ \A d \in Discoveries : DiscoveryHolds(d)

LEMMA RoutesInitially == R!RoutesInit => RoutesInv
<1> SUFFICES ASSUME R!RoutesInit PROVE RoutesInv
  OBVIOUS
<1>1. RouteTables
  BY RoutesAssumption DEF R!RoutesInit, RouteTables, R!RouteTypesOK, R!NoJob, R!ListeningPorts
<1>2. \A r \in Requests : RequestHolds(r)
  BY DEF R!RoutesInit, RequestHolds, R!Processed
<1>3. \A j \in Requests : JobHolds(j)
  BY DEF R!RoutesInit, JobHolds, Started, R!NoJob
<1>4. \A c \in Polls : PollHolds(c)
  BY DEF R!RoutesInit, PollHolds
<1>5. \A d \in Discoveries : DiscoveryHolds(d)
  BY DEF R!RoutesInit, DiscoveryHolds
<1>. QED
  BY <1>1, <1>2, <1>3, <1>4, <1>5 DEF RoutesInv

---------------------------------------------------------------------------
(* What a step may not disturb *)

\* Rows that are there stay there.
RowsStay == \A w \in RouteWorkers : rows[w] # "missing" => rows'[w] # "missing"

\* A request that a step leaves alone.
LEMMA RequestStays ==
  ASSUME NEW r \in Requests, RequestHolds(r), request'[r] = request[r], RowsStay,
         listener' = listener,
         request[r].pc \in {"new", "probing", "ready"} =>
            memo'[r] = memo[r] /\ assigned'[r] = assigned[r] /\ job'[r] = job[r]
  PROVE  RequestHolds(r)'
  BY DEF RequestHolds, RowsStay, PlacesOf, R!Processed, R!RouteRole

\* A job that a step leaves alone, or lets go of.
LEMMA JobStays ==
  ASSUME RouteTables, NEW j \in Requests, JobHolds(j), RowsStay,
         Started(j)' => Started(j), memo'[j] \in {memo[j], None},
         assigned'[j] = assigned[j] \/ (assigned'[j] = None /\ j \in released'),
         released \subseteq released',
         job'[j].home \in {job[j].home, None}
  PROVE  JobHolds(j)'
  BY DEF JobHolds, RowsStay, RouteTables, R!RouteTypesOK

LEMMA PollStays ==
  ASSUME NEW c \in Polls, PollHolds(c), poll'[c] = poll[c], RowsStay,
         \A r \in Requests : Started(r) => Started(r)', released \subseteq released'
  PROVE  PollHolds(c)'
  BY DEF PollHolds, RowsStay, PlacesOf

---------------------------------------------------------------------------
(* Requests *)

\* A health that says ready is of the Worker that was asked.
LEMMA AnswersForItself ==
  ASSUME NEW w, NEW h \in R!Answers(w), h.ready
  PROVE  listener[PortOf[w]] = w
<1> DEFINE v == listener[PortOf[w]]
<1>1. PICK b \in BOOLEAN : b = (v = w /\ condition[v] = "ready")
  OBVIOUS
<1>2. PICK busy \in BOOLEAN : busy = (condition[v] = "busy")
  OBVIOUS
<1>3. \/ h = [ready |-> FALSE, busy |-> FALSE, worker |-> None]
      \/ h = [ready |-> b, busy |-> busy, worker |-> v]
  BY <1>1, <1>2, Zenon DEF R!Answers
<1>4. b
  BY <1>3
<1>. QED
  BY <1>1, <1>4

\* Only the entry of r changes.
OnlyRequest(r) ==
    /\ \A k \in Requests \ {r} : request'[k] = request[k]
    /\ request' = [k \in Requests |-> request'[k]]

LEMMA OneRequest ==
  ASSUME RoutesInv, NEW r \in Requests, NEW q, request' = [request EXCEPT ![r] = q]
  PROVE  request'[r] = q /\ OnlyRequest(r)
<1>1. request = [k \in Requests |-> request[k]]
  BY DEF RoutesInv, RouteTables
<1>. QED
  BY <1>1 DEF OnlyRequest

\* What a probe does.
LEMMA Probed ==
  ASSUME RoutesInv, NEW r \in Requests, R!Probes(r)
  PROVE  \E i \in request[r].left :
            /\ OnlyRequest(r)
            /\ \/ /\ listener[PortOf[request[r].ids[i]]] = request[r].ids[i]
                  /\ request'[r] = R!Chosen(request[r].ids, request[r].cands, request[r].ids[i], FALSE)
               \/ \E busy : request'[r] = R!Probing(request[r].ids, request[r].left \ {i},
                                                     request[r].cands, busy)
<1>1. PICK i \in request[r].left : \E h \in R!Answers(request[r].ids[i]) :
        request' = [request EXCEPT ![r] =
           IF h.ready THEN R!Chosen(request[r].ids, request[r].cands, request[r].ids[i], FALSE)
           ELSE R!Probing(request[r].ids, request[r].left \ {i}, request[r].cands,
                          request[r].busy /\ h.busy)]
  BY DEF R!Probes
<1>2. PICK h \in R!Answers(request[r].ids[i]) :
        request' = [request EXCEPT ![r] =
           IF h.ready THEN R!Chosen(request[r].ids, request[r].cands, request[r].ids[i], FALSE)
           ELSE R!Probing(request[r].ids, request[r].left \ {i}, request[r].cands,
                          request[r].busy /\ h.busy)]
  BY <1>1
<1>3. CASE h.ready
  <2>1. request' = [request EXCEPT ![r] =
                      R!Chosen(request[r].ids, request[r].cands, request[r].ids[i], FALSE)]
    BY <1>2, <1>3
  <2>2. /\ request'[r] = R!Chosen(request[r].ids, request[r].cands, request[r].ids[i], FALSE)
        /\ OnlyRequest(r)
    BY <2>1, OneRequest
  <2>. QED
    BY <1>3, <2>2, AnswersForItself
<1>4. CASE ~h.ready
  <2>1. PICK busy : busy = (request[r].busy /\ h.busy)
    OBVIOUS
  <2>2. request' = [request EXCEPT ![r] =
                      R!Probing(request[r].ids, request[r].left \ {i}, request[r].cands, busy)]
    BY <1>2, <1>4, <2>1
  <2>3. request'[r] = R!Probing(request[r].ids, request[r].left \ {i}, request[r].cands, busy) /\ OnlyRequest(r)
    BY <2>2, OneRequest
  <2>. QED
    BY <2>3
<1>. QED
  BY <1>3, <1>4

\* A step of a request before it is sent.
LEMMA RequestKeeps ==
  ASSUME RoutesInv, NEW r \in Requests, R!Resolves(r) \/ R!Probes(r) \/ R!NoneReady(r)
  PROVE  RoutesInv'
<1> DEFINE q == request[r]
<1>1. /\ RouteTables /\ RequestHolds(r)
      /\ UNCHANGED <<rows, route, listener, condition, poll, discovery, job, memo, assigned, released>>
  BY DEF RoutesInv, R!Resolves, R!Probes, R!NoneReady, R!world, R!jobVars
<1>2. RowsStay
  BY <1>1 DEF RowsStay
<1>3. /\ OnlyRequest(r)
      /\ request[r].pc \in {"new", "probing"}
      /\ request'[r].pc \in {"probing", "ready", "answered"}
      /\ request'[r].pc = "answered" => request'[r].code # "ok"
      /\ RequestHolds(r)'
  <2>1. CASE R!Resolves(r) /\ R!Candidates(route) = {}
    <3>1. request' = [request EXCEPT ![r] = R!Refused("unavailable", route)]
      BY <2>1 DEF R!Resolves
    <3>2. request'[r] = R!Refused("unavailable", route) /\ OnlyRequest(r)
      BY <3>1, OneRequest
    <3>. QED
      BY <1>1, <2>1, <3>2 DEF R!Refused, R!Resolves, RequestHolds, R!Processed
  <2>2. CASE R!Resolves(r) /\ R!Candidates(route) # {}
    <3> DEFINE C == R!Candidates(route)
    <3>1. request' = [request EXCEPT ![r] = R!Probing(route, C, C, TRUE)]
      BY <2>2 DEF R!Resolves
    <3>2. request'[r] = R!Probing(route, C, C, TRUE) /\ OnlyRequest(r)
      BY <3>1, OneRequest
    <3>3. PlacesOf(route, C)
      BY <1>1, RoutesAssumption, ElementOfSeq
      DEF RouteTables, R!RouteTypesOK, PlacesOf, R!Candidates
    <3>4. PlacesOf(request[r].ids, request[r].cands)'
      BY <1>1, <3>2, <3>3 DEF PlacesOf, R!Probing
    <3>. QED
      BY <1>1, <2>2, <3>2, <3>4 DEF R!Probing, R!Resolves, RequestHolds, R!Processed
  <2>3. CASE R!Probes(r)
    <3>1. /\ q.pc = "probing" /\ PlacesOf(q.ids, q.cands) /\ q.left \subseteq q.cands
          /\ memo[r] = None /\ assigned[r] = None /\ job[r] = R!NoJob
      BY <1>1, <2>3 DEF R!Probes, RequestHolds
    <3>2. PICK i \in q.left :
            /\ OnlyRequest(r)
            /\ \/ /\ listener[PortOf[q.ids[i]]] = q.ids[i]
                  /\ request'[r] = R!Chosen(q.ids, q.cands, q.ids[i], FALSE)
               \/ \E busy : request'[r] = R!Probing(q.ids, q.left \ {i}, q.cands, busy)
      BY <2>3, Probed
    <3>3. CASE /\ listener[PortOf[q.ids[i]]] = q.ids[i]
               /\ request'[r] = R!Chosen(q.ids, q.cands, q.ids[i], FALSE)
      <4>1. q.ids[i] \in RouteWorkers
        BY <3>1 DEF PlacesOf
      <4>2. PlacesOf(request[r].ids, request[r].cands)'
        BY <1>1, <3>1, <3>3 DEF PlacesOf, R!Chosen
      <4>. QED
        BY <1>1, <3>1, <3>2, <3>3, <4>1, <4>2 DEF R!Chosen, RequestHolds, R!Processed
    <3>4. CASE \E busy : request'[r] = R!Probing(q.ids, q.left \ {i}, q.cands, busy)
      <4>1. PICK busy : request'[r] = R!Probing(q.ids, q.left \ {i}, q.cands, busy)
        BY <3>4
      <4>2. PlacesOf(request[r].ids, request[r].cands)'
        BY <1>1, <3>1, <4>1 DEF PlacesOf, R!Probing
      <4>. QED
        BY <1>1, <3>1, <3>2, <4>1, <4>2 DEF R!Probing, RequestHolds, R!Processed
    <3>. QED
      BY <3>2, <3>3, <3>4
  <2>4. CASE R!NoneReady(r)
    <3>1. PICK code \in {"busy", "unavailable"} : request' = [request EXCEPT ![r] = R!Refused(code, q.ids)]
      BY <2>4 DEF R!NoneReady
    <3>2. request'[r] = R!Refused(code, q.ids) /\ OnlyRequest(r)
      BY <3>1, OneRequest
    <3>. QED
      BY <1>1, <2>4, <3>1, <3>2 DEF R!NoneReady, RequestHolds, R!Processed, R!Refused
  <2>. QED
    BY <2>1, <2>2, <2>3, <2>4
<1>4. /\ \A k \in Requests \ {r} : request'[k] = request[k]
      /\ request' = [k \in Requests |-> request'[k]]
  BY <1>3 DEF OnlyRequest
<1>5. RouteTables'
  BY <1>1, <1>3, <1>4 DEF RouteTables, R!RouteTypesOK
<1>6. \A k \in Requests : Started(k)' <=> Started(k)
  BY <1>1, <1>3, <1>4 DEF Started
<1>7. \A k \in Requests : RequestHolds(k)' /\ JobHolds(k)'
  BY <1>1, <1>2, <1>3, <1>4, <1>6, RequestStays, JobStays DEF RoutesInv
<1>8. \A c \in Polls : PollHolds(c)'
  BY <1>1, <1>2, <1>6, PollStays DEF RoutesInv
<1>9. \A d \in Discoveries : DiscoveryHolds(d)'
  BY <1>1 DEF RoutesInv, DiscoveryHolds
<1>. QED
  BY <1>5, <1>7, <1>8, <1>9 DEF RoutesInv

\* The POST reaches the Worker that was chosen, or the request was marked.
LEMMA SendKeeps ==
  ASSUME RoutesInv, NEW r \in Requests, R!Sends(r)
  PROVE  RoutesInv'
<1> DEFINE q == request[r]
           v == listener[PortOf[q.worker]]
<1>1. /\ RouteTables /\ RequestHolds(r) /\ q.pc = "ready"
      /\ UNCHANGED <<rows, route, listener, condition, poll, discovery, memo, assigned, released>>
  BY DEF RoutesInv, R!Sends, R!world, R!jobVars
<1>2. RowsStay
  BY <1>1 DEF RowsStay
<1>3. /\ memo[r] = None /\ assigned[r] = None /\ job[r] = R!NoJob
      /\ PlacesOf(q.ids, q.cands)
      /\ q.worker \in RouteWorkers /\ (q.moved \/ v = q.worker)
  BY <1>1 DEF RequestHolds
<1>4. /\ OnlyRequest(r) /\ RequestHolds(r)'
      /\ request'[r].pc \in {"answered", "resolving"}
      /\ request'[r].pc = "answered" => request'[r].code # "ok"
      /\ \A k \in Requests \ {r} : job'[k] = job[k]
      /\ job' \in [Requests -> [home : RouteWorkers \cup {None},
                                state : {"none", "running", "ended", "lost"}]]
  <2>1. CASE v = None \/ condition[v] # "ready"
    <3>1. request' = [request EXCEPT ![r] = R!Refused("failed", q.ids)] /\ job' = job
      BY <2>1 DEF R!Sends, R!jobVars
    <3>2. request'[r] = R!Refused("failed", q.ids) /\ OnlyRequest(r)
      BY <3>1, OneRequest
    <3>3. RequestHolds(r)'
      BY <3>2 DEF R!Refused, RequestHolds, R!Processed
    <3>. QED
      BY <1>1, <3>1, <3>2, <3>3 DEF R!Refused, RouteTables, R!RouteTypesOK
  <2>2. CASE ~(v = None \/ condition[v] # "ready")
    <3> DEFINE n == R!Resolving(q, q.cands, v, R!RouteRole(q, q.worker))
               started == [home |-> v, state |-> "running"]
    <3>1. request' = [request EXCEPT ![r] = n] /\ job' = [job EXCEPT ![r] = started]
      BY <2>2 DEF R!Sends
    <3>2. request'[r] = n /\ OnlyRequest(r)
      BY <3>1, OneRequest
    <3>3. v \in RouteWorkers
      BY <1>1, <1>3, <2>2 DEF RouteTables, R!RouteTypesOK, R!ListeningPorts
    <3>4. PlacesOf(request[r].ids, request[r].left)'
      BY <1>1, <1>3, <3>2 DEF PlacesOf, R!Resolving
    <3>5. RequestHolds(r)'
      BY <1>3, <3>2, <3>4 DEF R!Resolving, RequestHolds, R!Processed, R!RouteRole
    <3>6. started \in [home : RouteWorkers \cup {None}, state : {"none", "running", "ended", "lost"}]
      BY <3>3
    <3>. QED
      BY <1>1, <3>1, <3>2, <3>5, <3>6 DEF R!Resolving, RouteTables, R!RouteTypesOK
  <2>. QED
    BY <2>1, <2>2
<1>5. /\ \A k \in Requests \ {r} : request'[k] = request[k]
      /\ request' = [k \in Requests |-> request'[k]]
  BY <1>4 DEF OnlyRequest
<1>6. RouteTables'
  BY <1>1, <1>4, <1>5 DEF RouteTables, R!RouteTypesOK
<1>7. \A k \in Requests : Started(k)' <=> Started(k)
  BY <1>1, <1>4, <1>5 DEF Started
<1>8. JobHolds(r)'
  BY <1>1, <1>3, <1>4 DEF JobHolds, Started
<1>9. \A k \in Requests \ {r} : RequestHolds(k)' /\ JobHolds(k)'
  BY <1>1, <1>2, <1>4, <1>5, <1>7, RequestStays, JobStays DEF RoutesInv
<1>10. \A c \in Polls : PollHolds(c)'
  BY <1>1, <1>2, <1>7, PollStays DEF RoutesInv
<1>11. \A d \in Discoveries : DiscoveryHolds(d)'
  BY <1>1 DEF RoutesInv, DiscoveryHolds
<1>. QED
  BY <1>4, <1>6, <1>8, <1>9, <1>10, <1>11 DEF RoutesInv

\* A Worker that knows a job listens on the port of the process that has it.
LEMMA KnowsTheJob ==
  ASSUME RouteTables, NEW w \in RouteWorkers, NEW j \in Requests,
         NEW answer \in R!JobAnswers(w, j), R!IsHome(answer)
  PROVE  job[j].home # None /\ PortOf[job[j].home] = PortOf[w]
<1>1. R!Has(w, j)
  BY DEF R!JobAnswers, R!IsHome
<1>. QED
  BY <1>1 DEF R!Has, RouteTables, R!RouteTypesOK, R!ListeningPorts

\* The gateway looks for the job it has just started.
LEMMA FindingKeeps ==
  ASSUME RoutesInv, NEW r \in Requests, R!FindsItsJob(r)
  PROVE  RoutesInv'
<1> DEFINE q == request[r]
<1>1. /\ RouteTables /\ RequestHolds(r) /\ JobHolds(r) /\ q.pc = "resolving"
      /\ UNCHANGED <<rows, route, listener, condition, poll, discovery, job>>
  BY DEF RoutesInv, R!FindsItsJob, R!world, R!jobVars
<1>2. RowsStay
  BY <1>1 DEF RowsStay
<1>3. /\ PlacesOf(q.ids, q.left)
      /\ q.worker \in RouteWorkers /\ (q.by = q.worker \/ q.moved)
      /\ q.role = R!RouteRole(q, q.worker)
  BY <1>1 DEF RequestHolds, R!Processed
<1>4. ASSUME request'[r] = R!Served(q)
      PROVE  RequestHolds(r)'
  BY <1>3, <1>4 DEF R!Served, RequestHolds, R!Processed, R!RouteRole
<1> DEFINE Keeps ==
      /\ OnlyRequest(r) /\ RequestHolds(r)' /\ JobHolds(r)'
      /\ request'[r].pc \in {"answered", "resolving"}
      /\ \A k \in Requests \ {r} : memo'[k] = memo[k] /\ assigned'[k] = assigned[k]
      /\ released \subseteq released' /\ released' \subseteq Requests
      /\ memo' \in [Requests -> RouteWorkers \cup {None}]
      /\ assigned' \in [Requests -> RouteWorkers \cup {None}]
<1>5. Keeps
  <2>1. CASE /\ request' = [request EXCEPT ![r] = R!Served(q)] /\ released' = released \cup {r}
             /\ UNCHANGED <<job, memo, assigned>>
    <3>1. request'[r] = R!Served(q) /\ OnlyRequest(r)
      BY <2>1, OneRequest
    <3>2. JobHolds(r)'
      BY <1>1, <2>1 DEF JobHolds
    <3>. QED
      BY <1>1, <1>4, <2>1, <3>1, <3>2 DEF R!Served, RouteTables, R!RouteTypesOK
  <2>2. ASSUME NEW i \in q.left, NEW answer \in R!JobAnswers(q.ids[i], r), R!IsHome(answer),
               request' = [request EXCEPT ![r] = R!Served(q)],
               memo' = [memo EXCEPT ![r] = q.ids[i]], assigned' = [assigned EXCEPT ![r] = q.ids[i]],
               UNCHANGED <<job, released>>
        PROVE  Keeps
    <3>1. request'[r] = R!Served(q) /\ OnlyRequest(r)
      BY <2>2, OneRequest
    <3>2. PICK w \in RouteWorkers : w = q.ids[i] /\ rows[w] # "missing"
      BY <1>3 DEF PlacesOf
    <3>3. PortOf[job[r].home] = PortOf[w]
      BY <1>1, <2>2, <3>2, KnowsTheJob
    <3>4. /\ memo'[r] = w /\ assigned'[r] = w
          /\ \A k \in Requests \ {r} : memo'[k] = memo[k] /\ assigned'[k] = assigned[k]
          /\ memo' \in [Requests -> RouteWorkers \cup {None}]
          /\ assigned' \in [Requests -> RouteWorkers \cup {None}]
      BY <1>1, <2>2, <3>2 DEF RouteTables, R!RouteTypesOK
    <3>5. JobHolds(r)'
      BY <1>1, <3>2, <3>3, <3>4, RoutesAssumption DEF JobHolds
    <3>. QED
      BY <1>1, <1>4, <2>2, <3>1, <3>4, <3>5 DEF R!Served, RouteTables, R!RouteTypesOK
  <2>3. ASSUME NEW i \in q.left,
               request' = [request EXCEPT ![r] = R!Resolving(q, q.left \ {i}, q.by, q.role)],
               UNCHANGED R!jobVars
        PROVE  Keeps
    <3>1. request'[r] = R!Resolving(q, q.left \ {i}, q.by, q.role) /\ OnlyRequest(r)
      BY <2>3, OneRequest
    <3>2. PlacesOf(request[r].ids, request[r].left)'
      BY <1>1, <1>3, <3>1 DEF PlacesOf, R!Resolving
    <3>3. RequestHolds(r)'
      BY <1>3, <3>1, <3>2 DEF R!Resolving, RequestHolds, R!Processed, R!RouteRole
    <3>4. JobHolds(r)'
      BY <1>1, <2>3, <3>1 DEF JobHolds, Started, R!jobVars, R!Resolving
    <3>. QED
      BY <1>1, <2>3, <3>1, <3>3, <3>4 DEF R!Resolving, RouteTables, R!RouteTypesOK, R!jobVars
  <2>. QED
    <3>1. CASE q.left = {} /\ request' = [request EXCEPT ![r] = R!Served(q)] /\ released' = released \cup {r} /\ UNCHANGED <<job, memo, assigned>>
      BY <3>1, <2>1
    <3>2. CASE \E i \in q.left : \E answer \in R!JobAnswers(q.ids[i], r) :
            IF R!IsHome(answer)
            THEN /\ request' = [request EXCEPT ![r] = R!Served(q)]
                 /\ memo' = [memo EXCEPT ![r] = q.ids[i]]
                 /\ assigned' = [assigned EXCEPT ![r] = q.ids[i]]
                 /\ UNCHANGED <<job, released>>
            ELSE /\ request' = [request EXCEPT ![r] = R!Resolving(q, q.left \ {i}, q.by, q.role)]
                 /\ UNCHANGED R!jobVars
      <4>1. PICK i \in q.left : \E answer \in R!JobAnswers(q.ids[i], r) :
            IF R!IsHome(answer)
            THEN /\ request' = [request EXCEPT ![r] = R!Served(q)]
                 /\ memo' = [memo EXCEPT ![r] = q.ids[i]]
                 /\ assigned' = [assigned EXCEPT ![r] = q.ids[i]]
                 /\ UNCHANGED <<job, released>>
            ELSE /\ request' = [request EXCEPT ![r] = R!Resolving(q, q.left \ {i}, q.by, q.role)]
                 /\ UNCHANGED R!jobVars
        BY <3>2
      <4>. QED
        BY <4>1, <2>2, <2>3
    <3>. QED
      BY <3>1, <3>2 DEF R!FindsItsJob
<1>6. /\ \A k \in Requests \ {r} : request'[k] = request[k]
      /\ request' = [k \in Requests |-> request'[k]]
  BY <1>5 DEF OnlyRequest
<1>7. RouteTables'
  BY <1>1, <1>5, <1>6 DEF RouteTables, R!RouteTypesOK
<1>8. \A k \in Requests : Started(k) => Started(k)'
  BY <1>1, <1>6 DEF Started
<1>9. \A k \in Requests \ {r} : RequestHolds(k)' /\ JobHolds(k)'
  <2> TAKE k \in Requests \ {r}
  <2>1. RequestHolds(k) /\ JobHolds(k)
    BY DEF RoutesInv
  <2>2. Started(k)' => Started(k)
    BY <1>6 DEF Started
  <2>3. RequestHolds(k)'
    BY <1>1, <1>2, <1>5, <1>6, <2>1, RequestStays
  <2>4. JobHolds(k)'
    BY <1>1, <1>2, <1>5, <1>6, <2>1, <2>2, JobStays
  <2>. QED
    BY <2>3, <2>4
<1>10. \A c \in Polls : PollHolds(c)'
  BY <1>1, <1>2, <1>5, <1>8, PollStays DEF RoutesInv
<1>11. \A d \in Discoveries : DiscoveryHolds(d)'
  BY <1>1 DEF RoutesInv, DiscoveryHolds
<1>. QED
  BY <1>5, <1>7, <1>9, <1>10, <1>11 DEF RoutesInv

---------------------------------------------------------------------------
(* Polls and discovery *)

\* Only the entry of c changes.
OnlyPoll(c) ==
    /\ \A k \in Polls \ {c} : poll'[k] = poll[k]
    /\ poll' = [k \in Polls |-> poll'[k]]

LEMMA OnePoll ==
  ASSUME RoutesInv, NEW c \in Polls, NEW q, poll' = [poll EXCEPT ![c] = q]
  PROVE  poll'[c] = q /\ OnlyPoll(c)
<1>1. poll = [k \in Polls |-> poll[k]]
  BY DEF RoutesInv, RouteTables
<1>. QED
  BY <1>1 DEF OnlyPoll

\* What is enough for a step of a poll.
LEMMA PollStep ==
  ASSUME RoutesInv, NEW c \in Polls, OnlyPoll(c), PollHolds(c)',
         poll'[c].pc \in {"idle", "searching", "asking", "answered"},
         UNCHANGED <<rows, route, listener, condition, request, discovery, job>>,
         memo' \in [Requests -> RouteWorkers \cup {None}],
         assigned' \in [Requests -> RouteWorkers \cup {None}],
         released \subseteq released', released' \subseteq Requests,
         \A j \in Requests : JobHolds(j)',
         \A j \in Requests : ~Started(j) => memo'[j] = memo[j] /\ assigned'[j] = assigned[j]
  PROVE  RoutesInv'
<1>1. RouteTables /\ RowsStay
  BY DEF RoutesInv, RowsStay
<1>2. /\ \A k \in Polls \ {c} : poll'[k] = poll[k]
      /\ poll' = [k \in Polls |-> poll'[k]]
  BY DEF OnlyPoll
<1>3. RouteTables'
  BY <1>1, <1>2 DEF RouteTables, R!RouteTypesOK
<1>4. \A r \in Requests : RequestHolds(r)'
  BY <1>1, RequestStays DEF RoutesInv, Started
<1>5. \A k \in Polls : PollHolds(k)'
  <2> TAKE k \in Polls
  <2>1. CASE k # c
    <3>1. \A r \in Requests : Started(r) => Started(r)'
      BY DEF Started
    <3>. QED
      BY <1>1, <1>2, <2>1, <3>1, PollStays DEF RoutesInv
  <2>. QED
    BY <2>1
<1>6. \A d \in Discoveries : DiscoveryHolds(d)'
  BY DEF RoutesInv, DiscoveryHolds
<1>. QED
  BY <1>3, <1>4, <1>5, <1>6 DEF RoutesInv

\* Only what was let go of is searched for.
LEMMA AskingKeeps ==
  ASSUME RoutesInv, NEW c \in Polls, NEW j \in Requests, NEW op, R!AsksFor(c, j, op)
  PROVE  RoutesInv'
<1>1. /\ RouteTables /\ JobHolds(j) /\ Started(j) /\ poll[c].pc = "idle"
      /\ UNCHANGED <<rows, route, listener, condition, request, discovery, job, assigned, released>>
  BY DEF RoutesInv, R!AsksFor, R!world, R!Started, Started
<1>2. /\ memo[j] \in RouteWorkers \cup {None} /\ assigned[j] \in RouteWorkers \cup {None}
      /\ released \subseteq Requests
      /\ rows \in [RouteWorkers -> {"live", "archived", "invalid", "missing"}] /\ route \in Routes
  BY <1>1 DEF RouteTables, R!RouteTypesOK
<1>3. Started(j)'
  BY <1>1 DEF Started
<1>4. ASSUME NEW w \in RouteWorkers, poll' = [poll EXCEPT ![c] = R!Asking(op, j, w)]
      PROVE  OnlyPoll(c) /\ PollHolds(c)' /\ poll'[c].pc = "asking"
  <2>1. poll'[c] = R!Asking(op, j, w) /\ OnlyPoll(c)
    BY <1>4, OnePoll
  <2>. QED
    BY <1>3, <2>1 DEF R!Asking, PollHolds
<1>5. CASE memo[j] # None
  <2>1. poll' = [poll EXCEPT ![c] = R!Asking(op, j, memo[j])] /\ memo' = memo
    BY <1>5 DEF R!AsksFor
  <2>. QED
    BY <1>1, <1>2, <1>3, <1>4, <1>5, <2>1, PollStep DEF RoutesInv, RouteTables, R!RouteTypesOK, JobHolds, Started
<1>6. CASE memo[j] = None /\ assigned[j] # None /\ rows[assigned[j]] \in {"live", "archived"}
  <2>1. poll' = [poll EXCEPT ![c] = R!Asking(op, j, assigned[j])] /\ memo' = [memo EXCEPT ![j] = assigned[j]]
    BY <1>6 DEF R!AsksFor
  <2>2. /\ memo'[j] = assigned[j] /\ \A k \in Requests \ {j} : memo'[k] = memo[k]
        /\ memo' \in [Requests -> RouteWorkers \cup {None}]
    BY <1>1, <1>2, <2>1 DEF RouteTables, R!RouteTypesOK
  <2>3. \A k \in Requests : JobHolds(k)'
    BY <1>1, <2>2 DEF RoutesInv, JobHolds, Started
  <2>4. assigned' \in [Requests -> RouteWorkers \cup {None}]
    BY <1>1 DEF RouteTables, R!RouteTypesOK
  <2>. QED
    BY <1>1, <1>2, <1>4, <1>6, <2>1, <2>2, <2>3, <2>4, PollStep
<1>7. CASE memo[j] = None /\ assigned[j] # None /\ rows[assigned[j]] = "invalid"
  <2>1. poll' = poll /\ memo' = memo
    BY <1>7 DEF R!AsksFor
  <2>2. OnlyPoll(c)
    BY <1>1, <2>1 DEF OnlyPoll, RouteTables
  <2>. QED
    BY <1>1, <1>2, <2>1, <2>2, PollStep DEF RoutesInv, RouteTables, R!RouteTypesOK, JobHolds, Started, PollHolds
<1>8. CASE /\ memo[j] = None
           /\ \/ assigned[j] = None
              \/ rows[assigned[j]] \notin {"live", "archived"} /\ rows[assigned[j]] # "invalid"
  <2> DEFINE n == R!Searching(op, j, route, R!Candidates(route), FALSE)
  <2>1. poll' = [poll EXCEPT ![c] = n] /\ memo' = memo
    BY <1>8 DEF R!AsksFor
  <2>2. poll'[c] = n /\ OnlyPoll(c)
    BY <2>1, OnePoll
  <2>3. j \in released
    BY <1>1, <1>2, <1>8 DEF JobHolds
  <2>4. PlacesOf(route, R!Candidates(route))
    BY <1>2, RoutesAssumption, ElementOfSeq DEF PlacesOf, R!Candidates
  <2>5. PlacesOf(poll[c].ids, poll[c].left)'
    BY <1>1, <2>2, <2>4 DEF PlacesOf, R!Searching
  <2>6. PollHolds(c)'
    BY <1>1, <1>3, <2>2, <2>3, <2>5 DEF R!Searching, PollHolds
  <2>7. \A k \in Requests : JobHolds(k)'
    BY <1>1, <2>1 DEF RoutesInv, JobHolds, Started
  <2>8. poll'[c].pc = "searching"
    BY <2>2 DEF R!Searching
  <2>9. memo' \in [Requests -> RouteWorkers \cup {None}] /\ assigned' \in [Requests -> RouteWorkers \cup {None}]
    BY <1>1, <2>1 DEF RouteTables, R!RouteTypesOK
  <2>. QED
    BY <1>1, <1>2, <2>1, <2>2, <2>6, <2>7, <2>8, <2>9, PollStep
<1>. QED
  BY <1>5, <1>6, <1>7, <1>8

LEMMA SearchKeeps ==
  ASSUME RoutesInv, NEW c \in Polls, R!Searches(c)
  PROVE  RoutesInv'
<1> DEFINE q == poll[c]
<1>1. /\ RouteTables /\ PollHolds(c) /\ q.pc = "searching"
      /\ UNCHANGED <<rows, route, listener, condition, request, discovery, job, released>>
  BY DEF RoutesInv, R!Searches, R!world
<1>2. PICK j \in Requests : /\ j = q.job /\ Started(j) /\ j \in released
        /\ PlacesOf(q.ids, q.left) /\ released \subseteq Requests
  BY <1>1 DEF PollHolds, RouteTables, R!RouteTypesOK
<1>3. Started(j)'
  BY <1>1, <1>2 DEF Started
<1>4. ASSUME NEW i \in q.left, NEW answer \in R!JobAnswers(q.ids[i], j), R!IsHome(answer),
             poll' = [poll EXCEPT ![c] = R!Asking(q.op, j, q.ids[i])],
             memo' = [memo EXCEPT ![j] = q.ids[i]], assigned' = [assigned EXCEPT ![j] = q.ids[i]]
      PROVE  RoutesInv'
  <2>1. PICK w \in RouteWorkers : w = q.ids[i] /\ rows[w] # "missing"
    BY <1>2 DEF PlacesOf
  <2>2. PortOf[job[j].home] = PortOf[w]
    BY <1>1, <1>2, <1>4, <2>1, KnowsTheJob
  <2>3. poll'[c] = R!Asking(q.op, j, w) /\ OnlyPoll(c)
    BY <1>4, <2>1, OnePoll
  <2>4. PollHolds(c)' /\ poll'[c].pc = "asking"
    BY <1>2, <1>3, <2>1, <2>3 DEF R!Asking, PollHolds
  <2>5. /\ memo'[j] = w /\ assigned'[j] = w
        /\ \A k \in Requests \ {j} : memo'[k] = memo[k] /\ assigned'[k] = assigned[k]
        /\ memo' \in [Requests -> RouteWorkers \cup {None}]
        /\ assigned' \in [Requests -> RouteWorkers \cup {None}]
    BY <1>1, <1>2, <1>4, <2>1 DEF RouteTables, R!RouteTypesOK
  <2>6. \A k \in Requests : JobHolds(k)'
    BY <1>1, <1>2, <2>1, <2>2, <2>5, RoutesAssumption DEF RoutesInv, JobHolds, Started
  <2>. QED
    BY <1>1, <1>2, <2>3, <2>4, <2>5, <2>6, PollStep
<1>5. ASSUME NEW i \in q.left, NEW silent,
             poll' = [poll EXCEPT ![c] = R!Searching(q.op, j, q.ids, q.left \ {i}, silent)],
             UNCHANGED <<memo, assigned>>
      PROVE  RoutesInv'
  <2>1. poll'[c] = R!Searching(q.op, j, q.ids, q.left \ {i}, silent) /\ OnlyPoll(c)
    BY <1>5, OnePoll
  <2>2. PlacesOf(poll[c].ids, poll[c].left)'
    BY <1>1, <1>2, <2>1 DEF PlacesOf, R!Searching
  <2>3. PollHolds(c)' /\ poll'[c].pc = "searching"
    BY <1>1, <1>2, <1>3, <2>1, <2>2 DEF R!Searching, PollHolds
  <2>4. \A k \in Requests : JobHolds(k)'
    BY <1>1, <1>5 DEF RoutesInv, JobHolds, Started
  <2>5. memo' \in [Requests -> RouteWorkers \cup {None}] /\ assigned' \in [Requests -> RouteWorkers \cup {None}]
    BY <1>1, <1>5 DEF RouteTables, R!RouteTypesOK
  <2>. QED
    BY <1>1, <1>2, <1>5, <2>1, <2>3, <2>4, <2>5, PollStep
<1>6. PICK i \in q.left : \E answer \in R!JobAnswers(q.ids[i], q.job) :
           IF R!IsHome(answer)
           THEN /\ poll' = [poll EXCEPT ![c] = R!Asking(q.op, q.job, q.ids[i])]
                /\ memo' = [memo EXCEPT ![q.job] = q.ids[i]]
                /\ assigned' = [assigned EXCEPT ![q.job] = q.ids[i]]
           ELSE /\ poll' = [poll EXCEPT ![c] =
                       R!Searching(q.op, q.job, q.ids, q.left \ {i}, q.silent \/ answer = "silent")]
                /\ UNCHANGED <<memo, assigned>>
  BY DEF R!Searches
<1>7. PICK answer \in R!JobAnswers(q.ids[i], q.job) :
           IF R!IsHome(answer)
           THEN /\ poll' = [poll EXCEPT ![c] = R!Asking(q.op, q.job, q.ids[i])]
                /\ memo' = [memo EXCEPT ![q.job] = q.ids[i]]
                /\ assigned' = [assigned EXCEPT ![q.job] = q.ids[i]]
           ELSE /\ poll' = [poll EXCEPT ![c] =
                       R!Searching(q.op, q.job, q.ids, q.left \ {i}, q.silent \/ answer = "silent")]
                /\ UNCHANGED <<memo, assigned>>
  BY <1>6
<1>8. CASE R!IsHome(answer)
  BY <1>2, <1>4, <1>7, <1>8
<1>9. CASE ~R!IsHome(answer)
  <2>1. PICK silent : silent = (q.silent \/ answer = "silent")
    OBVIOUS
  <2>. QED
    BY <1>2, <1>5, <1>7, <1>9, <2>1
<1>. QED
  BY <1>8, <1>9

\* A job that is seen to end or cancelled is let go of.
LEMMA AnswerKeeps ==
  ASSUME RoutesInv, NEW c \in Polls, R!JobAnswered(c)
  PROVE  RoutesInv'
<1> DEFINE q == poll[c]
<1>1. /\ RouteTables /\ PollHolds(c) /\ q.pc = "asking"
      /\ UNCHANGED <<rows, route, listener, condition, request, discovery, job, memo>>
  BY DEF RoutesInv, R!JobAnswered, R!world
<1>2. PICK j \in Requests : j = q.job /\ Started(j)
  BY <1>1 DEF PollHolds
<1>3. /\ poll' = [poll EXCEPT ![c] = [pc |-> "idle"]]
      /\ \/ UNCHANGED <<assigned, released>>
         \/ assigned' = [assigned EXCEPT ![j] = None] /\ released' = released \cup {j}
  BY <1>2, Zenon DEF R!JobAnswered
<1>4. poll'[c] = [pc |-> "idle"] /\ OnlyPoll(c)
  BY <1>3, OnePoll
<1>5. PollHolds(c)' /\ poll'[c].pc = "idle"
  BY <1>4 DEF PollHolds
<1>6. /\ memo' \in [Requests -> RouteWorkers \cup {None}]
      /\ assigned' \in [Requests -> RouteWorkers \cup {None}]
      /\ released \subseteq released' /\ released' \subseteq Requests
      /\ \A k \in Requests \ {j} : assigned'[k] = assigned[k]
      /\ assigned'[j] = assigned[j] \/ (assigned'[j] = None /\ j \in released')
  BY <1>1, <1>2, <1>3 DEF RouteTables, R!RouteTypesOK
<1>7. RowsStay
  BY <1>1 DEF RowsStay
<1>8. \A k \in Requests : JobHolds(k)'
  <2> TAKE k \in Requests
  <2>1. JobHolds(k) /\ (Started(k)' => Started(k))
    BY <1>1 DEF RoutesInv, Started
  <2>. QED
    BY <1>1, <1>6, <1>7, <2>1, JobStays
<1>. QED
  BY <1>1, <1>2, <1>4, <1>5, <1>6, <1>8, PollStep

\* A search that fails, and a poll that returns.
LEMMA PollEnds ==
  ASSUME RoutesInv, NEW c \in Polls, R!SearchFails(c) \/ R!Returns(c)
  PROVE  RoutesInv'
<1>1. /\ RouteTables /\ PollHolds(c)
      /\ UNCHANGED <<rows, route, listener, condition, request, discovery, job, memo, assigned, released>>
  BY DEF RoutesInv, R!SearchFails, R!Returns, R!world, R!jobVars
<1>2. OnlyPoll(c) /\ PollHolds(c)' /\ poll'[c].pc \in {"idle", "answered"}
  <2>1. CASE R!SearchFails(c)
    <3>1. PICK code : poll' = [poll EXCEPT ![c] =
                         [pc |-> "answered", op |-> poll[c].op, job |-> poll[c].job, code |-> code]]
      BY <2>1 DEF R!SearchFails
    <3>2. /\ poll'[c] = [pc |-> "answered", op |-> poll[c].op, job |-> poll[c].job, code |-> code]
          /\ OnlyPoll(c)
      BY <3>1, OnePoll
    <3>3. poll[c].pc = "searching"
      BY <2>1 DEF R!SearchFails
    <3>. QED
      BY <1>1, <3>2, <3>3 DEF PollHolds
  <2>2. CASE R!Returns(c)
    <3>1. poll'[c] = [pc |-> "idle"] /\ OnlyPoll(c)
      BY <2>2, OnePoll DEF R!Returns
    <3>. QED
      BY <3>1 DEF PollHolds
  <2>. QED
    BY <2>1, <2>2
<1>3. \A k \in Requests : JobHolds(k)'
  BY <1>1 DEF RoutesInv, JobHolds, Started
<1>. QED
  BY <1>1, <1>2, <1>3, PollStep DEF RouteTables, R!RouteTypesOK

\* Discovery reads, and tells whether the Worker it selected comes first.
LEMMA DiscoveryKeeps ==
  ASSUME RoutesInv, NEW d \in Discoveries, R!Looks(d) \/ R!Sees(d) \/ R!Tells(d)
  PROVE  RoutesInv'
<1> DEFINE q == discovery[d]
<1>1. /\ RouteTables /\ RowsStay
      /\ UNCHANGED <<rows, route, listener, condition, request, poll, job, memo, assigned, released>>
  BY DEF RoutesInv, R!Looks, R!Sees, R!Tells, R!world, R!jobVars, RowsStay
<1>2. ASSUME NEW n, discovery' = [discovery EXCEPT ![d] = n], n.pc \in {"looking", "told"},
             n.pc = "told" => (n.reason = "primary_ready" <=> n.selected # None /\ n.selected = Head(n.ids))
      PROVE  RoutesInv'
  <2>1. discovery = [k \in Discoveries |-> discovery[k]]
    BY <1>1 DEF RouteTables
  <2>2. /\ discovery'[d] = n /\ \A k \in Discoveries \ {d} : discovery'[k] = discovery[k]
        /\ discovery' = [k \in Discoveries |-> discovery'[k]]
    BY <1>2, <2>1
  <2>3. RouteTables'
    BY <1>1, <1>2, <2>2 DEF RouteTables, R!RouteTypesOK
  <2>4. \A r \in Requests : RequestHolds(r)' /\ JobHolds(r)'
    BY <1>1, RequestStays DEF RoutesInv, JobHolds, Started
  <2>5. \A c \in Polls : PollHolds(c)'
    BY <1>1, PollStays DEF RoutesInv, Started
  <2>6. \A k \in Discoveries : DiscoveryHolds(k)'
    BY <1>2, <2>2 DEF RoutesInv, DiscoveryHolds
  <2>. QED
    BY <2>3, <2>4, <2>5, <2>6 DEF RoutesInv
<1>3. CASE R!Looks(d)
  <2> DEFINE C == R!Candidates(route)
  <2>1. discovery' = [discovery EXCEPT ![d] = R!Looking(route, C, C, {})]
    BY <1>3 DEF R!Looks
  <2>2. R!Looking(route, C, C, {}).pc = "looking"
    BY DEF R!Looking
  <2>. QED
    BY <1>2, <2>1, <2>2
<1>4. CASE R!Sees(d)
  <2>1. PICK i \in q.left : \E h \in R!Answers(q.ids[i]) : discovery' = [discovery EXCEPT ![d] =
               R!Looking(q.ids, q.cands, q.left \ {i}, IF h.ready THEN q.ready \cup {i} ELSE q.ready)]
    BY <1>4 DEF R!Sees
  <2>2. PICK ready : discovery' = [discovery EXCEPT ![d] = R!Looking(q.ids, q.cands, q.left \ {i}, ready)]
    BY <2>1
  <2>3. R!Looking(q.ids, q.cands, q.left \ {i}, ready).pc = "looking"
    BY DEF R!Looking
  <2>. QED
    BY <1>2, <2>2, <2>3
<1>5. CASE R!Tells(d)
  <2>1. discovery' = [discovery EXCEPT ![d] = R!Record(q)]
    BY <1>5 DEF R!Tells
  <2>2. R!Record(q).pc = "told" /\ (R!Record(q).reason = "primary_ready" <=>
           R!Record(q).selected # None /\ R!Record(q).selected = Head(R!Record(q).ids))
    <3> DEFINE s == IF q.ready = {} THEN None ELSE q.ids[CHOOSE i \in q.ready : R!IsFirst(i, q.ready)]
               p == IF 1 \in q.cands THEN Head(q.ids) ELSE None
               e == IF s = None THEN "no_ready_worker"
                    ELSE IF s = Head(q.ids) THEN "primary_ready" ELSE "backup_ready"
    <3>1. R!Record(q) = [pc |-> "told", ids |-> q.ids, selected |-> s, primary |-> p, reason |-> e]
      BY Zenon DEF R!Record
    <3>2. e = IF s = None THEN "no_ready_worker"
              ELSE IF s = Head(q.ids) THEN "primary_ready" ELSE "backup_ready"
      BY Zenon
    <3> HIDE DEF s, p, e
    <3>. QED
      BY <3>1, <3>2
  <2>. QED
    BY <1>2, <2>1, <2>2
<1>. QED
  BY <1>3, <1>4, <1>5

---------------------------------------------------------------------------
(* The rest of the system *)

\* The process behind a port goes or comes: its jobs are lost and who is about to use the port
\* is marked.
LEMMA ListeningKeeps ==
  ASSUME RoutesInv, NEW p \in R!ListeningPorts, NEW x \in {w \in RouteWorkers : PortOf[w] = p} \cup {None},
         R!Listens(p, x),
         UNCHANGED <<rows, route, poll, discovery, memo, assigned, released>>,
         condition' \in [RouteWorkers -> {"loading", "ready", "busy"}]
  PROVE  RoutesInv'
<1>1. RouteTables /\ RowsStay
  BY DEF RoutesInv, RowsStay
<1>2. /\ listener' = [listener EXCEPT ![p] = x]
      /\ listener'[p] = x /\ \A k \in R!ListeningPorts \ {p} : listener'[k] = listener[k]
      /\ listener' = [k \in R!ListeningPorts |-> listener'[k]]
  BY <1>1 DEF R!Listens, RouteTables
<1>3. \A r \in Requests :
         request'[r] = IF R!Waiting(r) /\ PortOf[request[r].worker] = p
                       THEN R!Chosen(request[r].ids, request[r].cands, request[r].worker, TRUE)
                       ELSE request[r]
  BY DEF R!Listens
<1>4. \A j \in Requests :
         \/ job'[j] = job[j]
         \/ job[j].home # None /\ job'[j] = [home |-> None, state |-> "lost"]
  BY DEF R!Listens
<1>5. request' = [r \in Requests |-> request'[r]] /\ job' = [j \in Requests |-> job'[j]]
  BY DEF R!Listens
<1>6. \A j \in Requests : job'[j].home \in {job[j].home, None}
  BY <1>4
<1>7. job' \in [Requests -> [home : RouteWorkers \cup {None}, state : {"none", "running", "ended", "lost"}]]
  <2>1. \A j \in Requests : job[j] \in [home : RouteWorkers \cup {None}, state : {"none", "running", "ended", "lost"}]
    BY <1>1 DEF RouteTables, R!RouteTypesOK
  <2>. QED
    BY <1>4, <1>5, <2>1
<1>8. \A r \in Requests : request'[r].pc = request[r].pc /\ (Started(r)' <=> Started(r))
  <2> TAKE r \in Requests
  <2>1. CASE R!Waiting(r) /\ PortOf[request[r].worker] = p
    <3>1. request'[r] = R!Chosen(request[r].ids, request[r].cands, request[r].worker, TRUE)
      BY <1>3, <2>1
    <3>. QED
      BY <2>1, <3>1 DEF R!Chosen, R!Waiting, Started
  <2>2. CASE ~(R!Waiting(r) /\ PortOf[request[r].worker] = p)
    <3>1. request'[r] = request[r]
      BY <1>3, <2>2
    <3>. QED
      BY <3>1 DEF Started
  <2>. QED
    BY <2>1, <2>2
<1>9. RouteTables'
  <2>1. \A k \in R!ListeningPorts : listener'[k] \in {w \in RouteWorkers : PortOf[w] = k} \cup {None}
    <3> TAKE k \in R!ListeningPorts
    <3>1. CASE k = p
      BY <1>2, <3>1
    <3>2. CASE k # p
      BY <1>1, <1>2, <3>2 DEF RouteTables, R!RouteTypesOK
    <3>. QED
      BY <3>1, <3>2
  <2>2. R!RouteTypesOK'
    BY <1>1, <1>7, <1>8, <2>1 DEF RouteTables, R!RouteTypesOK, R!ListeningPorts
  <2>. QED
    BY <1>1, <1>2, <1>5, <2>2 DEF RouteTables, R!ListeningPorts
<1>10. \A r \in Requests : RequestHolds(r)'
  <2> TAKE r \in Requests
  <2> DEFINE q == request[r]
  <2>1. RequestHolds(r)
    BY DEF RoutesInv
  <2>2. q.pc \in {"new", "probing", "ready"} => job'[r] = job[r]
    BY <1>4, <2>1 DEF RequestHolds, R!NoJob
  <2>3. CASE R!Waiting(r) /\ PortOf[q.worker] = p
    <3>1. request'[r] = R!Chosen(q.ids, q.cands, q.worker, TRUE)
      BY <1>3, <2>3
    <3>2. PlacesOf(q.ids, q.cands) /\ q.worker \in RouteWorkers /\ memo[r] = None /\ assigned[r] = None /\ job[r] = R!NoJob
      BY <2>1, <2>3 DEF RequestHolds, R!Waiting
    <3>3. PlacesOf(request[r].ids, request[r].cands)'
      BY <3>1, <3>2 DEF PlacesOf, R!Chosen
    <3>. QED
      BY <2>2, <2>3, <3>1, <3>2, <3>3 DEF R!Chosen, RequestHolds, R!Processed, R!Waiting
  <2>4. CASE R!Waiting(r) /\ PortOf[q.worker] # p
    <3>1. request'[r] = request[r]
      BY <1>3, <2>4
    <3>2. q.worker \in RouteWorkers
      BY <2>1, <2>4 DEF RequestHolds, R!Waiting
    <3>3. listener'[PortOf[q.worker]] = listener[PortOf[q.worker]]
      BY <1>2, <2>4, <3>2 DEF R!ListeningPorts
    <3>. QED
      BY <2>1, <2>2, <2>4, <3>1, <3>3 DEF RequestHolds, R!Processed, R!Waiting, PlacesOf
  <2>5. CASE ~R!Waiting(r)
    <3>1. request'[r] = request[r]
      BY <1>3, <2>5
    <3>. QED
      BY <2>1, <2>2, <2>5, <3>1 DEF RequestHolds, R!Processed, R!Waiting, PlacesOf, R!RouteRole
  <2>. QED
    BY <2>3, <2>4, <2>5
<1>11. \A j \in Requests : JobHolds(j)'
  <2> TAKE j \in Requests
  <2>1. JobHolds(j)
    BY DEF RoutesInv
  <2>. QED
    BY <1>1, <1>6, <1>8, <2>1, JobStays
<1>12. \A c \in Polls : PollHolds(c)'
  BY <1>1, <1>8, PollStays DEF RoutesInv
<1>13. \A d \in Discoveries : DiscoveryHolds(d)'
  BY DEF RoutesInv, DiscoveryHolds
<1>. QED
  BY <1>9, <1>10, <1>11, <1>12, <1>13 DEF RoutesInv

LEMMA DyingKeeps ==
  ASSUME RoutesInv, NEW p \in R!ListeningPorts, R!Dies(p)
  PROVE  RoutesInv'
<1>1. R!Listens(p, None) /\ UNCHANGED <<rows, route, condition, poll, discovery, memo, assigned, released>>
  BY DEF R!Dies
<1>2. condition' \in [RouteWorkers -> {"loading", "ready", "busy"}]
  BY <1>1 DEF RoutesInv, RouteTables, R!RouteTypesOK
<1>. QED
  BY <1>1, <1>2, ListeningKeeps

LEMMA LaunchKeeps ==
  ASSUME RoutesInv, NEW w \in RouteWorkers, R!Launches(w)
  PROVE  RoutesInv'
<1>1. R!Listens(PortOf[w], w) /\ UNCHANGED <<rows, route, poll, discovery, memo, assigned, released>>
  BY DEF R!Launches
<1>2. condition' \in [RouteWorkers -> {"loading", "ready", "busy"}]
  BY DEF R!Launches, RoutesInv, RouteTables, R!RouteTypesOK
<1>3. PortOf[w] \in R!ListeningPorts
  BY DEF R!ListeningPorts
<1>. QED
  BY <1>1, <1>2, <1>3, ListeningKeeps

\* What changes the rows, the route or the conditions only, and makes no row missing.
LEMMA WorldKeeps ==
  ASSUME RoutesInv, UNCHANGED <<listener, request, poll, discovery, job, memo, assigned, released>>,
         RowsStay, route' \in Routes,
         rows' \in [RouteWorkers -> {"live", "archived", "invalid", "missing"}],
         condition' \in [RouteWorkers -> {"loading", "ready", "busy"}]
  PROVE  RoutesInv'
<1>1. RouteTables'
  BY DEF RoutesInv, RouteTables, R!RouteTypesOK
<1>2. \A r \in Requests : RequestHolds(r)' /\ JobHolds(r)'
  BY RequestStays, JobStays DEF RoutesInv, Started
<1>3. \A c \in Polls : PollHolds(c)'
  BY PollStays DEF RoutesInv, Started
<1>4. \A d \in Discoveries : DiscoveryHolds(d)'
  BY DEF RoutesInv, DiscoveryHolds
<1>. QED
  BY <1>1, <1>2, <1>3, <1>4 DEF RoutesInv

LEMMA ConditionKeeps ==
  ASSUME RoutesInv, NEW w \in RouteWorkers,
         R!ChangesCondition(w) \/ R!RetiresWorker(w) \/ R!AddsWorker(w)
  PROVE  RoutesInv'
<1>1. RouteTables /\ UNCHANGED <<route, listener, request, poll, discovery, job, memo, assigned, released>>
  BY DEF RoutesInv, R!ChangesCondition, R!RetiresWorker, R!AddsWorker, R!jobVars
<1>2. /\ RowsStay /\ route' \in Routes
      /\ rows' \in [RouteWorkers -> {"live", "archived", "invalid", "missing"}]
      /\ condition' \in [RouteWorkers -> {"loading", "ready", "busy"}]
  BY <1>1 DEF RowsStay, RouteTables, R!RouteTypesOK,
     R!ChangesCondition, R!RetiresWorker, R!AddsWorker
<1>. QED
  BY <1>1, <1>2, WorldKeeps

LEMMA RerouteKeeps ==
  ASSUME RoutesInv, NEW ids \in Routes, R!Reroutes(ids)
  PROVE  RoutesInv'
<1>1. /\ UNCHANGED <<rows, listener, condition, request, poll, discovery, job, memo, assigned, released>>
      /\ route' \in Routes
  BY DEF R!Reroutes, R!jobVars
<1>. QED
  BY <1>1, WorldKeeps DEF RoutesInv, RouteTables, R!RouteTypesOK, RowsStay

LEMMA JobEndKeeps ==
  ASSUME RoutesInv, NEW j \in Requests, R!JobEnds(j)
  PROVE  RoutesInv'
<1>1. /\ RouteTables /\ RowsStay /\ job[j].state = "running"
      /\ UNCHANGED <<rows, route, listener, condition, request, poll, discovery, memo, assigned, released>>
  BY DEF RoutesInv, R!JobEnds, R!world, RowsStay
<1>2. PICK w \in RouteWorkers \cup {None} : w = job[j].home /\ job[j] = [home |-> w, state |-> "running"]
  BY <1>1 DEF RouteTables, R!RouteTypesOK
<1>3. /\ job'[j] = [home |-> w, state |-> "ended"] /\ \A k \in Requests \ {j} : job'[k] = job[k]
      /\ job' \in [Requests -> [home : RouteWorkers \cup {None}, state : {"none", "running", "ended", "lost"}]]
  BY <1>1, <1>2 DEF R!JobEnds, RouteTables, R!RouteTypesOK
<1>4. RouteTables'
  BY <1>1, <1>3 DEF RouteTables, R!RouteTypesOK
<1>5. \A r \in Requests : RequestHolds(r)'
  BY <1>1, <1>3, RequestStays DEF RoutesInv, RequestHolds, R!NoJob
<1>6. \A k \in Requests : JobHolds(k)'
  BY <1>1, <1>2, <1>3 DEF RoutesInv, JobHolds, Started
<1>7. \A c \in Polls : PollHolds(c)'
  BY <1>1, PollStays DEF RoutesInv, Started
<1>8. \A d \in Discoveries : DiscoveryHolds(d)'
  BY <1>1 DEF RoutesInv, DiscoveryHolds
<1>. QED
  BY <1>4, <1>5, <1>6, <1>7, <1>8 DEF RoutesInv

\* The memory is empty and the table is kept.
LEMMA GatewayRestartKeeps ==
  ASSUME RoutesInv, R!GatewayStartsAgain
  PROVE  RoutesInv'
<1>1. /\ RouteTables /\ memo' = [j \in Requests |-> None]
      /\ UNCHANGED <<route, listener, condition, request, poll, discovery, job, assigned, released>>
  BY DEF RoutesInv, R!GatewayStartsAgain
<1>2. RowsStay /\ rows' \in [RouteWorkers -> {"live", "archived", "invalid", "missing"}]
  BY <1>1 DEF R!GatewayStartsAgain, RowsStay, RouteTables, R!RouteTypesOK
<1>3. \A j \in Requests : memo'[j] = None
  BY <1>1
<1>4. RouteTables'
  BY <1>1, <1>2 DEF RouteTables, R!RouteTypesOK
<1>5. \A r \in Requests : RequestHolds(r)' /\ JobHolds(r)'
  <2> TAKE r \in Requests
  <2>1. RequestHolds(r) /\ JobHolds(r)
    BY DEF RoutesInv
  <2>2. RequestHolds(r)'
    BY <1>1, <1>2, <1>3, <2>1, RequestStays DEF RequestHolds
  <2>3. JobHolds(r)'
    BY <1>1, <1>2, <1>3, <2>1, JobStays DEF Started
  <2>. QED
    BY <2>2, <2>3
<1>6. \A c \in Polls : PollHolds(c)'
  BY <1>1, <1>2, PollStays DEF RoutesInv, Started
<1>7. \A d \in Discoveries : DiscoveryHolds(d)'
  BY <1>1 DEF RoutesInv, DiscoveryHolds
<1>. QED
  BY <1>4, <1>5, <1>6, <1>7 DEF RoutesInv

\* Nothing happens to the routes.
LEMMA NothingKeeps ==
  ASSUME RoutesInv, UNCHANGED requests
  PROVE  RoutesInv'
<1>1. UNCHANGED <<rows, route, listener, condition, request, poll, discovery, job, memo, assigned, released>>
  BY DEF requests
<1>. QED
  BY <1>1, WorldKeeps DEF RoutesInv, RouteTables, R!RouteTypesOK, RowsStay

\* Every step of the routes keeps the invariant.
LEMMA RoutesStep == RoutesInv /\ R!RoutesNext => RoutesInv'
<1> SUFFICES ASSUME RoutesInv, R!RoutesNext PROVE RoutesInv'
  OBVIOUS
<1>1. ASSUME NEW r \in Requests,
             R!Resolves(r) \/ R!Probes(r) \/ R!NoneReady(r) \/ R!Sends(r) \/ R!FindsItsJob(r)
      PROVE  RoutesInv'
  BY <1>1, RequestKeeps, SendKeeps, FindingKeeps
<1>2. ASSUME NEW c \in Polls, NEW j \in Requests, NEW op \in {"poll", "cancel", "events"}, R!AsksFor(c, j, op)
      PROVE  RoutesInv'
  BY <1>2, AskingKeeps
<1>3. ASSUME NEW c \in Polls, R!Searches(c) \/ R!SearchFails(c) \/ R!JobAnswered(c) \/ R!Returns(c)
      PROVE  RoutesInv'
  BY <1>3, SearchKeeps, AnswerKeeps, PollEnds
<1>4. ASSUME NEW d \in Discoveries, R!Looks(d) \/ R!Sees(d) \/ R!Tells(d)
      PROVE  RoutesInv'
  BY <1>4, DiscoveryKeeps
<1>5. ASSUME NEW p \in R!ListeningPorts, R!Dies(p)
      PROVE  RoutesInv'
  BY <1>5, DyingKeeps
<1>6. ASSUME NEW w \in RouteWorkers,
             R!Launches(w) \/ R!ChangesCondition(w) \/ R!RetiresWorker(w) \/ R!AddsWorker(w)
      PROVE  RoutesInv'
  BY <1>6, LaunchKeeps, ConditionKeeps
<1>7. ASSUME NEW j \in Requests, R!JobEnds(j)
      PROVE  RoutesInv'
  BY <1>7, JobEndKeeps
<1>8. ASSUME NEW ids \in Routes, R!Reroutes(ids)
      PROVE  RoutesInv'
  BY <1>8, RerouteKeeps
<1>9. CASE R!GatewayStartsAgain
  BY <1>9, GatewayRestartKeeps
<1>. QED
  BY <1>1, <1>2, <1>3, <1>4, <1>5, <1>6, <1>7, <1>8, <1>9 DEF R!RoutesNext

---------------------------------------------------------------------------
(* What the invariant says of the routes *)

LEMMA RoutesInvGives ==
  RoutesInv => /\ R!RouteTypesOK
               /\ R!ServedByItsWorker /\ R!RolesAgree /\ R!JobsAreFound /\ R!KnownJobsAreNotUnknown
<1> SUFFICES ASSUME RoutesInv
             PROVE  /\ R!RouteTypesOK
                    /\ R!ServedByItsWorker /\ R!RolesAgree /\ R!JobsAreFound /\ R!KnownJobsAreNotUnknown
  OBVIOUS
<1>1. R!RouteTypesOK
  BY DEF RoutesInv, RouteTables
<1>2. R!ServedByItsWorker
  BY DEF RoutesInv, RequestHolds, R!ServedByItsWorker
<1>3. R!RolesAgree
  <2> SUFFICES ASSUME NEW r \in Requests, NEW d \in Discoveries,
                      R!Processed(request[r]), discovery[d].pc = "told",
                      request[r].ids = discovery[d].ids, request[r].worker = discovery[d].selected
               PROVE  (request[r].role = "primary") <=> (discovery[d].reason = "primary_ready")
    BY DEF R!RolesAgree
  <2>1. request[r].worker \in RouteWorkers /\ request[r].role = R!RouteRole(request[r], request[r].worker)
    BY DEF RoutesInv, RequestHolds
  <2>2. discovery[d].reason = "primary_ready" <=>
           discovery[d].selected # None /\ discovery[d].selected = Head(discovery[d].ids)
    BY DEF RoutesInv, DiscoveryHolds
  <2>. QED
    BY <2>1, <2>2, RoutesAssumption DEF R!RouteRole
<1>4. R!JobsAreFound
  BY DEF RoutesInv, JobHolds, R!JobsAreFound
<1>5. R!KnownJobsAreNotUnknown
  BY DEF RoutesInv, PollHolds, R!KnownJobsAreNotUnknown
<1>. QED
  BY <1>1, <1>2, <1>3, <1>4, <1>5

---------------------------------------------------------------------------
(* The registry and the routes *)

RegistryInv == DefinitionsInv /\ RoutesInv

LEMMA RegistryStep == RegistryInv /\ [RegistryNext]_<<definitionVars, requests>> => RegistryInv'
<1> SUFFICES ASSUME RegistryInv, [RegistryNext]_<<definitionVars, requests>> PROVE RegistryInv'
  OBVIOUS
<1>1. [DefinitionsNext]_definitionVars /\ (R!RoutesNext \/ UNCHANGED requests)
  BY DEF RegistryNext
<1>. QED
  BY <1>1, DefinitionsStep, RoutesStep, NothingKeeps DEF RegistryInv

\* The invariant of the registry and the routes.
THEOREM RegistryInvariant == RegistrySpec => []RegistryInv
<1>1. RegistryInit => RegistryInv
  BY DefinitionsInitially, RoutesInitially DEF RegistryInit, RegistryInv
<1>. QED
  BY <1>1, RegistryStep, PTL DEF RegistrySpec

\* The types of both modules, of what handlers remember across an await among them.
THEOREM RegistryIsTyped == RegistrySpec => []RegistryTypesOK
<1>1. RegistryInv => RegistryTypesOK
  BY DefinitionsAreTyped, RoutesInvGives DEF RegistryInv, RegistryTypesOK
<1>. QED
  BY <1>1, RegistryInvariant, PTL

\* Memory, registry and table say the same while requests are routed by them.
THEOREM RegistryAgrees == RegistrySpec => []DefinitionsAgree
<1>1. RegistryInv => DefinitionsAgree
  BY DEF RegistryInv, DefinitionsInv
<1>. QED
  BY <1>1, RegistryInvariant, PTL

\* A port has one Worker, and a live route names Workers that exist and are permitted, with the
\* exceptions the property names (_next_port, _worker_usage, validate_routing_profile).
THEOREM RoutesHold == RegistrySpec => []PublishedRoutesHold
<1>1. RegistryInv => PublishedRoutesHold
  BY DefinitionsInvGives DEF RegistryInv, PublishedRoutesHold
<1>. QED
  BY <1>1, RegistryInvariant, PTL

\* An answer comes from the Worker it names, in the role discovery reports, and a job is looked
\* for where it is, whatever is published, archived or restarted meanwhile (proxy_request,
\* diffuse_request, resolve_job_worker, model_discovery_record).
THEOREM RequestsAreServed == RegistrySpec => []RequestsReachTheirWorker
<1>1. RegistryInv => RequestsReachTheirWorker
  BY RoutesInvGives DEF RegistryInv, RequestsReachTheirWorker
<1>. QED
  BY <1>1, RegistryInvariant, PTL
=============================================================================
