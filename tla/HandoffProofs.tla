---------------------------- MODULE HandoffProofs ----------------------------
(***************************************************************************)
(* Proofs about Handoff: the role is handed over and never lost, for every *)
(* pool, any number of operations and any faults, as long as work is       *)
(* started one at a time (Overlap = FALSE).                                *)
(***************************************************************************)
EXTENDS Handoff, NaturalsInduction, WellFoundedInduction, TLAPS

(* A primary, or about to be one.                                          *)
Lead(n) == Serving(n) \/ inst[n].promoting

InstInv ==
  /\ \A n \in Node : inst[n].promoting => inst[n].running /\ ~inst[n].primary
  /\ \E b \in Nat : \A n \in Node : inst[n].line <= b
  /\ SomePrimary

(* Who works on which node for which primary: a driver, or an operation in *)
(* progress that one may be resumed for.  What allow_async does concerns   *)
(* no data directory, and a handoff that fans out has done its own work.   *)
Claim == [host : Node, op : Nat, kind : {"handoff", "follow", "hook"},
          node : Node, primary : Node]
Drives(d, c) == /\ d.host = c.host /\ d.op = c.op /\ d.kind = c.kind
                /\ d.node = c.node /\ d.primary = c.primary
Opens(c) == /\ c.op \in InProgress(c.host)
            /\ journal[c.host][c.op].kind = c.kind
            /\ journal[c.host][c.op].node = c.node
            /\ journal[c.host][c.op].primary = c.primary
Claims == {c \in Claim : \/ \E d \in drivers : d.sub # "fanout" /\ Drives(d, c)
                         \/ Opens(c)}

(* All work serves one primary, none is done on that primary, no two work  *)
(* on one node, and a handoff or a hook is alone.                          *)
Apart(C) ==
  \A c, e \in C : /\ c.primary = e.primary /\ c.node # c.primary
                  /\ c.node = e.node \/ c.kind # "follow"
                       => c.host = e.host /\ c.op = e.op

(* One handoff at most fans out, and the work there is has come from it.   *)
Fans == {d \in drivers : d.sub = "fanout"}
Spawned(d, C) ==
  \A c \in C : /\ c.kind = "follow" /\ c.host = d.host
               /\ c.primary = d.primary /\ c.op > d.op

ClaimInv == /\ Apart(Claims)
            /\ \A d \in Fans : Spawned(d, Claims) /\ \A e \in Fans : e = d

(* A driver has an entry of its own that it is one step ahead of.          *)
DriverOK(d) ==
  /\ d.at <= Len(Ladder[d.kind])
  /\ d.sub = "wiped" => Step(d) = "copy"
  /\ d.sub = "half" => Step(d) = "conf"
  /\ d.kind = "hook" <=> d.op = 0
  /\ d.kind # "hook" =>
       /\ d.op \in DOMAIN journal[d.host]
       /\ Entry(d).kind = d.kind /\ Entry(d).node = d.node
       /\ Entry(d).primary = d.primary
       /\ Entry(d).status = "InProgress" => Entry(d).phase = d.at - 1
  /\ d.sub = "fanout" => d.kind = "handoff" /\ Entry(d).status = "Done"

DriverInv ==
  /\ \A d \in drivers : DriverOK(d)
  /\ \A d, e \in drivers : d.host = e.host /\ d.op = e.op => d = e

(* What is so after s steps of the ladder of a handoff, of a follow.       *)
Handed(n, p, s) ==
  /\ s >= 1 => Lead(p)
  /\ s <= 2 => Serving(n)
  /\ s >= 2 => n \in slots[p]
  /\ s >= 3 => ~inst[n].promoting
  /\ s \in 3 .. 5 => ~inst[n].running
  /\ s >= 5 => inst[n].signal /\ inst[n].conf = p
  /\ s >= 6 => inst[n].running /\ ~inst[n].primary

Rebased(n, p, s) ==
  /\ Lead(p)
  /\ s >= 2 => ~inst[n].promoting
  /\ s \in 2 .. 4 => ~inst[n].running
  /\ s >= 3 => n \in slots[p]
  /\ s >= 5 => /\ inst[n].signal /\ inst[n].conf = p
               /\ inst[n].running => ~inst[n].primary
  /\ s >= 6 => inst[n].running

Past(d) == IF d.sub = "done" THEN d.at ELSE d.at - 1

DriverStage(d) ==
  /\ d.kind = "handoff" => IF d.sub = "fanout" THEN Lead(d.primary)
                           ELSE Handed(d.node, d.primary, Past(d))
  /\ d.kind = "follow" => Rebased(d.node, d.primary, Past(d))
  /\ d.kind = "hook" => Lead(d.primary)
  /\ d.sub = "half" => inst[d.node].conf = d.primary

(* An entry may be one step behind, which a handoff's resume finds out.    *)
EntryStage(op) ==
  /\ op.phase < Len(Ladder[op.kind])
  /\ op.kind = "handoff" => \/ Handed(op.node, op.primary, op.phase)
                            \/ Handed(op.node, op.primary, op.phase + 1)
  /\ op.kind = "follow" => Rebased(op.node, op.primary, op.phase)

StageInv ==
  /\ \A d \in drivers : DriverStage(d)
  /\ \A h \in Node : \A i \in InProgress(h) : EntryStage(journal[h][i])

IInv == TypeOK /\ InstInv /\ ClaimInv /\ DriverInv /\ StageInv

-----------------------------------------------------------------------------
(* The ladders, step by step.                                              *)
LEMMA Ladders ==
  ASSUME NEW d, d.kind \in DOMAIN Ladder, d.at \in 1 .. Len(Ladder[d.kind])
  PROVE  /\ d.kind \in {"handoff", "follow", "hook", "allow_async"}
         /\ d.kind = "handoff" =>
              /\ Len(Ladder[d.kind]) = 8 /\ d.at \in 1 .. 8
              /\ d.at = 1 => Step(d) = "promote"
              /\ d.at = 2 => Step(d) = "slot"
              /\ d.at = 3 => Step(d) = "stop"
              /\ d.at = 4 => Step(d) = "copy"
              /\ d.at = 5 => Step(d) = "conf"
              /\ d.at = 6 => Step(d) = "start"
              /\ d.at = 7 => Step(d) = "attach"
              /\ d.at = 8 => Step(d) = "complete"
         /\ d.kind = "follow" =>
              /\ Len(Ladder[d.kind]) = 8 /\ d.at \in 1 .. 8
              /\ d.at = 1 => Step(d) = "dial"
              /\ d.at = 2 => Step(d) = "stop"
              /\ d.at = 3 => Step(d) = "slot"
              /\ d.at = 4 => Step(d) = "copy"
              /\ d.at = 5 => Step(d) = "conf"
              /\ d.at = 6 => Step(d) = "start"
              /\ d.at = 7 => Step(d) = "attach"
              /\ d.at = 8 => Step(d) = "complete"
         /\ d.kind = "hook" =>
              /\ Len(Ladder[d.kind]) = 6 /\ d.at \in 1 .. 6
              /\ Step(d) \in {"stop", "slot", "copy", "conf", "start", "attach"}
         /\ d.kind = "allow_async" =>
              Len(Ladder[d.kind]) = 1 /\ d.at = 1 /\ Step(d) = "clear"
<1>1. d.kind \in {"handoff", "follow", "hook", "allow_async"}
  BY DEF Ladder
<1>2. CASE d.kind = "handoff"
  BY <1>2 DEF Ladder, Step
<1>3. CASE d.kind = "follow"
  BY <1>3 DEF Ladder, Step
<1>4. CASE d.kind = "hook"
  BY <1>4 DEF Ladder, Step
<1>5. CASE d.kind = "allow_async"
  BY <1>5 DEF Ladder, Step
<1>6. QED
  BY <1>1, <1>2, <1>3, <1>4, <1>5

(* How many steps each ladder has.                                          *)
LEMMA Lengths ==
  /\ DOMAIN Ladder = {"handoff", "follow", "hook", "allow_async"}
  /\ Len(Ladder["handoff"]) = 8 /\ Len(Ladder["follow"]) = 8
  /\ Len(Ladder["hook"]) = 6 /\ Len(Ladder["allow_async"]) = 1
  BY DEF Ladder

-----------------------------------------------------------------------------
(* What the calls do to an instance.  Alike says that the fields the       *)
(* stages of an operation speak of are unchanged.                          *)
Alike(n) ==
  /\ inst'[n].running = inst[n].running /\ inst'[n].primary = inst[n].primary
  /\ inst'[n].promoting = inst[n].promoting
  /\ inst'[n].conf = inst[n].conf /\ inst'[n].signal = inst[n].signal

Elsewhere(n) == \A m \in Node : m # n => inst'[m] = inst[m]

(* stop_postgres: down, and its data directory as it was.                   *)
LEMMA StopFacts ==
  ASSUME inst \in [Node -> Instance], NEW n \in Node, inst' = Stopped(n)
  PROVE  /\ inst' \in [Node -> Instance] /\ Elsewhere(n)
         /\ ~inst'[n].running /\ ~inst'[n].promoting
         /\ inst'[n].conf = inst[n].conf /\ inst'[n].signal = inst[n].signal
         /\ inst'[n].line = inst[n].line
  BY ZenonT(60) DEF Stopped, Instance, Elsewhere

(* start_postgres: up, as a standby where standby.signal is.                *)
LEMMA StartFacts ==
  ASSUME inst \in [Node -> Instance], NEW n \in Node, inst' = Started(n)
  PROVE  /\ inst' \in [Node -> Instance] /\ Elsewhere(n)
         /\ inst'[n].running /\ inst'[n].promoting = inst[n].promoting
         /\ inst[n].running => inst'[n].primary = inst[n].primary
         /\ ~inst[n].running /\ inst[n].signal => ~inst'[n].primary
         /\ inst'[n].conf = inst[n].conf /\ inst'[n].signal = inst[n].signal
         /\ inst'[n].line = inst[n].line
  BY ZenonT(60) DEF Started, Instance, Elsewhere

(* clear_pgdata_contents leaves the process alone.                          *)
LEMMA ClearFacts ==
  ASSUME inst \in [Node -> Instance], NEW n \in Node, inst' = Cleared(n),
         NoNode \notin Node
  PROVE  /\ inst' \in [Node -> Instance] /\ Elsewhere(n)
         /\ inst'[n].running = inst[n].running
         /\ inst'[n].primary = inst[n].primary
         /\ inst'[n].promoting = inst[n].promoting
         /\ inst'[n].line = inst[n].line
<1>1. inst' = [inst EXCEPT ![n] = [@ EXCEPT
              !.data = "gone", !.conf = NoNode, !.signal = FALSE]]
  BY Zenon DEF Cleared
<1>2. inst' \in [Node -> Instance]
  BY <1>1, ZenonT(60) DEF Instance
<1>3. Elsewhere(n)
  BY <1>1 DEF Elsewhere
<1>4. /\ inst'[n].running = inst[n].running
      /\ inst'[n].primary = inst[n].primary
      /\ inst'[n].promoting = inst[n].promoting
      /\ inst'[n].line = inst[n].line
  BY <1>1 DEF Instance
<1>5. QED
  BY <1>2, <1>3, <1>4

(* A copy leaves the process alone and takes over the timeline.             *)
LEMMA CopyFacts ==
  ASSUME inst \in [Node -> Instance], NEW n \in Node, NEW p \in Node,
         inst' = Copied(n, p)
  PROVE  /\ inst' \in [Node -> Instance] /\ Elsewhere(n)
         /\ inst'[n].running = inst[n].running
         /\ inst'[n].primary = inst[n].primary
         /\ inst'[n].promoting = inst[n].promoting
         /\ inst'[n].line = inst[p].line
<1>1. inst' = [inst EXCEPT ![n] = [@ EXCEPT
              !.data = "good", !.line = inst[p].line, !.stray = FALSE,
              !.conf = inst[p].conf, !.signal = inst[p].signal]]
  BY Zenon DEF Copied
<1>2. inst' \in [Node -> Instance]
  BY <1>1, ZenonT(60) DEF Instance
<1>3. Elsewhere(n)
  BY <1>1 DEF Elsewhere
<1>4. /\ inst'[n].running = inst[n].running
      /\ inst'[n].primary = inst[n].primary
      /\ inst'[n].promoting = inst[n].promoting
      /\ inst'[n].line = inst[p].line
  BY <1>1 DEF Instance
<1>5. QED
  BY <1>2, <1>3, <1>4

(* The first of the two writes of write_recovery_conf.                      *)
LEMMA ConfFacts ==
  ASSUME inst \in [Node -> Instance], NEW n \in Node, NEW p \in Node,
         inst' = ConfWritten(n, p)
  PROVE  /\ inst' \in [Node -> Instance] /\ Elsewhere(n)
         /\ inst'[n].running = inst[n].running
         /\ inst'[n].primary = inst[n].primary
         /\ inst'[n].promoting = inst[n].promoting
         /\ inst'[n].conf = p /\ inst'[n].line = inst[n].line
  BY DEF ConfWritten, Instance, Elsewhere

(* The second of them.                                                      *)
LEMMA SignalFacts ==
  ASSUME inst \in [Node -> Instance], NEW n \in Node, inst' = SignalWritten(n)
  PROVE  /\ inst' \in [Node -> Instance] /\ Elsewhere(n)
         /\ inst'[n].running = inst[n].running
         /\ inst'[n].primary = inst[n].primary
         /\ inst'[n].promoting = inst[n].promoting
         /\ inst'[n].conf = inst[n].conf /\ inst'[n].signal
         /\ inst'[n].line = inst[n].line
  BY DEF SignalWritten, Instance, Elsewhere

(* pg_promote(false) only signals.                                          *)
LEMMA SignalledFacts ==
  ASSUME inst \in [Node -> Instance], NEW n \in Node, inst' = Signalled(n)
  PROVE  /\ inst' \in [Node -> Instance] /\ Elsewhere(n)
         /\ inst'[n].running = inst[n].running
         /\ inst'[n].primary = inst[n].primary /\ inst'[n].promoting
         /\ inst'[n].line = inst[n].line
  BY DEF Signalled, Instance, Elsewhere

(* The timelines of a pool have a greatest one.                            *)
LEMMA LeastNumber ==
  ASSUME NEW T \in SUBSET Nat, T # {}
  PROVE  \E x \in T : \A y \in T : x <= y
<1>1. PICK x \in T : \A y \in T : ~(<<y, x>> \in OpToRel(<, Nat))
  BY NatLessThanWellFounded, WFMin, Zenon
<1>2. \A y \in T : ~(y < x)
  BY <1>1 DEF OpToRel
<1>3. QED
  BY <1>2

(* A set of bounded numbers has its maximum as a member.                    *)
LEMMA MaxBelow ==
  ASSUME NEW b \in Nat, NEW T \in SUBSET (0 .. b), T # {}
  PROVE  Max(T) \in T
<1> DEFINE U == {b - x : x \in T}
<1>1. U \in SUBSET Nat /\ U # {}
  <2>1. \A x \in T : b - x \in Nat
    OBVIOUS
  <2>2. PICK x \in T : TRUE
    OBVIOUS
  <2>3. b - x \in U
    OBVIOUS
  <2>4. QED
    BY <2>1, <2>3
<1>2. PICK u \in U : \A y \in U : u <= y
  BY <1>1, LeastNumber
<1>3. PICK x \in T : u = b - x
  OBVIOUS
<1>4. \A y \in T : x >= y
  <2> TAKE y \in T
  <2>1. b - x <= b - y
    BY <1>2, <1>3
  <2>2. QED
    BY <2>1
<1>5. \E z \in T : \A y \in T : z >= y
  BY <1>4
<1>6. QED
  BY <1>5 DEF Max

(* A new timeline is a number, one above those in use.                      *)
LEMMA NewLineFacts ==
  ASSUME inst \in [Node -> Instance], NEW b \in Nat,
         \A n \in Node : inst[n].line <= b
  PROVE  NewLine \in Nat /\ NewLine <= b + 1
<1> DEFINE T == {inst[n].line : n \in Node}
<1>1. \A n \in Node : inst[n].line \in 0 .. b
  BY DEF Instance
<1>2. T \in SUBSET (0 .. b)
  BY <1>1
<1>3. T # {}
  <2>1. Primary \in Node
    BY HandoffAssumption
  <2>2. inst[Primary].line \in T
    BY <2>1
  <2>3. QED
    BY <2>2
<1>4. Max(T) \in T
  BY <1>2, <1>3, MaxBelow
<1>5. Max(T) \in 0 .. b
  BY <1>2, <1>4
<1>6. NewLine = 1 + Max(T)
  BY DEF NewLine
<1> HIDE DEF T
<1>7. QED
  BY <1>5, <1>6

(* The end of a promotion.                                                  *)
LEMMA PromotedFacts ==
  ASSUME inst \in [Node -> Instance], NEW n \in Node, inst' = Promoted(n),
         NEW b \in Nat, \A m \in Node : inst[m].line <= b
  PROVE  /\ inst' \in [Node -> Instance] /\ Elsewhere(n)
         /\ inst'[n].running = inst[n].running
         /\ inst'[n].primary /\ ~inst'[n].promoting
         /\ inst'[n].conf = inst[n].conf
         /\ inst'[n].line <= b + 1
<1>0. NewLine \in Nat /\ NewLine <= b + 1
  BY NewLineFacts
<1>1. inst' = [inst EXCEPT ![n] = [@ EXCEPT
              !.primary = TRUE, !.promoting = FALSE, !.signal = FALSE,
              !.line = NewLine]]
  BY Zenon DEF Promoted
<1>2. inst' \in [Node -> Instance]
  BY <1>0, <1>1, ZenonT(60) DEF Instance
<1>3. Elsewhere(n)
  BY <1>1 DEF Elsewhere
<1>4. /\ inst'[n].running = inst[n].running
      /\ inst'[n].primary /\ ~inst'[n].promoting
      /\ inst'[n].conf = inst[n].conf
      /\ inst'[n].line <= b + 1
  BY <1>0, <1>1 DEF Instance
<1>5. QED
  BY <1>2, <1>3, <1>4

-----------------------------------------------------------------------------
(* What a successful step changes.                                         *)
LEMMA DriverShape ==
  ASSUME TypeOK, DriverInv, NEW d \in drivers
  PROVE  /\ d \in Driver /\ DriverOK(d)
         /\ d.kind \in DOMAIN Ladder /\ d.at \in 1 .. Len(Ladder[d.kind])
         /\ d.host \in Node /\ d.node \in Node /\ d.primary \in Node /\ d.op \in Nat
<1>1. d \in Driver /\ DriverOK(d)
  BY DEF TypeOK, DriverInv
<1>2. d.at \in Nat /\ d.at >= 1 /\ d.at <= Len(Ladder[d.kind])
  BY <1>1 DEF Driver, DriverOK
<1>3. Len(Ladder[d.kind]) \in Nat
  BY <1>1, Lengths DEF Driver
<1>4. QED
  BY <1>1, <1>2, <1>3 DEF Driver

(* The effects of the steps, one case for each step name.                   *)
LEMMA DoCases ==
  ASSUME TypeOK, DriverInv, NEW d \in drivers, Do(d)
  PROVE  \/ /\ Step(d) = "promote" /\ d.kind = "handoff" /\ d.at = 1
            /\ Promotable(d.primary)
            /\ inst' = Signalled(d.primary) /\ slots' = slots
         \/ /\ Step(d) = "stop"
            /\ inst' = Stopped(d.node) /\ slots' = slots
         \/ /\ Step(d) = "slot"
            /\ inst' = inst /\ slots' = SlotCreated(d.primary, d.node)
         \/ /\ Step(d) = "copy"
            /\ inst' = inst \/ inst' = Copied(d.node, d.primary)
            /\ slots' = SlotsCleaned(d.node)
         \/ /\ Step(d) = "conf" /\ d.sub = "todo"
            /\ inst' = ConfWritten(d.node, d.primary) /\ slots' = slots
         \/ /\ Step(d) = "conf" /\ d.sub = "half"
            /\ inst' = SignalWritten(d.node) /\ slots' = slots
         \/ /\ Step(d) = "start"
            /\ inst' = Started(d.node) /\ slots' = slots
         \/ /\ Step(d) \in {"attach", "dial", "clear"}
            /\ inst' = inst /\ slots' = slots
<1>1. /\ d \in Driver /\ DriverOK(d)
      /\ d.kind \in DOMAIN Ladder /\ d.at \in 1 .. Len(Ladder[d.kind])
  BY DriverShape
<1>2. Step(d) \in {"promote", "slot", "stop", "copy", "conf", "start", "attach",
                   "dial", "clear"}
      /\ (Step(d) = "promote" => d.kind = "handoff" /\ d.at = 1)
  BY <1>1, Ladders DEF Do
<1>3. /\ d.sub \in {"todo", "wiped", "half"} /\ Able(d)
      /\ d.sub = "wiped" => Step(d) = "copy"
      /\ d.sub = "half" => Step(d) = "conf"
  BY <1>1 DEF Do, DriverOK
<1>4. /\ inst' = StepEffect(d)
      /\ slots' = CASE Step(d) = "slot" -> SlotCreated(d.primary, d.node)
                    [] Step(d) = "copy" -> SlotsCleaned(d.node)
                    [] OTHER            -> slots
  BY DEF Do
<1>5. CASE Step(d) = "promote"
  BY <1>2, <1>3, <1>4, <1>5 DEF StepEffect, Able
<1>6. CASE Step(d) = "stop"
  BY <1>4, <1>6 DEF StepEffect
<1>7. CASE Step(d) = "slot"
  BY <1>4, <1>7 DEF StepEffect
<1>8. CASE Step(d) = "copy"
  <2>1. d.sub \in {"todo", "wiped"}
    BY <1>3, <1>8
  <2>2. slots' = SlotsCleaned(d.node)
    BY <1>4, <1>8
  <2>3. inst' = IF d.sub = "todo" THEN Rewound(d.node, d.primary)
                                  ELSE Copied(d.node, d.primary)
    BY <1>4, <1>8, <2>1 DEF StepEffect
  <2>4. QED
    BY <1>8, <2>2, <2>3 DEF Rewound
<1>9. CASE Step(d) = "conf"
  <2>1. d.sub \in {"todo", "half"}
    BY <1>3, <1>9
  <2>2. slots' = slots
    BY <1>4, <1>9
  <2>3. inst' = IF d.sub = "todo" THEN ConfWritten(d.node, d.primary)
                                  ELSE SignalWritten(d.node)
    BY <1>4, <1>9, <2>1 DEF StepEffect
  <2>4. QED
    BY <1>9, <2>1, <2>2, <2>3
<1>10. CASE Step(d) = "start"
  BY <1>4, <1>10 DEF StepEffect
<1>11. CASE Step(d) \in {"attach", "dial", "clear"}
  BY <1>4, <1>11 DEF StepEffect
<1>12. QED
  BY <1>2, <1>5, <1>6, <1>7, <1>8, <1>9, <1>10, <1>11

(* The slots a step creates, drops or cleans.                              *)
LEMMA SlotFacts ==
  ASSUME slots \in [Node -> SUBSET Node], NEW n \in Node, NEW p \in Node, n # p,
         \/ slots' = slots \/ slots' = SlotCreated(p, n)
         \/ slots' = SlotsCleaned(n) \/ slots' = SlotDropped(p, n)
  PROVE  /\ slots' \in [Node -> SUBSET Node]
         /\ \A m \in Node : m # n /\ m \in slots[p] => m \in slots'[p]
         /\ slots' = SlotCreated(p, n) => n \in slots'[p]
         /\ slots' # SlotDropped(p, n) /\ n \in slots[p] => n \in slots'[p]
  BY DEF SlotCreated, SlotsCleaned, SlotDropped

(* A stage lasts as long as its node, its primary and its slot do.         *)
LEMMA LeadKept ==
  ASSUME NEW n \in Node, Alike(n)
  PROVE  Lead(n)' <=> Lead(n)
  BY DEF Alike, Lead, Serving

(* A stage lasts as long as what it speaks of is unchanged.                 *)
LEMMA HandedKept ==
  ASSUME NEW n \in Node, NEW p \in Node, NEW s, Handed(n, p, s), Alike(n),
         Lead(p) => Lead(p)', n \in slots[p] => n \in slots'[p]
  PROVE  Handed(n, p, s)'
  BY DEF Handed, Alike, Serving

(* So does a stage of a follow.                                             *)
LEMMA RebasedKept ==
  ASSUME NEW n \in Node, NEW p \in Node, NEW s, Rebased(n, p, s), Alike(n),
         Lead(p) => Lead(p)', n \in slots[p] => n \in slots'[p]
  PROVE  Rebased(n, p, s)'
  BY DEF Rebased, Alike

(* A step of a handoff takes it from one stage to the next.                *)
LEMMA HandoffStep ==
  ASSUME TypeOK, InstInv, DriverInv, NEW d \in drivers, Do(d),
         d.kind = "handoff", d.node # d.primary,
         Handed(d.node, d.primary, d.at - 1),
         d.sub = "half" => inst[d.node].conf = d.primary
  PROVE  IF Step(d) = "conf" /\ d.sub = "todo"
         THEN Handed(d.node, d.primary, d.at - 1)' /\ inst'[d.node].conf = d.primary
         ELSE Handed(d.node, d.primary, d.at)'
<1> DEFINE n == d.node
           p == d.primary
<1>1. /\ d.kind \in DOMAIN Ladder /\ d.at \in 1 .. Len(Ladder[d.kind])
      /\ n \in Node /\ p \in Node
  BY DriverShape
<1>2. /\ d.at \in 1 .. 7
      /\ d.at = 1 => Step(d) = "promote"
      /\ d.at = 2 => Step(d) = "slot"
      /\ d.at = 3 => Step(d) = "stop"
      /\ d.at = 4 => Step(d) = "copy"
      /\ d.at = 5 => Step(d) = "conf"
      /\ d.at = 6 => Step(d) = "start"
      /\ d.at = 7 => Step(d) = "attach"
  BY <1>1, Ladders DEF Do
<1>3. /\ inst \in [Node -> Instance] /\ slots \in [Node -> SUBSET Node]
      /\ \A m \in Node : inst[m].promoting => inst[m].running /\ ~inst[m].primary
  BY DEF TypeOK, InstInv
<1>4. n # p /\ Handed(n, p, d.at - 1) /\ (d.sub = "half" => inst[n].conf = p)
  OBVIOUS
<1> HIDE DEF n, p
<1>5. CASE d.at = 1
  <2>1. inst' = Signalled(p) /\ slots' = slots
    BY <1>2, <1>5, DoCases DEF p
  <2>2. inst'[n] = inst[n] /\ inst'[p].promoting
    BY <1>1, <1>3, <1>4, <2>1, SignalledFacts DEF Elsewhere
  <2>3. QED
    BY <1>2, <1>4, <1>5, <2>2 DEF Handed, Lead, Serving, n, p
<1>6. CASE d.at = 2
  <2>1. inst' = inst /\ slots' = SlotCreated(p, n)
    BY <1>2, <1>6, DoCases DEF n, p
  <2>2. n \in slots'[p]
    BY <1>1, <1>3, <1>4, <2>1, SlotFacts
  <2>3. QED
    BY <1>2, <1>4, <1>6, <2>1, <2>2 DEF Handed, Lead, Serving, n, p
<1>7. CASE d.at = 3
  <2>1. inst' = Stopped(n) /\ slots' = slots
    BY <1>2, <1>7, DoCases DEF n
  <2>2. inst'[p] = inst[p] /\ ~inst'[n].running /\ ~inst'[n].promoting
    BY <1>1, <1>3, <1>4, <2>1, StopFacts DEF Elsewhere
  <2>3. QED
    BY <1>2, <1>4, <1>7, <2>1, <2>2 DEF Handed, Lead, Serving, n, p
<1>8. CASE d.at = 4
  <2>1. inst' = inst \/ inst' = Copied(n, p)
    BY <1>2, <1>8, DoCases DEF n, p
  <2>2. slots' = SlotsCleaned(n)
    BY <1>2, <1>8, DoCases DEF n, p
  <2>3. /\ inst'[p] = inst[p] /\ inst'[n].running = inst[n].running
        /\ inst'[n].promoting = inst[n].promoting
    BY <1>1, <1>3, <1>4, <2>1, CopyFacts DEF Elsewhere
  <2>4. n \in slots[p] => n \in slots'[p]
    BY <1>1, <1>3, <1>4, <2>2 DEF SlotsCleaned
  <2>5. QED
    BY <1>2, <1>4, <1>8, <2>3, <2>4 DEF Handed, Lead, Serving, n, p
<1>9. CASE d.at = 5 /\ d.sub = "todo"
  <2>1. inst' = ConfWritten(n, p) /\ slots' = slots
    BY <1>2, <1>9, DoCases DEF n, p
  <2>2. /\ inst'[p] = inst[p] /\ inst'[n].running = inst[n].running
        /\ inst'[n].promoting = inst[n].promoting /\ inst'[n].conf = p
    BY <1>1, <1>3, <1>4, <2>1, ConfFacts DEF Elsewhere
  <2>3. QED
    BY <1>2, <1>4, <1>9, <2>1, <2>2 DEF Handed, Lead, Serving, n, p
<1>10. CASE d.at = 5 /\ d.sub # "todo"
  <2>1. inst' = SignalWritten(n) /\ slots' = slots /\ inst[n].conf = p
    BY <1>2, <1>4, <1>10, DoCases DEF n, p
  <2>2. /\ inst'[p] = inst[p] /\ inst'[n].running = inst[n].running
        /\ inst'[n].promoting = inst[n].promoting
        /\ inst'[n].conf = inst[n].conf /\ inst'[n].signal
    BY <1>1, <1>3, <1>4, <2>1, SignalFacts DEF Elsewhere
  <2>3. QED
    BY <1>2, <1>4, <1>10, <2>1, <2>2 DEF Handed, Lead, Serving, n, p
<1>11. CASE d.at = 6
  <2>1. inst' = Started(n) /\ slots' = slots
    BY <1>2, <1>11, DoCases DEF n
  <2>2. /\ inst'[p] = inst[p] /\ inst'[n].running
        /\ inst'[n].promoting = inst[n].promoting
        /\ ~inst[n].running /\ inst[n].signal => ~inst'[n].primary
        /\ inst'[n].conf = inst[n].conf /\ inst'[n].signal = inst[n].signal
    BY <1>1, <1>3, <1>4, <2>1, StartFacts DEF Elsewhere
  <2>3. QED
    BY <1>2, <1>4, <1>11, <2>1, <2>2 DEF Handed, Lead, Serving, n, p
<1>12. CASE d.at = 7
  <2>1. inst' = inst /\ slots' = slots
    BY <1>2, <1>12, DoCases
  <2>2. QED
    BY <1>2, <1>4, <1>12, <2>1 DEF Handed, Lead, Serving, n, p
<1>13. QED
  BY <1>2, <1>5, <1>6, <1>7, <1>8, <1>9, <1>10, <1>11, <1>12

(* A step of a follow does, and keeps the stage its entry stands for.      *)
LEMMA FollowStep ==
  ASSUME TypeOK, InstInv, DriverInv, NEW d \in drivers, Do(d),
         d.kind = "follow", d.node # d.primary,
         Rebased(d.node, d.primary, d.at - 1),
         d.sub = "half" => inst[d.node].conf = d.primary
  PROVE  /\ Rebased(d.node, d.primary, d.at - 1)'
         /\ IF Step(d) = "conf" /\ d.sub = "todo"
            THEN inst'[d.node].conf = d.primary
            ELSE Rebased(d.node, d.primary, d.at)'
<1> DEFINE n == d.node
           p == d.primary
<1>1. /\ d.kind \in DOMAIN Ladder /\ d.at \in 1 .. Len(Ladder[d.kind])
      /\ n \in Node /\ p \in Node
  BY DriverShape
<1>2. /\ d.at \in 1 .. 7
      /\ d.at = 1 => Step(d) = "dial"
      /\ d.at = 2 => Step(d) = "stop"
      /\ d.at = 3 => Step(d) = "slot"
      /\ d.at = 4 => Step(d) = "copy"
      /\ d.at = 5 => Step(d) = "conf"
      /\ d.at = 6 => Step(d) = "start"
      /\ d.at = 7 => Step(d) = "attach"
  BY <1>1, Ladders DEF Do
<1>3. /\ inst \in [Node -> Instance] /\ slots \in [Node -> SUBSET Node]
      /\ \A m \in Node : inst[m].promoting => inst[m].running /\ ~inst[m].primary
  BY DEF TypeOK, InstInv
<1>4. n # p /\ Rebased(n, p, d.at - 1) /\ (d.sub = "half" => inst[n].conf = p)
  OBVIOUS
<1> HIDE DEF n, p
<1>5. CASE d.at \in {1, 7}
  <2>1. inst' = inst /\ slots' = slots
    BY <1>2, <1>5, DoCases
  <2>2. QED
    BY <1>2, <1>4, <1>5, <2>1 DEF Rebased, Lead, Serving, n, p
<1>6. CASE d.at = 2
  <2>1. inst' = Stopped(n) /\ slots' = slots
    BY <1>2, <1>6, DoCases DEF n
  <2>2. inst'[p] = inst[p] /\ ~inst'[n].running /\ ~inst'[n].promoting
    BY <1>1, <1>3, <1>4, <2>1, StopFacts DEF Elsewhere
  <2>3. QED
    BY <1>2, <1>4, <1>6, <2>1, <2>2 DEF Rebased, Lead, Serving, n, p
<1>7. CASE d.at = 3
  <2>1. inst' = inst /\ slots' = SlotCreated(p, n)
    BY <1>2, <1>7, DoCases DEF n, p
  <2>2. n \in slots'[p]
    BY <1>1, <1>3, <1>4, <2>1, SlotFacts
  <2>3. QED
    BY <1>2, <1>4, <1>7, <2>1, <2>2 DEF Rebased, Lead, Serving, n, p
<1>8. CASE d.at = 4
  <2>1. inst' = inst \/ inst' = Copied(n, p)
    BY <1>2, <1>8, DoCases DEF n, p
  <2>2. slots' = SlotsCleaned(n)
    BY <1>2, <1>8, DoCases DEF n, p
  <2>3. /\ inst'[p] = inst[p] /\ inst'[n].running = inst[n].running
        /\ inst'[n].promoting = inst[n].promoting
    BY <1>1, <1>3, <1>4, <2>1, CopyFacts DEF Elsewhere
  <2>4. n \in slots[p] => n \in slots'[p]
    BY <1>1, <1>3, <1>4, <2>2 DEF SlotsCleaned
  <2>5. QED
    BY <1>2, <1>4, <1>8, <2>3, <2>4 DEF Rebased, Lead, Serving, n, p
<1>9. CASE d.at = 5 /\ d.sub = "todo"
  <2>1. inst' = ConfWritten(n, p) /\ slots' = slots
    BY <1>2, <1>9, DoCases DEF n, p
  <2>2. /\ inst'[p] = inst[p] /\ inst'[n].running = inst[n].running
        /\ inst'[n].promoting = inst[n].promoting /\ inst'[n].conf = p
    BY <1>1, <1>3, <1>4, <2>1, ConfFacts DEF Elsewhere
  <2>3. QED
    BY <1>2, <1>4, <1>9, <2>1, <2>2 DEF Rebased, Lead, Serving, n, p
<1>10. CASE d.at = 5 /\ d.sub # "todo"
  <2>1. inst' = SignalWritten(n) /\ slots' = slots /\ inst[n].conf = p
    BY <1>2, <1>4, <1>10, DoCases DEF n, p
  <2>2. /\ inst'[p] = inst[p] /\ inst'[n].running = inst[n].running
        /\ inst'[n].promoting = inst[n].promoting
        /\ inst'[n].conf = inst[n].conf /\ inst'[n].signal
    BY <1>1, <1>3, <1>4, <2>1, SignalFacts DEF Elsewhere
  <2>3. QED
    BY <1>2, <1>4, <1>10, <2>1, <2>2 DEF Rebased, Lead, Serving, n, p
<1>11. CASE d.at = 6
  <2>1. inst' = Started(n) /\ slots' = slots
    BY <1>2, <1>11, DoCases DEF n
  <2>2. /\ inst'[p] = inst[p] /\ inst'[n].running
        /\ inst'[n].promoting = inst[n].promoting
        /\ inst[n].running => inst'[n].primary = inst[n].primary
        /\ ~inst[n].running /\ inst[n].signal => ~inst'[n].primary
        /\ inst'[n].conf = inst[n].conf /\ inst'[n].signal = inst[n].signal
    BY <1>1, <1>3, <1>4, <2>1, StartFacts DEF Elsewhere
  <2>3. QED
    BY <1>2, <1>4, <1>11, <2>1, <2>2 DEF Rebased, Lead, Serving, n, p
<1>12. QED
  BY <1>2, <1>5, <1>6, <1>7, <1>8, <1>9, <1>10, <1>11

-----------------------------------------------------------------------------
(* Who works where.                                                        *)
ClaimOf(d) == [host |-> d.host, op |-> d.op, kind |-> d.kind,
               node |-> d.node, primary |-> d.primary]
ClaimAt(h, i) == [host |-> h, op |-> i, kind |-> journal[h][i].kind,
                  node |-> journal[h][i].node, primary |-> journal[h][i].primary]

(* What a journal holds.                                                    *)
LEMMA EntryShape ==
  ASSUME TypeOK, NEW h \in Node
  PROVE  /\ Len(journal[h]) \in Nat /\ DOMAIN journal[h] = 1 .. Len(journal[h])
         /\ \A i \in DOMAIN journal[h] : i \in Nat /\ i # 0 /\ journal[h][i] \in InflightOp
         /\ InProgress(h) \subseteq DOMAIN journal[h]
<1>1. journal[h] \in Seq(InflightOp)
  BY DEF TypeOK
<1>2. QED
  BY <1>1 DEF InProgress

(* A driver claims the node it works on.                                    *)
LEMMA DriverClaims ==
  ASSUME TypeOK, DriverInv, NEW d \in drivers, d.kind # "allow_async",
         d.sub # "fanout"
  PROVE  ClaimOf(d) \in Claims
<1>1. /\ d.host \in Node /\ d.node \in Node /\ d.primary \in Node /\ d.op \in Nat
      /\ d.kind \in {"handoff", "follow", "hook"}
  BY DriverShape, Lengths
<1>2. ClaimOf(d) \in Claim
  BY <1>1 DEF ClaimOf, Claim
<1>3. Drives(d, ClaimOf(d))
  BY DEF Drives, ClaimOf
<1>4. QED
  BY <1>2, <1>3 DEF Claims

(* So does an entry in progress.                                            *)
LEMMA EntryClaims ==
  ASSUME TypeOK, NEW h \in Node, NEW i \in InProgress(h),
         journal[h][i].kind # "allow_async"
  PROVE  ClaimAt(h, i) \in Claims
<1>1. i \in Nat /\ journal[h][i] \in InflightOp
  BY EntryShape
<1>2. ClaimAt(h, i) \in Claim
  BY <1>1 DEF ClaimAt, Claim, InflightOp
<1>3. Opens(ClaimAt(h, i))
  BY DEF Opens, ClaimAt
<1>4. QED
  BY <1>2, <1>3 DEF Claims

(* Two drivers work for one primary, on two nodes.                          *)
LEMMA ApartDrivers ==
  ASSUME TypeOK, ClaimInv, DriverInv, NEW d \in drivers, NEW e \in drivers,
         d.kind # "allow_async", e.kind # "allow_async",
         d.sub # "fanout", e.sub # "fanout"
  PROVE  /\ d.primary = e.primary /\ d.node # d.primary /\ e.node # d.primary
         /\ d # e => /\ d.node # e.node
                     /\ d.kind = "follow" /\ e.kind = "follow"
<1> DEFINE c == ClaimOf(d)
           k == ClaimOf(e)
<1>1. c \in Claims /\ k \in Claims
  BY DriverClaims
<1>2. /\ c.primary = k.primary /\ c.node # c.primary /\ k.node # k.primary
      /\ c.node = k.node \/ c.kind # "follow" \/ k.kind # "follow"
           => c.host = k.host /\ c.op = k.op
  BY <1>1 DEF ClaimInv, Apart
<1>3. QED
  BY <1>2 DEF ClaimOf, DriverInv

(* So do a driver and the entry of another operation.                       *)
LEMMA ApartEntries ==
  ASSUME TypeOK, ClaimInv, DriverInv, NEW d \in drivers, d.kind # "allow_async",
         d.sub # "fanout", NEW h \in Node, NEW i \in InProgress(h), NEW op, op = journal[h][i],
         op.kind # "allow_async"
  PROVE  /\ d.primary = op.primary /\ d.node # d.primary /\ op.node # d.primary
         /\ ~(d.host = h /\ d.op = i) => /\ d.node # op.node
                                         /\ d.kind = "follow" /\ op.kind = "follow"
<1> DEFINE c == ClaimOf(d)
           k == ClaimAt(h, i)
<1>1. c \in Claims /\ k \in Claims
  BY DriverClaims, EntryClaims
<1>2. /\ c.primary = k.primary /\ c.node # c.primary /\ k.node # k.primary
      /\ c.node = k.node \/ c.kind # "follow" \/ k.kind # "follow"
           => c.host = k.host /\ c.op = k.op
  BY <1>1 DEF ClaimInv, Apart
<1>3. QED
  BY <1>2 DEF ClaimOf, ClaimAt

(* Work on one node leaves the stages of all other work as they are.       *)
LEMMA OthersKept ==
  ASSUME IInv, NEW d \in drivers,
         d.kind # "allow_async", d.sub # "fanout",
         d.kind # "handoff" => Elsewhere(d.node),
         \/ slots' = slots \/ slots' = SlotCreated(d.primary, d.node)
         \/ slots' = SlotsCleaned(d.node) \/ slots' = SlotDropped(d.primary, d.node)
  PROVE  /\ \A e \in drivers : e # d => DriverStage(e)'
         /\ \A h \in Node : \A i \in InProgress(h) : \A op :
              op = journal[h][i] /\ ~(d.host = h /\ d.op = i) => EntryStage(op)'
<1>1. TypeOK /\ ClaimInv /\ DriverInv /\ StageInv /\ d.node \in Node /\ d.primary \in Node
  BY DriverShape DEF IInv
<1>2. d.node # d.primary
  BY <1>1, ApartDrivers
<1>3. \A m \in Node : m # d.node /\ m \in slots[d.primary] => m \in slots'[d.primary]
  BY <1>1, <1>2, SlotFacts DEF TypeOK
<1>4. ASSUME NEW m \in Node, m # d.node, d.kind = "follow"
      PROVE  Alike(m) /\ (Lead(d.primary) => Lead(d.primary)')
  <2>1. inst'[m] = inst[m] /\ inst'[d.primary] = inst[d.primary]
    BY <1>1, <1>2, <1>4 DEF Elsewhere
  <2>2. QED
    BY <2>1 DEF Alike, Lead, Serving
<1>5. ASSUME NEW e \in drivers, e # d
      PROVE  DriverStage(e)'
  <2>1. DriverStage(e) /\ e.node \in Node /\ e.primary \in Node
    BY <1>1, DriverShape DEF StageInv
  <2>2. CASE e.kind = "allow_async"
    <3>1. Step(e) = "clear" /\ DriverOK(e)
      BY <1>1, <2>2, DriverShape, Ladders
    <3>2. QED
      BY <2>2, <3>1 DEF DriverStage, DriverOK
  <2>3. CASE e.sub = "fanout"
    <3>1. ClaimOf(d) \in Claims /\ e \in Fans
      BY <1>1, <2>3, DriverClaims DEF Fans
    <3>2. Spawned(e, Claims)
      BY <1>1, <3>1 DEF ClaimInv
    <3>3. d.kind = "follow" /\ d.primary = e.primary
      BY <3>1, <3>2 DEF Spawned, ClaimOf
    <3>4. e.kind = "handoff" /\ DriverOK(e)
      BY <1>1, <2>3, DriverShape DEF DriverOK
    <3>5. Lead(e.primary)
      BY <2>1, <2>3, <3>4 DEF DriverStage
    <3>6. Lead(e.primary)'
      BY <1>1, <1>2, <1>4, <3>3, <3>5
    <3>7. QED
      BY <2>3, <3>4, <3>6 DEF DriverStage
  <2>4. CASE e.kind # "allow_async" /\ e.sub # "fanout"
    <3>1. /\ e.primary = d.primary /\ e.node # d.node
          /\ d.kind = "follow" /\ e.kind = "follow"
      BY <1>1, <1>5, <2>4, ApartDrivers
    <3>2. Alike(e.node) /\ (Lead(e.primary) => Lead(e.primary)')
      BY <1>4, <2>1, <3>1
    <3>3. Rebased(e.node, e.primary, Past(e))'
      BY <1>3, <2>1, <3>1, <3>2, RebasedKept DEF DriverStage
    <3>4. QED
      BY <2>1, <3>1, <3>2, <3>3 DEF DriverStage, Alike
  <2>5. QED
    BY <2>2, <2>3, <2>4
<1>6. ASSUME NEW h \in Node, NEW i \in InProgress(h), NEW op, op = journal[h][i],
             ~(d.host = h /\ d.op = i)
      PROVE  EntryStage(op)'
  <2>1. EntryStage(op) /\ op \in InflightOp
    BY <1>1, <1>6, EntryShape DEF StageInv
  <2>2. CASE op.kind = "allow_async"
    BY <2>1, <2>2 DEF EntryStage
  <2>3. CASE op.kind # "allow_async"
    <3>1. /\ op.primary = d.primary /\ op.node # d.node
          /\ d.kind = "follow" /\ op.kind = "follow"
      BY <1>1, <1>6, <2>3, ApartEntries
    <3>2. op.node \in Node /\ op.primary \in Node
      BY <2>1 DEF InflightOp
    <3>3. Alike(op.node) /\ (Lead(op.primary) => Lead(op.primary)')
      BY <1>4, <3>1, <3>2
    <3>4. Rebased(op.node, op.primary, op.phase)'
      BY <1>3, <2>1, <3>1, <3>2, <3>3, RebasedKept DEF EntryStage
    <3>5. QED
      BY <2>1, <3>1, <3>4 DEF EntryStage
  <2>4. QED
    BY <2>2, <2>3
<1>7. QED
  BY <1>5, <1>6

-----------------------------------------------------------------------------
(* The instances after a step on one of them.                              *)
LEMMA InstKept ==
  ASSUME TypeOK, InstInv, NEW n \in Node, Elsewhere(n),
         inst' \in [Node -> Instance],
         inst'[n].promoting => inst'[n].running /\ ~inst'[n].primary,
         NEW m \in Node, inst'[n].line <= inst[m].line + 1,
         NEW l \in Node, Lead(l)'
  PROVE  InstInv'
<1>1. \A k \in Node : inst'[k].promoting => inst'[k].running /\ ~inst'[k].primary
  BY DEF InstInv, Elsewhere
<1>2. PICK b \in Nat : \A k \in Node : inst[k].line <= b
  BY DEF InstInv
<1>3. \A k \in Node : inst[k].line \in Nat /\ inst'[k].line \in Nat
  BY DEF TypeOK, Instance
<1>4. \A k \in Node : inst'[k].line <= b + 1
  BY <1>2, <1>3 DEF Elsewhere
<1>5. b + 1 \in Nat
  OBVIOUS
<1>6. \E c \in Nat : \A k \in Node : inst'[k].line <= c
  BY <1>4, <1>5
<1>7. SomePrimary'
  BY DEF SomePrimary, Lead
<1>8. QED
  BY <1>1, <1>6, <1>7 DEF InstInv

(* The invariant names a primary.                                           *)
LEMMA SomeLead ==
  ASSUME InstInv
  PROVE  \E l \in Node : Lead(l)
  BY DEF InstInv, SomePrimary, Lead

(* The instances stay well formed, and some primary stays.                  *)
LEMMA DoInst ==
  ASSUME IInv, NEW d \in drivers, Do(d)
  PROVE  /\ inst' \in [Node -> Instance] /\ slots' \in [Node -> SUBSET Node]
         /\ InstInv'
         /\ d.kind # "handoff" => Elsewhere(d.node)
         /\ \/ slots' = slots \/ slots' = SlotCreated(d.primary, d.node)
            \/ slots' = SlotsCleaned(d.node)
         /\ d.kind = "allow_async" => inst' = inst /\ slots' = slots
<1> DEFINE n == d.node
           p == d.primary
<1>1. /\ TypeOK /\ InstInv /\ ClaimInv /\ DriverInv /\ DriverStage(d)
  BY DEF IInv, StageInv
<1>2. /\ d.kind \in DOMAIN Ladder /\ d.at \in 1 .. Len(Ladder[d.kind])
      /\ n \in Node /\ p \in Node /\ DriverOK(d)
  BY <1>1, DriverShape
<1>3. /\ inst \in [Node -> Instance] /\ slots \in [Node -> SUBSET Node]
      /\ \A m \in Node : inst[m].promoting => inst[m].running /\ ~inst[m].primary
  BY <1>1 DEF TypeOK, InstInv
<1>4. d.kind = "allow_async" => inst' = inst /\ slots' = slots
  BY <1>1, <1>2, DoCases, Ladders
<1>5. \/ slots' = slots \/ slots' = SlotCreated(p, n) \/ slots' = SlotsCleaned(n)
  BY <1>1, DoCases
<1>6. slots' \in [Node -> SUBSET Node]
  BY <1>2, <1>3, <1>5 DEF SlotCreated, SlotsCleaned
<1>7. PICK l \in Node : Lead(l)
  BY <1>1, SomeLead
<1>8. inst[n].line \in Nat /\ inst[p].line \in Nat
  BY <1>2, <1>3 DEF Instance
<1>9. CASE Step(d) = "promote"
  <2>1. d.kind = "handoff" /\ Promotable(p) /\ inst' = Signalled(p)
    BY <1>1, <1>9, DoCases
  <2>2. /\ inst' \in [Node -> Instance] /\ Elsewhere(p)
        /\ inst'[p].running = inst[p].running
        /\ inst'[p].primary = inst[p].primary /\ inst'[p].promoting
        /\ inst'[p].line = inst[p].line
    BY <1>2, <1>3, <2>1, SignalledFacts
  <2>3. Lead(p)'
    BY <2>2 DEF Lead
  <2>4. inst'[p].line <= inst[p].line + 1
    BY <1>8, <2>2
  <2>5. InstInv'
    BY <1>1, <1>2, <2>1, <2>2, <2>3, <2>4, InstKept DEF Promotable
  <2>6. QED
    BY <1>5, <1>6, <2>1, <2>2, <2>5
<1>10. CASE Step(d) = "stop"
  <2>1. inst' = Stopped(n)
    BY <1>1, <1>10, DoCases
  <2>2. /\ inst' \in [Node -> Instance] /\ Elsewhere(n)
        /\ ~inst'[n].running /\ ~inst'[n].promoting
        /\ inst'[n].line = inst[n].line
    BY <1>2, <1>3, <2>1, StopFacts
  <2>3. d.kind \in {"handoff", "follow", "hook"} /\ (d.kind = "handoff" => d.at = 3)
        /\ d.sub \in {"todo", "wiped", "half"}
    BY <1>2, <1>10, Ladders DEF Do
  <2>4. Lead(p)
    BY <1>1, <2>3 DEF DriverStage, Handed, Rebased, Past
  <2>5. n # p
    BY <1>1, <2>3, ApartDrivers
  <2>6. Lead(p)'
    BY <1>2, <2>2, <2>4, <2>5 DEF Elsewhere, Lead, Serving
  <2>7. inst'[n].line <= inst[n].line + 1
    BY <1>8, <2>2
  <2>8. InstInv'
    BY <1>1, <1>2, <2>2, <2>6, <2>7, InstKept
  <2>9. QED
    BY <1>4, <1>5, <1>6, <2>2, <2>8
<1>11. CASE Step(d) = "start"
  <2>1. inst' = Started(n)
    BY <1>1, <1>11, DoCases
  <2>2. /\ inst' \in [Node -> Instance] /\ Elsewhere(n)
        /\ inst'[n].running /\ inst'[n].promoting = inst[n].promoting
        /\ inst[n].running => inst'[n].primary = inst[n].primary
        /\ inst'[n].line = inst[n].line
    BY <1>2, <1>3, <2>1, StartFacts
  <2>3. inst'[n].promoting => inst'[n].running /\ ~inst'[n].primary
    BY <1>2, <1>3, <2>2
  <2>4. Lead(l)'
    BY <1>2, <1>3, <1>7, <2>2 DEF Elsewhere, Lead, Serving
  <2>5. inst'[n].line <= inst[n].line + 1
    BY <1>8, <2>2
  <2>6. InstInv'
    BY <1>1, <1>2, <2>2, <2>3, <2>4, <2>5, InstKept
  <2>7. QED
    BY <1>4, <1>5, <1>6, <2>2, <2>6
<1>12. CASE Step(d) \notin {"promote", "stop", "start"}
  <2>1. \/ inst' = inst \/ inst' = Copied(n, p)
        \/ inst' = ConfWritten(n, p) \/ inst' = SignalWritten(n)
    BY <1>1, <1>12, DoCases
  <2>2. /\ inst' \in [Node -> Instance] /\ Elsewhere(n)
        /\ inst'[n].running = inst[n].running
        /\ inst'[n].primary = inst[n].primary
        /\ inst'[n].promoting = inst[n].promoting
        /\ inst'[n].line = inst[n].line \/ inst'[n].line = inst[p].line
    <3>1. CASE inst' = inst
      BY <1>3, <3>1 DEF Elsewhere
    <3>2. CASE inst' = Copied(n, p)
      BY <1>2, <1>3, <3>2, CopyFacts
    <3>3. CASE inst' = ConfWritten(n, p)
      BY <1>2, <1>3, <3>3, ConfFacts
    <3>4. CASE inst' = SignalWritten(n)
      BY <1>2, <1>3, <3>4, SignalFacts
    <3>5. QED
      BY <2>1, <3>1, <3>2, <3>3, <3>4
  <2>3. Lead(l)'
    BY <1>2, <1>7, <2>2 DEF Elsewhere, Lead, Serving
  <2>4. inst'[n].promoting => inst'[n].running /\ ~inst'[n].primary
    BY <1>2, <1>3, <2>2
  <2>5. PICK m \in Node : inst'[n].line = inst[m].line
    BY <1>2, <2>2
  <2>6. inst[m].line \in Nat
    BY <1>3 DEF Instance
  <2>7. inst'[n].line <= inst[m].line + 1
    BY <2>5, <2>6
  <2>8. InstInv'
    BY <1>1, <1>2, <2>2, <2>3, <2>4, <2>7, InstKept
  <2>9. QED
    BY <1>4, <1>5, <1>6, <2>2, <2>8
<1>13. QED
  BY <1>9, <1>10, <1>11, <1>12

-----------------------------------------------------------------------------
(* A change of one entry, which goes on for the same node and primary and  *)
(* is not opened again.                                                    *)
Rewritten(h, i) ==
  /\ journal' \in [Node -> Seq(InflightOp)]
  /\ \A g \in Node : DOMAIN journal'[g] = DOMAIN journal[g]
  /\ \A g \in Node : \A j \in DOMAIN journal[g] :
       /\ journal'[g][j].kind = journal[g][j].kind
       /\ journal'[g][j].node = journal[g][j].node
       /\ journal'[g][j].primary = journal[g][j].primary
       /\ journal'[g][j].status = "InProgress" => journal[g][j].status = "InProgress"
       /\ ~(g = h /\ j = i) => journal'[g][j] = journal[g][j]

(* A journal that is left alone is a rewritten one.                         *)
LEMMA NotRewritten ==
  ASSUME TypeOK, journal' = journal, NEW h, NEW i
  PROVE  Rewritten(h, i)
  BY DEF TypeOK, Rewritten

Overwritten(h, i, op) ==
  journal' = [journal EXCEPT ![h] = [journal[h] EXCEPT ![i] = op]]

(* One entry is overwritten.                                                *)
LEMMA RewrittenFacts ==
  ASSUME TypeOK, NEW h \in Node, NEW i \in DOMAIN journal[h],
         NEW op \in InflightOp,
         Overwritten(h, i, op), op.kind = journal[h][i].kind,
         op.node = journal[h][i].node, op.primary = journal[h][i].primary,
         op.status = "InProgress" => journal[h][i].status = "InProgress"
  PROVE  Rewritten(h, i) /\ journal'[h][i] = op
<1>1. journal \in [Node -> Seq(InflightOp)] /\ journal[h] \in Seq(InflightOp)
  BY DEF TypeOK
<1> DEFINE s == [journal[h] EXCEPT ![i] = op]
<1>2. s \in Seq(InflightOp) /\ DOMAIN s = DOMAIN journal[h]
      /\ s[i] = op /\ \A j \in DOMAIN journal[h] : j # i => s[j] = journal[h][j]
  BY <1>1
<1>3. journal' = [journal EXCEPT ![h] = s]
  BY DEF Overwritten
<1> HIDE DEF s
<1>4. /\ journal' \in [Node -> Seq(InflightOp)] /\ journal'[h] = s
      /\ \A g \in Node : g # h => journal'[g] = journal[g]
  BY <1>1, <1>2, <1>3
<1>5. QED
  BY <1>2, <1>4 DEF Rewritten

(* `complete` and `abandon` set the status.                                 *)
LEMMA StatusSet ==
  ASSUME TypeOK, NEW h \in Node, NEW i \in DOMAIN journal[h],
         NEW st \in {"Done", "Abandoned"},
         journal' = [journal EXCEPT ![h][i].status = st]
  PROVE  /\ Rewritten(h, i)
         /\ journal'[h][i].status = st /\ journal'[h][i].phase = journal[h][i].phase
<1> DEFINE op == [journal[h][i] EXCEPT !.status = st]
<1>1. journal[h][i] \in InflightOp
  BY EntryShape
<1>2. /\ op \in InflightOp /\ op.kind = journal[h][i].kind
      /\ op.node = journal[h][i].node /\ op.primary = journal[h][i].primary
      /\ op.status = st /\ op.phase = journal[h][i].phase
  BY <1>1 DEF InflightOp
<1>3. Overwritten(h, i, op)
  BY Zenon DEF Overwritten
<1> HIDE DEF op
<1>4. Rewritten(h, i) /\ journal'[h][i] = op
  BY <1>2, <1>3, RewrittenFacts
<1>5. QED
  BY <1>2, <1>4

(* `update_phase` sets the phase.                                           *)
LEMMA PhaseSet ==
  ASSUME TypeOK, NEW h \in Node, NEW i \in DOMAIN journal[h],
         NEW k \in 0 .. 7, journal' = [journal EXCEPT ![h][i].phase = k]
  PROVE  /\ Rewritten(h, i)
         /\ journal'[h][i].status = journal[h][i].status /\ journal'[h][i].phase = k
<1> DEFINE op == [journal[h][i] EXCEPT !.phase = k]
<1>1. journal[h][i] \in InflightOp
  BY EntryShape
<1>2. /\ op \in InflightOp /\ op.kind = journal[h][i].kind
      /\ op.node = journal[h][i].node /\ op.primary = journal[h][i].primary
      /\ op.status = journal[h][i].status /\ op.phase = k
  BY <1>1 DEF InflightOp
<1>3. Overwritten(h, i, op)
  BY Zenon DEF Overwritten
<1> HIDE DEF op
<1>4. Rewritten(h, i) /\ journal'[h][i] = op
  BY <1>2, <1>3, RewrittenFacts
<1>5. QED
  BY <1>2, <1>4

-----------------------------------------------------------------------------
(* Work that goes on, changes hands or ends claims nothing new.            *)
SameWork(d, e) == /\ d.host = e.host /\ d.op = e.op /\ d.kind = e.kind
                  /\ d.node = e.node /\ d.primary = e.primary

(* A driver that was there, or one that takes over what was claimed.       *)
FromOld(e) ==
  \/ e \in drivers
  \/ /\ e.sub # "fanout"
     /\ \/ e.kind = "allow_async" \/ Opens(e)
        \/ \E d \in drivers : d.sub # "fanout" /\ SameWork(d, e)

(* No claim is new when drivers and entries come from old ones.             *)
LEMMA FewerClaims ==
  ASSUME ClaimInv, \A e \in drivers' : FromOld(e),
         \A g \in Node : \A j \in InProgress(g)' :
           \/ journal'[g][j].kind = "allow_async"
           \/ /\ j \in InProgress(g)
              /\ journal'[g][j].kind = journal[g][j].kind
              /\ journal'[g][j].node = journal[g][j].node
              /\ journal'[g][j].primary = journal[g][j].primary
  PROVE  ClaimInv'
<1>1. ASSUME NEW c \in Claims'
      PROVE  c \in Claims
  <2>1. /\ c \in Claim
        /\ (\E e \in drivers' : e.sub # "fanout" /\ Drives(e, c)) \/ Opens(c)'
    BY <1>1 DEF Claims, Drives, Claim
  <2>2. CASE \E e \in drivers' : e.sub # "fanout" /\ Drives(e, c)
    <3>1. PICK e \in drivers' : e.sub # "fanout" /\ Drives(e, c)
      BY <2>2
    <3>2. c.kind # "allow_async"
      BY <2>1 DEF Claim
    <3>3. CASE Opens(e)
      <4>1. Opens(c)
        BY <3>1, <3>3 DEF Opens, Drives
      <4>2. QED
        BY <2>1, <4>1 DEF Claims
    <3>4. CASE \E d \in drivers : d.sub # "fanout" /\ SameWork(d, e)
      <4>1. PICK d \in drivers : d.sub # "fanout" /\ SameWork(d, e)
        BY <3>4
      <4>2. Drives(d, c)
        BY <3>1, <4>1 DEF Drives, SameWork
      <4>3. QED
        BY <2>1, <4>1, <4>2 DEF Claims
    <3>5. CASE e \in drivers
      BY <2>1, <3>1, <3>5 DEF Claims
    <3>6. FromOld(e) /\ e.kind # "allow_async"
      BY <3>1, <3>2 DEF Drives
    <3>7. QED
      BY <3>3, <3>4, <3>5, <3>6 DEF FromOld
  <2>3. CASE Opens(c)'
    <3>1. c.host \in Node /\ c.kind # "allow_async"
      BY <2>1 DEF Claim
    <3>2. Opens(c)
      BY <2>3, <3>1 DEF Opens
    <3>3. QED
      BY <2>1, <3>2 DEF Claims
  <2>4. QED
    BY <2>1, <2>2, <2>3
<1>2. \A e \in drivers' : e.sub = "fanout" => e \in Fans
  BY DEF FromOld, Fans
<1>3. Apart(Claims')
  BY <1>1 DEF ClaimInv, Apart
<1>4. ASSUME NEW d \in Fans'
      PROVE  Spawned(d, Claims') /\ \A e \in Fans' : e = d
  <2>1. d \in Fans /\ \A e \in Fans' : e \in Fans
    BY <1>2, <1>4 DEF Fans
  <2>2. QED
    BY <1>1, <2>1 DEF ClaimInv, Spawned
<1>5. QED
  BY <1>3, <1>4 DEF ClaimInv

(* What a driver's step does to drivers and journal: the driver goes on as *)
(* one of D, or ends, and its entry is rewritten.                          *)
Goes(d, D) ==
  /\ drivers' = (drivers \ {d}) \cup D
  /\ \A e, f \in D : e = f
  /\ \A e \in D : /\ e \in Driver /\ SameWork(d, e) /\ DriverOK(e)'
                  /\ d.sub # "fanout"
                  /\ e.sub = "fanout" =>
                       d.kind = "handoff" /\ d.op \notin InProgress(d.host)'
  /\ Rewritten(d.host, d.op)

(* A handoff that goes on to its fan-out was alone.                        *)
LEMMA FanBegins ==
  ASSUME IInv, NEW d \in drivers, NEW D, Goes(d, D), NEW e \in D, e.sub = "fanout"
  PROVE  ClaimInv'
<1>1. TypeOK /\ ClaimInv /\ DriverInv /\ d.host \in Node
  BY DriverShape DEF IInv
<1>2. /\ drivers' = (drivers \ {d}) \cup {e}
      /\ d.sub # "fanout" /\ d.kind = "handoff"
      /\ d.op \notin InProgress(d.host)' /\ Rewritten(d.host, d.op)
  BY DEF Goes
<1>3. ASSUME NEW c \in Claims'
      PROVE  FALSE
  <2>1. /\ c \in Claim /\ c.host \in Node /\ c.kind # "allow_async"
        /\ (\E x \in drivers' : x.sub # "fanout" /\ Drives(x, c)) \/ Opens(c)'
    BY <1>3 DEF Claims, Drives, Claim
  <2>2. ASSUME NEW x \in drivers', x.sub # "fanout", Drives(x, c)
        PROVE  FALSE
    <3>1. x \in drivers /\ x # d /\ x.kind # "allow_async"
      BY <1>2, <2>1, <2>2 DEF Drives
    <3>2. QED
      BY <1>1, <1>2, <2>2, <3>1, ApartDrivers
  <2>3. ASSUME Opens(c)'
        PROVE  FALSE
    <3>1. /\ c.op \in InProgress(c.host)' /\ c.op \in InProgress(c.host)
          /\ journal[c.host][c.op].kind = c.kind
      BY <1>2, <2>1, <2>3 DEF Opens, Rewritten, InProgress
    <3>2. ~(d.host = c.host /\ d.op = c.op)
      BY <1>2, <3>1
    <3>3. QED
      BY <1>1, <1>2, <2>1, <3>1, <3>2, ApartEntries
  <2>4. QED
    BY <2>1, <2>2, <2>3
<1>4. Fans = {}
  <2>1. ClaimOf(d) \in Claims
    BY <1>1, <1>2, DriverClaims
  <2>2. ASSUME NEW f \in Fans
        PROVE  FALSE
    <3>1. Spawned(f, Claims)
      BY <1>1, <2>2 DEF ClaimInv
    <3>2. QED
      BY <1>2, <2>1, <3>1 DEF Spawned, ClaimOf
  <2>3. QED
    BY <2>2
<1>5. \A f \in Fans' : f = e
  BY <1>2, <1>4 DEF Fans
<1>6. Apart(Claims') /\ \A f \in Fans' : Spawned(f, Claims')
  BY <1>3 DEF Apart, Spawned
<1>7. QED
  BY <1>5, <1>6 DEF ClaimInv

(* A driver that goes on keeps types, claims and drivers.                   *)
LEMMA GoesFacts ==
  ASSUME IInv, NEW d \in drivers, NEW D, Goes(d, D)
  PROVE  /\ drivers' \subseteq Driver /\ journal' \in [Node -> Seq(InflightOp)]
         /\ ClaimInv' /\ DriverInv'
<1>1. TypeOK /\ ClaimInv /\ DriverInv
  BY DEF IInv
<1>2. /\ drivers' = (drivers \ {d}) \cup D
      /\ \A e, f \in D : e = f
      /\ \A e \in D : e \in Driver /\ SameWork(d, e) /\ DriverOK(e)' /\ d.sub # "fanout"
      /\ Rewritten(d.host, d.op)
  BY DEF Goes
<1>3. drivers' \subseteq Driver /\ journal' \in [Node -> Seq(InflightOp)]
  BY <1>1, <1>2 DEF TypeOK, Rewritten
<1>4. (\A e \in D : e.sub # "fanout") => \A e \in drivers' : FromOld(e)
  BY <1>2 DEF FromOld
<1>5. \A g \in Node : \A j \in InProgress(g)' :
        /\ j \in InProgress(g)
        /\ journal'[g][j].kind = journal[g][j].kind
        /\ journal'[g][j].node = journal[g][j].node
        /\ journal'[g][j].primary = journal[g][j].primary
  BY <1>2 DEF Rewritten, InProgress
<1>6. ClaimInv'
  BY <1>1, <1>4, <1>5, FewerClaims, FanBegins
<1>7. ASSUME NEW x \in drivers, x # d
      PROVE  DriverOK(x)'
  <2>1. DriverOK(x) /\ x.host \in Node /\ ~(x.host = d.host /\ x.op = d.op)
    BY <1>1, <1>7, DriverShape DEF DriverInv
  <2>2. CASE x.kind = "hook"
    BY <2>1, <2>2 DEF DriverOK, Step
  <2>3. CASE x.kind # "hook"
    <3>1. x.op \in DOMAIN journal[x.host]
      BY <2>1, <2>3 DEF DriverOK
    <3>2. x.op \in DOMAIN journal'[x.host] /\ journal'[x.host][x.op] = journal[x.host][x.op]
      BY <1>2, <2>1, <3>1 DEF Rewritten
    <3>3. QED
      BY <2>1, <2>3, <3>2 DEF DriverOK, Step, Entry
  <2>4. QED
    BY <2>2, <2>3
<1>8. \A e, f \in drivers' : e.host = f.host /\ e.op = f.op => e = f
  BY <1>1, <1>2 DEF DriverInv, SameWork
<1>9. DriverInv'
  BY <1>2, <1>7, <1>8 DEF DriverInv
<1>10. QED
  BY <1>3, <1>6, <1>9

(* The stages after a driver went on.                                       *)
LEMMA GoesStage ==
  ASSUME IInv, NEW d \in drivers, NEW D, Goes(d, D),
         \A e \in drivers : e # d => DriverStage(e)',
         \A e \in D : DriverStage(e)',
         \A h \in Node : \A i \in InProgress(h) : \A op :
           op = journal[h][i] /\ ~(d.host = h /\ d.op = i) => EntryStage(op)',
         d.op \in InProgress(d.host)' =>
           \A op : op = journal'[d.host][d.op] => EntryStage(op)'
  PROVE  StageInv'
<1>1. Rewritten(d.host, d.op) /\ drivers' = (drivers \ {d}) \cup D
  BY DEF Goes
<1>2. \A e \in drivers' : DriverStage(e)'
  BY <1>1
<1>3. ASSUME NEW h \in Node, NEW i \in InProgress(h)'
      PROVE  EntryStage(journal[h][i])'
  <2>1. i \in InProgress(h)
    BY <1>1, <1>3 DEF Rewritten, InProgress
  <2>2. CASE d.host = h /\ d.op = i
    BY <1>3, <2>2
  <2>3. CASE ~(d.host = h /\ d.op = i)
    <3>1. journal'[h][i] = journal[h][i]
      BY <1>1, <2>1, <2>3 DEF Rewritten, InProgress
    <3>2. QED
      BY <2>1, <2>3, <3>1
  <2>4. QED
    BY <2>2, <2>3
<1>4. QED
  BY <1>2, <1>3 DEF StageInv

(* When neither instances nor slots change, stages stay what they are.     *)
LEMMA StagesStay ==
  ASSUME StageInv, inst' = inst, slots' = slots
  PROVE  /\ \A e \in drivers : DriverStage(e)'
         /\ \A h \in Node : \A i \in InProgress(h) : \A op :
              op = journal[h][i] => EntryStage(op)'
         /\ \A n, p, s : Handed(n, p, s)' <=> Handed(n, p, s)
         /\ \A n, p, s : Rebased(n, p, s)' <=> Rebased(n, p, s)
         /\ \A n : Lead(n)' <=> Lead(n)
<1>1. /\ \A n, p, s : Handed(n, p, s)' <=> Handed(n, p, s)
      /\ \A n, p, s : Rebased(n, p, s)' <=> Rebased(n, p, s)
      /\ \A n : Lead(n)' <=> Lead(n)
  BY DEF Handed, Rebased, Lead, Serving
<1>2. \A e \in drivers : DriverStage(e)'
  BY <1>1 DEF StageInv, DriverStage
<1>3. \A h \in Node : \A i \in InProgress(h) : \A op :
        op = journal[h][i] => EntryStage(op)'
  BY <1>1 DEF StageInv, EntryStage
<1>4. QED
  BY <1>1, <1>2, <1>3

(* Unchanged instances.                                                     *)
LEMMA InstStays ==
  ASSUME InstInv, inst' = inst
  PROVE  InstInv'
  BY DEF InstInv, SomePrimary, Serving

-----------------------------------------------------------------------------
(* The steps of a driver.                                                  *)
LEMMA OwnEntry ==
  ASSUME IInv, NEW d \in drivers, d.op \in InProgress(d.host)
  PROVE  /\ d.kind # "hook" /\ d.op \in DOMAIN journal[d.host]
         /\ Entry(d) \in InflightOp /\ Entry(d).status = "InProgress"
         /\ Entry(d).kind = d.kind /\ Entry(d).node = d.node
         /\ Entry(d).primary = d.primary /\ Entry(d).phase = d.at - 1
         /\ d.sub # "fanout" /\ EntryStage(Entry(d))
<1>1. TypeOK /\ DriverInv /\ StageInv
  BY DEF IInv
<1>2. DriverOK(d) /\ d.host \in Node
  BY <1>1, DriverShape
<1>3. d.op # 0 /\ Entry(d) \in InflightOp /\ Entry(d).status = "InProgress"
      /\ d.op \in DOMAIN journal[d.host]
  BY <1>1, <1>2, EntryShape DEF Entry, InProgress
<1>4. QED
  BY <1>1, <1>2, <1>3 DEF DriverOK, StageInv, Entry

(* A step takes effect.                                                     *)
LEMMA DoKeeps ==
  ASSUME IInv, NEW d \in drivers, Do(d)
  PROVE  IInv'
<1> DEFINE half == Step(d) = "conf" /\ d.sub = "todo"
           e == [d EXCEPT !.sub = IF half THEN "half" ELSE "done"]
<1>1. TypeOK /\ InstInv /\ ClaimInv /\ DriverInv /\ StageInv /\ DriverStage(d)
  BY DEF IInv, StageInv
<1>2. /\ d \in Driver /\ DriverOK(d) /\ d.node \in Node /\ d.primary \in Node
      /\ d.kind \in DOMAIN Ladder /\ d.at \in 1 .. Len(Ladder[d.kind])
  BY <1>1, DriverShape
<1>3. /\ UNCHANGED <<journal, ops, faults>> /\ drivers' = (drivers \ {d}) \cup {e}
      /\ d.sub \in {"todo", "wiped", "half"}
  BY DEF Do, Moves
<1>4. /\ inst' \in [Node -> Instance] /\ slots' \in [Node -> SUBSET Node]
      /\ InstInv' /\ (d.kind # "handoff" => Elsewhere(d.node))
      /\ \/ slots' = slots \/ slots' = SlotCreated(d.primary, d.node)
         \/ slots' = SlotsCleaned(d.node)
      /\ d.kind = "allow_async" => inst' = inst /\ slots' = slots
  BY DoInst
<1>5. /\ e \in Driver /\ SameWork(d, e) /\ e.at = d.at
      /\ e.sub = IF half THEN "half" ELSE "done"
  BY <1>2 DEF Driver, SameWork
<1> HIDE DEF e
<1>6. Step(e) = Step(d)
  BY <1>5 DEF Step, SameWork
<1>7. DriverOK(e)'
  BY <1>2, <1>3, <1>5, <1>6 DEF DriverOK, Step, SameWork, Entry
<1>8. Goes(d, {e})
  BY <1>1, <1>3, <1>5, <1>7, NotRewritten DEF Goes
<1>9. /\ drivers' \subseteq Driver /\ journal' \in [Node -> Seq(InflightOp)]
      /\ ClaimInv' /\ DriverInv'
  BY <1>8, GoesFacts
<1>10. TypeOK'
  BY <1>1, <1>3, <1>4, <1>9 DEF TypeOK
<1>11. CASE d.kind = "allow_async"
  <2>1. Step(d) = "clear"
    BY <1>2, <1>11, Ladders
  <2>2. DriverStage(e)'
    BY <1>5, <1>11, <2>1 DEF DriverStage, SameWork
  <2>3. /\ \A x \in drivers : DriverStage(x)'
        /\ \A h \in Node : \A i \in InProgress(h) : \A op :
             op = journal[h][i] => EntryStage(op)'
    BY <1>1, <1>4, <1>11, StagesStay
  <2>4. d.op \in InProgress(d.host)' =>
          \A op : op = journal'[d.host][d.op] => EntryStage(op)'
    BY <1>2, <1>3, <2>3 DEF InProgress, Driver
  <2>5. StageInv'
    BY <1>8, <2>2, <2>3, <2>4, GoesStage
  <2>6. QED
    BY <1>4, <1>9, <1>10, <2>5 DEF IInv
<1>12. CASE d.kind # "allow_async"
  <2>1. /\ \A x \in drivers : x # d => DriverStage(x)'
        /\ \A h \in Node : \A i \in InProgress(h) : \A op :
             op = journal[h][i] /\ ~(d.host = h /\ d.op = i) => EntryStage(op)'
    BY <1>3, <1>4, <1>12, OthersKept
  <2>2. d.node # d.primary
    BY <1>1, <1>3, <1>12, ApartDrivers
  <2>3. d.kind = "handoff" =>
          IF half THEN Handed(d.node, d.primary, d.at - 1)' /\ inst'[d.node].conf = d.primary
                  ELSE Handed(d.node, d.primary, d.at)'
    BY <1>1, <1>3, <2>2, HandoffStep DEF DriverStage, Past
  <2>4. d.kind = "follow" =>
          /\ Rebased(d.node, d.primary, d.at - 1)'
          /\ IF half THEN inst'[d.node].conf = d.primary
                     ELSE Rebased(d.node, d.primary, d.at)'
    BY <1>1, <1>3, <2>2, FollowStep DEF DriverStage, Past
  <2>5. d.kind = "hook" => Lead(d.primary)' /\ (half => inst'[d.node].conf = d.primary)
    <3>1. SUFFICES ASSUME d.kind = "hook"
                   PROVE  Lead(d.primary)' /\ (half => inst'[d.node].conf = d.primary)
      OBVIOUS
    <3>2. inst'[d.primary] = inst[d.primary] /\ Lead(d.primary)
      BY <1>1, <1>2, <1>4, <2>2, <3>1 DEF Elsewhere, DriverStage
    <3>3. half => inst' = ConfWritten(d.node, d.primary)
      BY <1>1, DoCases
    <3>4. half => inst'[d.node].conf = d.primary
      BY <1>1, <1>2, <3>3, ConfFacts DEF TypeOK
    <3>5. QED
      BY <3>2, <3>4 DEF Lead, Serving
  <2>6. DriverStage(e)'
    <3>1. /\ e.kind = d.kind /\ e.node = d.node /\ e.primary = d.primary
          /\ e.sub # "fanout" /\ (e.sub = "half" <=> half)
          /\ Past(e) = IF half THEN d.at - 1 ELSE d.at
      BY <1>5 DEF SameWork, Past
    <3>2. e.sub = "half" => inst'[e.node].conf = e.primary
      BY <1>2, <1>12, <2>3, <2>4, <2>5, <3>1, Lengths
    <3>3. e.kind = "handoff" => Handed(e.node, e.primary, Past(e))'
      <4>1. CASE half
        BY <2>3, <3>1, <4>1
      <4>2. CASE ~half
        BY <2>3, <3>1, <4>2
      <4>3. QED
        BY <4>1, <4>2
    <3>4. e.kind = "follow" => Rebased(e.node, e.primary, Past(e))'
      <4>1. CASE half
        BY <2>4, <3>1, <4>1
      <4>2. CASE ~half
        BY <2>4, <3>1, <4>2
      <4>3. QED
        BY <4>1, <4>2
    <3>5. e.kind = "hook" => Lead(e.primary)'
      BY <2>5, <3>1
    <3>6. QED
      BY <3>1, <3>2, <3>3, <3>4, <3>5 DEF DriverStage
  <2>7. d.op \in InProgress(d.host)' =>
          \A op : op = journal'[d.host][d.op] => EntryStage(op)'
    <3>1. SUFFICES ASSUME d.op \in InProgress(d.host)
                   PROVE  \A op : op = journal[d.host][d.op] => EntryStage(op)'
      BY <1>3 DEF InProgress
    <3>2. /\ Entry(d).kind = d.kind /\ Entry(d).node = d.node
          /\ Entry(d).primary = d.primary /\ Entry(d).phase = d.at - 1
          /\ d.kind # "hook" /\ EntryStage(Entry(d))
      BY <3>1, OwnEntry
    <3>3. d.at - 1 + 1 = d.at
      BY <1>2 DEF Driver
    <3>4. QED
      BY <2>3, <2>4, <3>2, <3>3 DEF EntryStage, Entry
  <2>8. StageInv'
    BY <1>8, <2>1, <2>6, <2>7, GoesStage
  <2>9. QED
    BY <1>4, <1>9, <1>10, <2>8 DEF IInv
<1>13. QED
  BY <1>11, <1>12

(* Faults are counted down.                                                 *)
LEMMA FaultFacts ==
  ASSUME TypeOK, NEW kind, Fault(kind)
  PROVE  faults' \in 0 .. MaxFaults
<1>1. faults \in 0 .. MaxFaults /\ MaxFaults \in Nat /\ faults > 0 /\ faults' = faults - 1
  BY HandoffAssumption DEF TypeOK, Fault
<1>2. QED
  BY <1>1

(* The rewind fails and the directory is emptied.                           *)
LEMMA FallbackKeeps ==
  ASSUME IInv, NEW d \in drivers, Fallback(d)
  PROVE  IInv'
<1> DEFINE n == d.node
           p == d.primary
           e == [d EXCEPT !.sub = "wiped"]
<1>1. TypeOK /\ InstInv /\ ClaimInv /\ DriverInv /\ StageInv /\ DriverStage(d)
  BY DEF IInv, StageInv
<1>2. /\ d \in Driver /\ DriverOK(d) /\ n \in Node /\ p \in Node
      /\ d.kind \in DOMAIN Ladder /\ d.at \in 1 .. Len(Ladder[d.kind])
  BY <1>1, DriverShape
<1>3. /\ Step(d) = "copy" /\ d.sub = "todo" /\ inst' = Cleared(n)
      /\ slots' = SlotsCleaned(n) /\ drivers' = (drivers \ {d}) \cup {e}
      /\ UNCHANGED <<journal, ops>>
  BY DEF Fallback, Moves
<1>4. d.kind # "allow_async" /\ (d.kind \in {"handoff", "follow"} => d.at = 4)
  BY <1>2, <1>3, Ladders
<1>5. n # p
  BY <1>1, <1>3, <1>4, ApartDrivers
<1>6. /\ inst' \in [Node -> Instance] /\ Elsewhere(n)
      /\ inst'[n].running = inst[n].running /\ inst'[n].primary = inst[n].primary
      /\ inst'[n].promoting = inst[n].promoting /\ inst'[n].line = inst[n].line
  BY <1>1, <1>2, <1>3, ClearFacts, HandoffAssumption DEF TypeOK
<1>7. slots' \in [Node -> SUBSET Node] /\ (n \in slots[p] => n \in slots'[p])
  BY <1>1, <1>2, <1>3, <1>5 DEF SlotsCleaned, TypeOK
<1>8. InstInv'
  <2>1. PICK l \in Node : Lead(l)
    BY <1>1, SomeLead
  <2>2. Lead(l)'
    BY <1>6, <2>1 DEF Elsewhere, Lead, Serving
  <2>3. inst[n].line \in Nat
    BY <1>1, <1>2 DEF TypeOK, Instance
  <2>4. inst'[n].line <= inst[n].line + 1
    BY <1>6, <2>3
  <2>5. inst'[n].promoting => inst'[n].running /\ ~inst'[n].primary
    BY <1>1, <1>2, <1>6 DEF InstInv
  <2>6. QED
    BY <1>1, <1>2, <1>6, <2>2, <2>4, <2>5, InstKept
<1>9. faults' \in 0 .. MaxFaults
  BY <1>1, FaultFacts DEF Fallback, TypeOK
<1>10. e \in Driver /\ SameWork(d, e) /\ e.at = d.at /\ e.sub = "wiped" /\ Step(e) = Step(d)
  BY <1>2 DEF Driver, SameWork, Step
<1> HIDE DEF e, n, p
<1>11. DriverOK(e)'
  BY <1>2, <1>3, <1>10 DEF DriverOK, Step, SameWork, Entry
<1>12. Goes(d, {e})
  BY <1>1, <1>3, <1>10, <1>11, NotRewritten DEF Goes
<1>13. /\ drivers' \subseteq Driver /\ journal' \in [Node -> Seq(InflightOp)]
       /\ ClaimInv' /\ DriverInv'
  BY <1>12, GoesFacts
<1>14. TypeOK'
  BY <1>1, <1>3, <1>6, <1>7, <1>9, <1>13 DEF TypeOK
<1>15. /\ \A x \in drivers : x # d => DriverStage(x)'
       /\ \A h \in Node : \A i \in InProgress(h) : \A op :
            op = journal[h][i] /\ ~(d.host = h /\ d.op = i) => EntryStage(op)'
  BY <1>3, <1>4, <1>6, OthersKept DEF n, p
<1>16. inst'[p] = inst[p]
  BY <1>2, <1>5, <1>6 DEF Elsewhere
<1>17. d.kind = "handoff" => Handed(n, p, 3)'
  <2>1. SUFFICES ASSUME d.kind = "handoff"
                 PROVE  Handed(n, p, 3)'
    OBVIOUS
  <2>2. Handed(n, p, 3)
    BY <1>1, <1>3, <1>4, <2>1 DEF DriverStage, Past, n, p
  <2>3. QED
    BY <1>6, <1>7, <1>16, <2>2 DEF Handed, Lead, Serving
<1>18. d.kind = "follow" => Rebased(n, p, 3)'
  <2>1. SUFFICES ASSUME d.kind = "follow"
                 PROVE  Rebased(n, p, 3)'
    OBVIOUS
  <2>2. Rebased(n, p, 3)
    BY <1>1, <1>3, <1>4, <2>1 DEF DriverStage, Past, n, p
  <2>3. QED
    BY <1>6, <1>7, <1>16, <2>2 DEF Rebased, Lead, Serving
<1>19. d.kind = "hook" => Lead(p)'
  BY <1>1, <1>16 DEF DriverStage, Lead, Serving, p
<1>20. DriverStage(e)'
  <2>1. /\ e.kind = d.kind /\ e.node = n /\ e.primary = p
        /\ d.kind \in {"handoff", "follow"} => Past(e) = 3
    BY <1>4, <1>10 DEF SameWork, Past, n, p
  <2>2. QED
    BY <1>10, <1>17, <1>18, <1>19, <2>1 DEF DriverStage
<1>21. d.op \in InProgress(d.host)' =>
         \A op : op = journal'[d.host][d.op] => EntryStage(op)'
  <2>1. SUFFICES ASSUME d.op \in InProgress(d.host)
                 PROVE  \A op : op = journal[d.host][d.op] => EntryStage(op)'
    BY <1>3 DEF InProgress
  <2>2. /\ Entry(d).kind = d.kind /\ Entry(d).node = n
        /\ Entry(d).primary = p /\ Entry(d).phase = d.at - 1
        /\ d.kind # "hook" /\ EntryStage(Entry(d))
    BY <2>1, OwnEntry DEF n, p
  <2>3. d.kind \in {"handoff", "follow"} /\ Entry(d).phase = 3
    BY <1>2, <1>4, <2>2, Lengths
  <2>4. QED
    BY <1>17, <1>18, <2>2, <2>3 DEF EntryStage, Entry
<1>22. StageInv'
  BY <1>12, <1>15, <1>20, <1>21, GoesStage
<1>23. QED
  BY <1>8, <1>13, <1>14, <1>22 DEF IInv

(* The steps that only journal.                                            *)
LEMMA Bookkeeping ==
  ASSUME IInv, NEW d \in drivers, NEW D, Goes(d, D),
         UNCHANGED <<inst, slots, ops, faults>>,
         \A e \in D : DriverStage(e),
         d.op \in InProgress(d.host)' => EntryStage(journal'[d.host][d.op])
  PROVE  IInv'
<1>1. TypeOK /\ InstInv /\ StageInv
  BY DEF IInv
<1>2. /\ drivers' \subseteq Driver /\ journal' \in [Node -> Seq(InflightOp)]
      /\ ClaimInv' /\ DriverInv'
  BY GoesFacts
<1>3. TypeOK' /\ InstInv'
  BY <1>1, <1>2, InstStays DEF TypeOK
<1>4. /\ \A e \in drivers : DriverStage(e)'
      /\ \A h \in Node : \A i \in InProgress(h) : \A op :
           op = journal[h][i] => EntryStage(op)'
      /\ \A n, p, s : Handed(n, p, s)' <=> Handed(n, p, s)
      /\ \A n, p, s : Rebased(n, p, s)' <=> Rebased(n, p, s)
      /\ \A n : Lead(n)' <=> Lead(n)
  BY <1>1, StagesStay
<1>5. \A e \in D : DriverStage(e)'
  BY <1>4 DEF DriverStage
<1>6. d.op \in InProgress(d.host)' =>
        \A op : op = journal'[d.host][d.op] => EntryStage(op)'
  BY <1>4 DEF EntryStage
<1>7. StageInv'
  BY <1>4, <1>5, <1>6, GoesStage
<1>8. QED
  BY <1>2, <1>3, <1>7 DEF IInv

(* The driver at its next step.                                             *)
LEMMA NextStep ==
  ASSUME NEW d \in Driver, d.at \in 1 .. 7,
         NEW e, e = [d EXCEPT !.at = d.at + 1, !.sub = "todo"]
  PROVE  /\ e \in Driver /\ SameWork(d, e) /\ e.at = d.at + 1 /\ e.sub = "todo"
         /\ e.at - 1 = d.at
<1>1. d.at + 1 \in 1 .. 8 /\ d.at + 1 - 1 = d.at
  OBVIOUS
<1>2. e \in Driver
  BY <1>1 DEF Driver
<1>3. e.at = d.at + 1 /\ e.sub = "todo"
  BY DEF Driver
<1>4. SameWork(d, e)
  BY DEF SameWork, Driver
<1>5. QED
  BY <1>1, <1>2, <1>3, <1>4

(* A step is journaled.                                                     *)
LEMMA JournalKeeps ==
  ASSUME IInv, NEW d \in drivers, Journal(d)
  PROVE  IInv'
<1>1. TypeOK /\ ClaimInv /\ DriverInv /\ StageInv /\ DriverStage(d)
  BY DEF IInv, StageInv
<1>2. /\ d \in Driver /\ DriverOK(d) /\ d.host \in Node
      /\ d.kind \in DOMAIN Ladder /\ d.at \in 1 .. Len(Ladder[d.kind])
  BY <1>1, DriverShape
<1>3. /\ d.sub = "done" /\ d.op # 0 /\ d.at < Len(Ladder[d.kind])
      /\ UNCHANGED <<inst, slots, ops, faults>>
  BY DEF Journal
<1>4. /\ d.kind # "hook" /\ d.op \in DOMAIN journal[d.host]
      /\ Entry(d).kind = d.kind /\ Entry(d).node = d.node
      /\ Entry(d).primary = d.primary
  BY <1>2, <1>3 DEF DriverOK
<1>5. d.kind \in {"handoff", "follow"} /\ d.at \in 1 .. 7 /\ Len(Ladder[d.kind]) = 8
  <2>1. d.kind \in {"handoff", "follow"}
    <3>1. d.kind \in {"handoff", "follow", "allow_async"}
      BY <1>2, <1>4, Lengths
    <3>2. d.kind = "allow_async" => Len(Ladder[d.kind]) = 1 /\ d.at = 1
      BY <1>2, Ladders
    <3>3. d.kind # "allow_async"
      <4>1. SUFFICES ASSUME d.kind = "allow_async"
                     PROVE  FALSE
        OBVIOUS
      <4>2. Len(Ladder[d.kind]) = 1 /\ d.at = 1 /\ d.at < Len(Ladder[d.kind])
        BY <1>3, <3>2, <4>1
      <4>3. QED
        BY <4>2
    <3>4. QED
      BY <3>1, <3>3
  <2>2. Len(Ladder[d.kind]) = 8 /\ d.at \in 1 .. 8
    BY <1>2, <2>1, Ladders
  <2>3. QED
    BY <1>3, <2>1, <2>2
<1>6. CASE Entry(d).status = "InProgress"
  <2> DEFINE e == [d EXCEPT !.at = d.at + 1, !.sub = "todo"]
  <2>1. /\ journal' = [journal EXCEPT ![d.host][d.op].phase = d.at]
        /\ drivers' = (drivers \ {d}) \cup {e}
    BY <1>6 DEF Journal, Moves
  <2>2. /\ e \in Driver /\ SameWork(d, e) /\ e.at = d.at + 1 /\ e.sub = "todo"
        /\ e.at - 1 = d.at
    BY <1>2, <1>5, NextStep
  <2> HIDE DEF e
  <2>3. /\ Rewritten(d.host, d.op)
        /\ journal'[d.host][d.op].status = "InProgress"
        /\ journal'[d.host][d.op].phase = d.at
    <3>1. d.at \in 0 .. 7
      BY <1>5
    <3>2. QED
      BY <1>1, <1>2, <1>4, <1>6, <2>1, <3>1, PhaseSet DEF Entry
  <2>4. /\ d.op \in DOMAIN journal'[d.host]
        /\ journal'[d.host][d.op].kind = d.kind
        /\ journal'[d.host][d.op].node = d.node
        /\ journal'[d.host][d.op].primary = d.primary
    BY <1>2, <1>4, <2>3 DEF Rewritten, Entry
  <2>5. DriverOK(e)'
    <3>1. e.at <= Len(Ladder[e.kind]) /\ e.kind # "hook" /\ e.op # 0
      <4>1. e.kind = d.kind /\ e.op = d.op
        BY <2>2 DEF SameWork
      <4>2. e.at <= 8 /\ Len(Ladder[e.kind]) = 8
        BY <1>5, <2>2, <4>1
      <4>3. QED
        BY <1>3, <1>4, <4>1, <4>2
    <3>2. /\ e.op \in DOMAIN journal'[e.host]
          /\ journal'[e.host][e.op].kind = e.kind
          /\ journal'[e.host][e.op].node = e.node
          /\ journal'[e.host][e.op].primary = e.primary
          /\ journal'[e.host][e.op].phase = e.at - 1
      BY <2>2, <2>3, <2>4 DEF SameWork
    <3>3. QED
      BY <2>2, <3>1, <3>2 DEF DriverOK, Entry
  <2>6. Goes(d, {e})
    BY <1>3, <2>1, <2>2, <2>3, <2>5 DEF Goes
  <2>7. Past(e) = d.at /\ Past(d) = d.at
    BY <1>3, <1>5, <2>2 DEF Past
  <2>8. DriverStage(e)
    BY <1>1, <1>3, <2>2, <2>7 DEF DriverStage, SameWork
  <2>9. EntryStage(journal'[d.host][d.op])
    BY <1>1, <1>3, <1>5, <2>3, <2>4, <2>7, Lengths DEF EntryStage, DriverStage
  <2>10. QED
    BY <1>3, <2>6, <2>8, <2>9, Bookkeeping
<1>7. CASE Entry(d).status # "InProgress"
  <2>1. drivers' = (drivers \ {d}) \cup {}
    BY <1>7 DEF Journal, Ends
  <2>2. Rewritten(d.host, d.op) /\ journal'[d.host][d.op].status # "InProgress"
    <3>1. CASE d.kind = "follow"
      <4>1. journal' = [journal EXCEPT ![d.host][d.op].status = "Abandoned"]
        BY <1>7, <3>1 DEF Journal
      <4>2. QED
        BY <1>1, <1>2, <1>4, <4>1, StatusSet
    <3>2. CASE d.kind # "follow"
      <4>1. journal' = journal
        BY <1>7, <3>2 DEF Journal
      <4>2. QED
        BY <1>1, <1>7, <4>1, NotRewritten DEF Entry
    <3>3. QED
      BY <3>1, <3>2
  <2>3. Goes(d, {})
    BY <2>1, <2>2 DEF Goes
  <2>4. d.op \notin InProgress(d.host)'
    BY <2>2 DEF InProgress
  <2>5. QED
    BY <1>3, <2>3, <2>4, Bookkeeping
<1>8. QED
  BY <1>6, <1>7

(* The hook goes to its next call.                                          *)
LEMMA HookStepKeeps ==
  ASSUME IInv, NEW d \in drivers, HookStep(d)
  PROVE  IInv'
<1>1. TypeOK /\ DriverInv /\ StageInv /\ DriverStage(d)
  BY DEF IInv, StageInv
<1>2. /\ d \in Driver /\ DriverOK(d) /\ d.host \in Node
      /\ d.kind \in DOMAIN Ladder /\ d.at \in 1 .. Len(Ladder[d.kind])
  BY <1>1, DriverShape
<1>3. /\ d.op = 0 /\ d.sub = "done" /\ UNCHANGED <<inst, slots, journal, ops, faults>>
  BY DEF HookStep
<1>4. d.kind = "hook" /\ d.at \in 1 .. 6 /\ Len(Ladder.hook) = 6
      /\ Len(Ladder[d.kind]) = 6
  BY <1>2, <1>3, Ladders, Lengths DEF DriverOK
<1>5. d.op \notin InProgress(d.host)' /\ Rewritten(d.host, d.op)
  BY <1>1, <1>2, <1>3, EntryShape, NotRewritten DEF InProgress
<1>6. CASE d.at < 6
  <2> DEFINE e == [d EXCEPT !.at = d.at + 1, !.sub = "todo"]
  <2>1. drivers' = (drivers \ {d}) \cup {e}
    BY <1>4, <1>6 DEF HookStep, Moves
  <2>2. /\ e \in Driver /\ SameWork(d, e) /\ e.at = d.at + 1 /\ e.sub = "todo"
        /\ e.at - 1 = d.at
    <3>1. d.at \in 1 .. 7
      BY <1>4
    <3>2. QED
      BY <1>2, <3>1, NextStep
  <2> HIDE DEF e
  <2>3. DriverOK(e)'
    <3>1. e.kind = "hook" /\ e.op = 0 /\ e.at <= Len(Ladder[e.kind])
      <4>1. e.kind = d.kind /\ e.op = d.op
        BY <2>2 DEF SameWork
      <4>2. e.at <= 6 /\ Len(Ladder[e.kind]) = 6
        BY <1>4, <1>6, <2>2, <4>1
      <4>3. QED
        BY <1>3, <1>4, <4>1, <4>2
    <3>2. QED
      BY <2>2, <3>1 DEF DriverOK
  <2>4. Goes(d, {e})
    BY <1>3, <1>5, <2>1, <2>2, <2>3 DEF Goes
  <2>5. DriverStage(e)
    BY <1>1, <1>4, <2>2 DEF DriverStage, SameWork
  <2>6. QED
    BY <1>3, <1>5, <2>4, <2>5, Bookkeeping
<1>7. CASE ~(d.at < 6)
  <2>1. drivers' = (drivers \ {d}) \cup {}
    BY <1>4, <1>7 DEF HookStep, Ends
  <2>2. Goes(d, {})
    BY <1>5, <2>1 DEF Goes
  <2>3. QED
    BY <1>3, <1>5, <2>2, Bookkeeping
<1>8. QED
  BY <1>6, <1>7

(* An operation ends Done.                                                  *)
LEMMA CompleteKeeps ==
  ASSUME IInv, NEW d \in drivers, Complete(d)
  PROVE  IInv'
<1>1. TypeOK /\ DriverInv /\ StageInv /\ DriverStage(d)
  BY DEF IInv, StageInv
<1>2. /\ d \in Driver /\ DriverOK(d) /\ d.host \in Node
      /\ d.kind \in DOMAIN Ladder /\ d.at \in 1 .. Len(Ladder[d.kind])
  BY <1>1, DriverShape
<1>3. /\ d.op # 0 /\ UNCHANGED <<inst, slots, ops, faults>>
      /\ journal' = [journal EXCEPT ![d.host][d.op].status = "Done"]
      /\ d.sub # "fanout"
  BY DEF Complete
<1>4. /\ d.op \in DOMAIN journal[d.host]
      /\ Entry(d).kind = d.kind /\ Entry(d).node = d.node
      /\ Entry(d).primary = d.primary
  BY <1>2, <1>3 DEF DriverOK
<1>5. Rewritten(d.host, d.op) /\ journal'[d.host][d.op].status = "Done"
  BY <1>1, <1>2, <1>3, <1>4, StatusSet
<1>6. d.op \notin InProgress(d.host)'
  BY <1>5 DEF InProgress
<1>7. CASE d.kind = "handoff" /\ d.who = "first"
  <2> DEFINE e == [d EXCEPT !.sub = "fanout"]
  <2>1. drivers' = (drivers \ {d}) \cup {e}
    BY <1>7 DEF Complete, Moves
  <2>2. e \in Driver /\ SameWork(d, e) /\ e.at = d.at /\ e.sub = "fanout"
    BY <1>2 DEF Driver, SameWork
  <2> HIDE DEF e
  <2>3. /\ d.op \in DOMAIN journal'[d.host]
        /\ journal'[d.host][d.op].kind = d.kind
        /\ journal'[d.host][d.op].node = d.node
        /\ journal'[d.host][d.op].primary = d.primary
    BY <1>2, <1>4, <1>5 DEF Rewritten, Entry
  <2>4. DriverOK(e)'
    BY <1>2, <1>3, <1>5, <1>7, <2>2, <2>3 DEF DriverOK, SameWork, Entry
  <2>5. Goes(d, {e})
    BY <1>3, <1>5, <1>6, <1>7, <2>1, <2>2, <2>4 DEF Goes
  <2>6. d.at = 8
    <3>1. d.at = Len(Ladder[d.kind]) \/ Step(d) = "complete"
      BY <1>7 DEF Complete, Skips
    <3>2. /\ d.at \in 1 .. 8 /\ Len(Ladder[d.kind]) = 8
          /\ d.at \in 1 .. 7 => Step(d) # "complete"
      BY <1>2, <1>7, Ladders
    <3>3. QED
      BY <3>1, <3>2
  <2>7. Lead(d.primary)
    <3>1. Past(d) \in {7, 8}
      BY <2>6 DEF Past
    <3>2. QED
      BY <1>1, <1>3, <1>7, <3>1 DEF DriverStage, Handed
  <2>8. DriverStage(e)
    BY <1>7, <2>2, <2>7 DEF DriverStage, SameWork
  <2>9. QED
    BY <1>3, <1>6, <2>5, <2>8, Bookkeeping
<1>8. CASE ~(d.kind = "handoff" /\ d.who = "first")
  <2>1. drivers' = (drivers \ {d}) \cup {}
    BY <1>8 DEF Complete, Ends
  <2>2. Goes(d, {})
    BY <1>5, <2>1 DEF Goes
  <2>3. QED
    BY <1>3, <1>6, <2>2, Bookkeeping
<1>9. QED
  BY <1>7, <1>8

(* A step fails.                                                            *)
LEMMA FailKeeps ==
  ASSUME IInv, NEW d \in drivers, Fail(d)
  PROVE  IInv'
<1> DEFINE cleans == IF d.kind = "handoff" THEN Step(d) = "copy"
                     ELSE Step(d) \in {"copy", "conf", "start"}
           gives_up == d.op # 0 /\ (d.kind # "handoff" \/ cleans)
<1>1. TypeOK /\ InstInv /\ ClaimInv /\ DriverInv /\ StageInv
  BY DEF IInv
<1>2. /\ d \in Driver /\ DriverOK(d) /\ d.host \in Node
      /\ d.node \in Node /\ d.primary \in Node
      /\ d.kind \in DOMAIN Ladder /\ d.at \in 1 .. Len(Ladder[d.kind])
  BY <1>1, DriverShape
<1>3. /\ drivers' = (drivers \ {d}) \cup {} /\ inst' = inst /\ ops' = ops
      /\ d.sub # "fanout"
      /\ slots' = slots \/ (cleans /\ slots' = SlotDropped(d.primary, d.node))
      /\ journal' = IF gives_up
                      THEN [journal EXCEPT ![d.host][d.op].status = "Abandoned"]
                      ELSE journal
  BY DEF Fail, Ends
<1>4. faults' \in 0 .. MaxFaults
  BY <1>1, FaultFacts DEF Fail, TypeOK
<1>5. slots' \in [Node -> SUBSET Node]
  BY <1>1, <1>2, <1>3, ZenonT(60) DEF TypeOK, SlotDropped
<1>6. d.op # 0 => d.op \in DOMAIN journal[d.host] /\ Entry(d).kind = d.kind
  BY <1>2 DEF DriverOK
<1>7. Rewritten(d.host, d.op)
      /\ (d.op \in InProgress(d.host)' => journal' = journal /\ slots' = slots)
  <2>1. CASE gives_up
    <3>1. d.op # 0 /\ journal' = [journal EXCEPT ![d.host][d.op].status = "Abandoned"]
      BY <1>3, <2>1
    <3>2. Rewritten(d.host, d.op) /\ journal'[d.host][d.op].status = "Abandoned"
      BY <1>1, <1>2, <1>6, <3>1, StatusSet
    <3>3. QED
      BY <3>2 DEF InProgress
  <2>2. CASE ~gives_up
    <3>1. journal' = journal
      BY <1>3, <2>2
    <3>2. d.op \in InProgress(d.host) => d.op # 0
      BY <1>1, <1>2, EntryShape
    <3>3. d.op # 0 => slots' = slots
      BY <1>3, <2>2
    <3>4. QED
      BY <1>1, <3>1, <3>2, <3>3, NotRewritten DEF InProgress
  <2>3. QED
    BY <2>1, <2>2
<1>8. Goes(d, {})
  BY <1>3, <1>7 DEF Goes
<1>9. /\ drivers' \subseteq Driver /\ journal' \in [Node -> Seq(InflightOp)]
      /\ ClaimInv' /\ DriverInv'
  BY <1>8, GoesFacts
<1>10. TypeOK' /\ InstInv'
  BY <1>1, <1>3, <1>4, <1>5, <1>9, InstStays DEF TypeOK
<1>11. /\ \A x \in drivers : x # d => DriverStage(x)'
       /\ \A h \in Node : \A i \in InProgress(h) : \A op :
            op = journal[h][i] /\ ~(d.host = h /\ d.op = i) => EntryStage(op)'
  <2>1. CASE d.kind = "allow_async"
    <3>1. Step(d) = "clear"
      BY <1>2, <2>1, Ladders
    <3>2. slots' = slots
      BY <1>3, <2>1, <3>1
    <3>3. QED
      BY <1>1, <1>3, <3>2, StagesStay
  <2>2. CASE d.kind # "allow_async"
    <3>1. Elsewhere(d.node)
      BY <1>3 DEF Elsewhere
    <3>2. QED
      BY <1>3, <2>2, <3>1, OthersKept
  <2>3. QED
    BY <2>1, <2>2
<1>12. d.op \in InProgress(d.host)' =>
         \A op : op = journal'[d.host][d.op] => EntryStage(op)'
  <2>1. SUFFICES ASSUME d.op \in InProgress(d.host)'
                 PROVE  \A op : op = journal'[d.host][d.op] => EntryStage(op)'
    OBVIOUS
  <2>2. journal' = journal /\ slots' = slots
    BY <1>7, <2>1
  <2>3. d.op \in InProgress(d.host)
    BY <2>1, <2>2 DEF InProgress
  <2>4. QED
    BY <1>1, <1>2, <1>3, <2>2, <2>3, StagesStay
<1>13. StageInv'
  BY <1>8, <1>11, <1>12, GoesStage
<1>14. QED
  BY <1>9, <1>10, <1>13 DEF IInv

-----------------------------------------------------------------------------
(* New operations: the journal of one daemon grows at its end.             *)
Grown(h) ==
  /\ journal' \in [Node -> Seq(InflightOp)]
  /\ \A g \in Node : \A j \in DOMAIN journal[g] :
       j \in DOMAIN journal'[g] /\ journal'[g][j] = journal[g][j]
  /\ \A g \in Node : \A j \in DOMAIN journal'[g] :
       j \notin DOMAIN journal[g] => g = h /\ j > Len(journal[h])

(* Entries are appended to one journal.                                     *)
LEMMA GrownFacts ==
  ASSUME TypeOK, NEW h \in Node, NEW s \in Seq(InflightOp),
         journal' = [journal EXCEPT ![h] = journal[h] \o s]
  PROVE  /\ Grown(h)
         /\ DOMAIN journal'[h] = 1 .. Len(journal[h]) + Len(s)
         /\ \A i \in 1 .. Len(s) : journal'[h][Len(journal[h]) + i] = s[i]
<1>1. journal \in [Node -> Seq(InflightOp)] /\ journal[h] \in Seq(InflightOp)
  BY DEF TypeOK
<1> DEFINE t == journal[h] \o s
<1>2. /\ t \in Seq(InflightOp) /\ Len(t) = Len(journal[h]) + Len(s)
      /\ Len(s) \in Nat /\ Len(journal[h]) \in Nat
      /\ \A j \in 1 .. Len(journal[h]) : t[j] = journal[h][j]
      /\ \A i \in 1 .. Len(s) : t[Len(journal[h]) + i] = s[i]
  BY <1>1
<1>3. journal' = [journal EXCEPT ![h] = t]
  OBVIOUS
<1> HIDE DEF t
<1>4. /\ journal' \in [Node -> Seq(InflightOp)] /\ journal'[h] = t
      /\ \A g \in Node : g # h => journal'[g] = journal[g]
  BY <1>1, <1>2, <1>3
<1>5. DOMAIN t = 1 .. Len(journal[h]) + Len(s) /\ DOMAIN journal[h] = 1 .. Len(journal[h])
  BY <1>1, <1>2
<1>6. \A g \in Node : \A j \in DOMAIN journal[g] :
        j \in DOMAIN journal'[g] /\ journal'[g][j] = journal[g][j]
  BY <1>2, <1>4, <1>5
<1>7. \A g \in Node : \A j \in DOMAIN journal'[g] :
        j \notin DOMAIN journal[g] => g = h /\ j > Len(journal[h])
  BY <1>2, <1>4, <1>5
<1>8. Grown(h)
  BY <1>4, <1>6, <1>7 DEF Grown
<1>9. QED
  BY <1>2, <1>4, <1>5, <1>8

(* One entry is appended.                                                   *)
LEMMA AppendFacts ==
  ASSUME TypeOK, NEW h \in Node, NEW op \in InflightOp,
         journal' = [journal EXCEPT ![h] = Append(@, op)]
  PROVE  /\ Grown(h) /\ Len(journal[h]) \in Nat
         /\ DOMAIN journal'[h] = 1 .. Len(journal[h]) + 1
         /\ journal'[h][Len(journal[h]) + 1] = op
<1>1. journal[h] \in Seq(InflightOp) /\ Len(journal[h]) \in Nat
  BY DEF TypeOK
<1> DEFINE s == <<op>>
<1>2. Append(journal[h], op) = journal[h] \o s
  BY <1>1
<1>3. journal' = [journal EXCEPT ![h] = journal[h] \o s]
  BY <1>2
<1>4. s \in Seq(InflightOp) /\ Len(s) = 1 /\ s[1] = op
  OBVIOUS
<1> HIDE DEF s
<1>5. /\ Grown(h)
      /\ DOMAIN journal'[h] = 1 .. Len(journal[h]) + Len(s)
      /\ \A i \in 1 .. Len(s) : journal'[h][Len(journal[h]) + i] = s[i]
  BY <1>3, <1>4, GrownFacts
<1>6. 1 \in 1 .. Len(s)
  BY <1>4
<1>7. journal'[h][Len(journal[h]) + 1] = op
  BY <1>4, <1>5, <1>6
<1>8. QED
  BY <1>1, <1>4, <1>5, <1>7

(* What was there before is not disturbed.                                 *)
LEMMA GrownOld ==
  ASSUME IInv, NEW h \in Node, Grown(h), inst' = inst, slots' = slots
  PROVE  /\ \A d \in drivers : DriverOK(d)' /\ DriverStage(d)'
         /\ \A d \in drivers : d.host = h => d.op <= Len(journal[h])
         /\ \A g \in Node : \A j \in InProgress(g)' :
              j \in DOMAIN journal[g] => j \in InProgress(g) /\ EntryStage(journal[g][j])'
<1>1. TypeOK /\ DriverInv /\ StageInv
  BY DEF IInv
<1>2. /\ \A d \in drivers : DriverStage(d)'
      /\ \A g \in Node : \A i \in InProgress(g) : \A op :
           op = journal[g][i] => EntryStage(op)'
  BY <1>1, StagesStay
<1>3. ASSUME NEW d \in drivers
      PROVE  DriverOK(d)' /\ (d.host = h => d.op <= Len(journal[h]))
  <2>1. DriverOK(d) /\ d.host \in Node
    BY <1>1, DriverShape
  <2>2. CASE d.kind = "hook"
    <3>1. d.op = 0 /\ Len(journal[h]) \in Nat
      BY <1>1, <2>1, <2>2, EntryShape DEF DriverOK
    <3>2. QED
      BY <2>1, <2>2, <3>1 DEF DriverOK, Step
  <2>3. CASE d.kind # "hook"
    <3>1. d.op \in DOMAIN journal[d.host]
      BY <2>1, <2>3 DEF DriverOK
    <3>2. d.op \in DOMAIN journal'[d.host] /\ journal'[d.host][d.op] = journal[d.host][d.op]
      BY <2>1, <3>1 DEF Grown
    <3>3. d.host = h => d.op <= Len(journal[h])
      BY <1>1, <2>1, <3>1, EntryShape
    <3>4. QED
      BY <2>1, <2>3, <3>2, <3>3 DEF DriverOK, Step, Entry
  <2>4. QED
    BY <2>2, <2>3
<1>4. ASSUME NEW g \in Node, NEW j \in InProgress(g)', j \in DOMAIN journal[g]
      PROVE  j \in InProgress(g) /\ EntryStage(journal[g][j])'
  <2>1. journal'[g][j] = journal[g][j]
    BY <1>4 DEF Grown
  <2>2. j \in InProgress(g)
    BY <1>4, <2>1 DEF InProgress
  <2>3. QED
    BY <1>2, <2>1, <2>2
<1>5. QED
  BY <1>2, <1>3, <1>4

(* What `begin` makes has its type.                                         *)
LEMMA NewOpFacts ==
  ASSUME NEW kind \in {"handoff", "follow", "allow_async"}, NEW n \in Node, NEW p \in Node,
         NEW h \in Node, NEW i \in Nat
  PROVE  /\ NewOp(kind, n, p) \in InflightOp
         /\ NewDriver(h, i, kind, n, p) \in Driver
  BY Lengths DEF NewOp, InflightOp, NewDriver, Driver

-----------------------------------------------------------------------------
(* Operations that begin, are resumed, abandoned, or lose their daemon.    *)
LEMMA OpsFacts ==
  ASSUME TypeOK, ops > 0, ops' = ops - 1
  PROVE  ops' \in 0 .. MaxOps
<1>1. ops \in 0 .. MaxOps /\ MaxOps \in Nat
  BY HandoffAssumption DEF TypeOK
<1>2. QED
  BY <1>1

(* cluster_handoff starts its operation.                                    *)
LEMMA HandoffBegins ==
  ASSUME IInv, Overlap = FALSE, NEW h \in Node, NEW p \in Node, ClusterHandoff(h, p)
  PROVE  IInv'
<1>0. Len(journal[h]) \in Nat
  BY EntryShape DEF IInv
<1> PICK i \in Nat : i = Len(journal[h]) + 1
  BY <1>0
<1> DEFINE op == NewOp("handoff", h, p)
           nd == NewDriver(h, i, "handoff", h, p)
<1>1. TypeOK /\ InstInv /\ StageInv
  BY DEF IInv
<1>2. /\ Serving(h) /\ p # h /\ drivers = {} /\ \A m \in Node : InProgress(m) = {}
      /\ ops > 0 /\ ops' = ops - 1 /\ UNCHANGED <<inst, slots, faults>>
      /\ journal' = [journal EXCEPT ![h] = Append(@, op)]
      /\ drivers' = drivers \cup {nd}
  BY DEF ClusterHandoff, Orderly, Begin
<1>3. Len(journal[h]) \in Nat /\ op \in InflightOp /\ nd \in Driver
  BY <1>0, NewOpFacts
<1>4. /\ op.kind = "handoff" /\ op.node = h /\ op.primary = p /\ op.phase = 0
      /\ op.status = "InProgress"
      /\ nd.host = h /\ nd.op = i /\ nd.kind = "handoff" /\ nd.node = h
      /\ nd.primary = p /\ nd.at = 1 /\ nd.sub = "todo"
  BY DEF NewOp, NewDriver
<1> HIDE DEF op, nd
<1>5. /\ Grown(h) /\ DOMAIN journal'[h] = 1 .. i /\ journal'[h][i] = op /\ i # 0
      /\ i \in 1 .. i
  <2>1. i # 0 /\ i \in 1 .. i
    BY <1>0
  <2>2. QED
    BY <1>1, <1>2, <1>3, <2>1, AppendFacts
<1>6. ASSUME NEW g \in Node, NEW j \in InProgress(g)'
      PROVE  g = h /\ j = i
  <2>1. j \in DOMAIN journal'[g]
    BY <1>6 DEF InProgress
  <2>2. j \notin DOMAIN journal[g]
    BY <1>2, <1>5, <1>6, GrownOld
  <2>3. g = h /\ j > Len(journal[h]) /\ j \in 1 .. i
    BY <1>5, <2>1, <2>2 DEF Grown
  <2>4. QED
    BY <1>3, <2>3
<1>7. TypeOK' /\ InstInv'
  <2>1. journal' \in [Node -> Seq(InflightOp)] /\ drivers' \subseteq Driver
    BY <1>2, <1>3, <1>5 DEF Grown
  <2>2. ops' \in 0 .. MaxOps
    BY <1>1, <1>2, OpsFacts
  <2>3. QED
    BY <1>1, <1>2, <2>1, <2>2, InstStays DEF TypeOK
<1>8. ClaimInv'
  <2>1. ASSUME NEW c \in Claims'
        PROVE  c.host = h /\ c.op = i /\ c.node = h /\ c.primary = p
    <3>1. c \in Claim /\ ((\E e \in drivers' : Drives(e, c)) \/ Opens(c)')
      BY <2>1 DEF Claims, Drives, Claim
    <3>2. CASE \E e \in drivers' : Drives(e, c)
      BY <1>2, <1>4, <3>2 DEF Drives
    <3>3. CASE Opens(c)'
      <4>1. c.host = h /\ c.op = i
        BY <1>6, <3>1, <3>3 DEF Opens, Claim
      <4>2. QED
        BY <1>4, <1>5, <3>3, <4>1 DEF Opens
    <3>4. QED
      BY <3>1, <3>2, <3>3
  <2>2. Fans' = {}
    BY <1>2, <1>4 DEF Fans
  <2>3. QED
    BY <1>2, <2>1, <2>2 DEF ClaimInv, Apart
<1>9. DriverInv'
  <2>1. DriverOK(nd)'
    BY <1>4, <1>5, Lengths DEF DriverOK, Entry
  <2>2. QED
    BY <1>2, <2>1 DEF DriverInv
<1>10. StageInv'
  <2>1. Handed(h, p, 0)' /\ Past(nd) = 0
    BY <1>2, <1>4 DEF Handed, Serving, Past
  <2>2. DriverStage(nd)'
    BY <1>4, <2>1 DEF DriverStage
  <2>3. EntryStage(op)'
    BY <1>4, <2>1, Lengths DEF EntryStage
  <2>4. \A g \in Node : \A j \in InProgress(g)' : EntryStage(journal[g][j])'
    BY <1>5, <1>6, <2>3
  <2>5. QED
    BY <1>2, <2>2, <2>4 DEF StageInv
<1>11. QED
  BY <1>7, <1>8, <1>9, <1>10 DEF IInv

(* allow_async, which may be started beside other work.                     *)
LEMMA AsyncBegins ==
  ASSUME IInv, NEW h \in Node, AllowAsync(h)
  PROVE  IInv'
<1>0. Len(journal[h]) \in Nat
  BY EntryShape DEF IInv
<1> PICK i \in Nat : i = Len(journal[h]) + 1
  BY <1>0
<1> DEFINE op == NewOp("allow_async", h, h)
           nd == NewDriver(h, i, "allow_async", h, h)
<1>1. TypeOK /\ InstInv /\ ClaimInv /\ DriverInv /\ StageInv
  BY DEF IInv
<1>2. /\ ops > 0 /\ ops' = ops - 1 /\ UNCHANGED <<inst, slots, faults>>
      /\ journal' = [journal EXCEPT ![h] = Append(@, op)]
      /\ drivers' = drivers \cup {nd}
  BY DEF AllowAsync, Begin
<1>3. Len(journal[h]) \in Nat /\ op \in InflightOp /\ nd \in Driver
  BY <1>0, NewOpFacts
<1>4. /\ op.kind = "allow_async" /\ op.node = h /\ op.primary = h /\ op.phase = 0
      /\ op.status = "InProgress"
      /\ nd.host = h /\ nd.op = i /\ nd.kind = "allow_async" /\ nd.node = h
      /\ nd.primary = h /\ nd.at = 1 /\ nd.sub = "todo"
  BY DEF NewOp, NewDriver
<1> HIDE DEF op, nd
<1>5. /\ Grown(h) /\ DOMAIN journal'[h] = 1 .. i /\ journal'[h][i] = op /\ i # 0
      /\ i \in 1 .. i
  <2>1. i # 0 /\ i \in 1 .. i
    BY <1>0
  <2>2. QED
    BY <1>1, <1>2, <1>3, <2>1, AppendFacts
<1>6. /\ \A d \in drivers : DriverOK(d)' /\ DriverStage(d)'
      /\ \A d \in drivers : d.host = h => d.op <= Len(journal[h])
      /\ \A g \in Node : \A j \in InProgress(g)' :
           j \in DOMAIN journal[g] => j \in InProgress(g) /\ EntryStage(journal[g][j])'
  BY <1>2, <1>5, GrownOld
<1>7. ASSUME NEW g \in Node, NEW j \in InProgress(g)', j \notin DOMAIN journal[g]
      PROVE  g = h /\ j = i
  <2>1. j \in DOMAIN journal'[g]
    BY <1>7 DEF InProgress
  <2>2. g = h /\ j > Len(journal[h]) /\ j \in 1 .. i
    BY <1>5, <1>7, <2>1 DEF Grown
  <2>3. QED
    BY <1>3, <2>2
<1>8. \A d \in drivers : ~(d.host = h /\ d.op = i)
  <2>1. \A d \in drivers : d.op \in Nat
    BY <1>1, DriverShape
  <2>2. QED
    BY <1>3, <1>6, <2>1
<1>9. TypeOK' /\ InstInv'
  <2>1. journal' \in [Node -> Seq(InflightOp)] /\ drivers' \subseteq Driver
    BY <1>1, <1>2, <1>3, <1>5 DEF Grown, TypeOK
  <2>2. ops' \in 0 .. MaxOps
    BY <1>1, <1>2, OpsFacts
  <2>3. QED
    BY <1>1, <1>2, <2>1, <2>2, InstStays DEF TypeOK
<1>10. ClaimInv'
  <2>1. \A e \in drivers' : FromOld(e)
    BY <1>2, <1>4 DEF FromOld
  <2>2. \A g \in Node : \A j \in InProgress(g)' :
          \/ journal'[g][j].kind = "allow_async"
          \/ /\ j \in InProgress(g)
             /\ journal'[g][j].kind = journal[g][j].kind
             /\ journal'[g][j].node = journal[g][j].node
             /\ journal'[g][j].primary = journal[g][j].primary
    BY <1>4, <1>5, <1>6, <1>7 DEF Grown
  <2>3. QED
    BY <1>1, <2>1, <2>2, FewerClaims
<1>11. DriverInv'
  <2>1. DriverOK(nd)'
    BY <1>4, <1>5, Lengths DEF DriverOK, Entry
  <2>2. \A e, f \in drivers' : e.host = f.host /\ e.op = f.op => e = f
    BY <1>1, <1>2, <1>4, <1>8 DEF DriverInv
  <2>3. QED
    BY <1>2, <1>6, <2>1, <2>2 DEF DriverInv
<1>12. StageInv'
  <2>1. DriverStage(nd)'
    BY <1>4 DEF DriverStage
  <2>2. EntryStage(op)'
    BY <1>4, Lengths DEF EntryStage
  <2>3. \A g \in Node : \A j \in InProgress(g)' : EntryStage(journal[g][j])'
    BY <1>5, <1>6, <1>7, <2>2
  <2>4. QED
    BY <1>2, <1>6, <2>1, <2>3 DEF StageInv
<1>13. QED
  BY <1>9, <1>10, <1>11, <1>12 DEF IInv

(* pgpool starts the hook.                                                  *)
LEMMA HookBegins ==
  ASSUME IInv, Overlap = FALSE, NEW h \in Node, NEW n \in Node, FollowPrimaryHook(h, n)
  PROVE  IInv'
<1> DEFINE nd == NewDriver(h, 0, "hook", n, h)
<1>1. TypeOK /\ InstInv /\ StageInv
  BY DEF IInv
<1>2. /\ Serving(h) /\ n # h /\ drivers = {} /\ \A m \in Node : InProgress(m) = {}
      /\ ops > 0 /\ ops' = ops - 1 /\ UNCHANGED <<inst, slots, journal, faults>>
      /\ drivers' = drivers \cup {nd}
  BY DEF FollowPrimaryHook, Orderly
<1>3. /\ nd \in Driver
      /\ nd.host = h /\ nd.op = 0 /\ nd.kind = "hook" /\ nd.node = n
      /\ nd.primary = h /\ nd.at = 1 /\ nd.sub = "todo"
  BY Lengths DEF NewDriver, Driver
<1> HIDE DEF nd
<1>4. \A m \in Node : InProgress(m)' = {}
  BY <1>2 DEF InProgress
<1>5. TypeOK' /\ InstInv'
  <2>1. ops' \in 0 .. MaxOps
    BY <1>1, <1>2, OpsFacts
  <2>2. QED
    BY <1>1, <1>2, <1>3, <2>1, InstStays DEF TypeOK
<1>6. ClaimInv'
  <2>1. ASSUME NEW c \in Claims'
        PROVE  c.host = h /\ c.op = 0 /\ c.node = n /\ c.primary = h
    <3>1. c \in Claim /\ ((\E e \in drivers' : Drives(e, c)) \/ Opens(c)')
      BY <2>1 DEF Claims, Drives, Claim
    <3>2. ~Opens(c)'
      BY <1>4, <3>1 DEF Opens, Claim
    <3>3. QED
      BY <1>2, <1>3, <3>1, <3>2 DEF Drives
  <2>2. Fans' = {}
    BY <1>2, <1>3 DEF Fans
  <2>3. QED
    BY <1>2, <2>1, <2>2 DEF ClaimInv, Apart
<1>7. DriverInv'
  <2>1. DriverOK(nd)'
    BY <1>3, Lengths DEF DriverOK
  <2>2. QED
    BY <1>2, <2>1 DEF DriverInv
<1>8. StageInv'
  <2>1. DriverStage(nd)'
    BY <1>2, <1>3 DEF DriverStage, Lead, Serving
  <2>2. QED
    BY <1>2, <1>4, <2>1 DEF StageInv
<1>9. QED
  BY <1>5, <1>6, <1>7, <1>8 DEF IInv

(* The fan-out begins the follow of one more member, or ends.              *)
LEMMA FanOutKeeps ==
  ASSUME IInv, NEW d \in drivers, FanOut(d)
  PROVE  IInv' /\ (Grown(d.host) \/ journal' = journal)
<1> PICK h \in Node, p \in Node : h = d.host /\ p = d.primary
  BY DriverShape DEF IInv
<1>0. Len(journal[h]) \in Nat
  BY EntryShape DEF IInv
<1> PICK i \in Nat : i = Len(journal[h]) + 1
  BY <1>0
<1>1. TypeOK /\ InstInv /\ ClaimInv /\ DriverInv /\ StageInv
  BY DEF IInv
<1>2. /\ d.sub = "fanout" /\ d \in Fans /\ UNCHANGED <<inst, slots, ops, faults>>
  BY DEF FanOut, Fans
<1>3. /\ d.kind = "handoff" /\ d.op \in DOMAIN journal[h]
      /\ journal[h][d.op].status = "Done" /\ Lead(p)
  <2>1. DriverOK(d) /\ DriverStage(d)
    BY <1>1, DriverShape DEF StageInv
  <2>2. QED
    BY <1>2, <2>1 DEF DriverOK, DriverStage, Entry
<1>4. d.op \in Nat /\ d.op <= Len(journal[h])
  BY <1>0, <1>1, <1>3, EntryShape
<1>5. CASE drivers' = drivers \ {d} /\ journal' = journal
  <2>1. drivers' = (drivers \ {d}) \cup {}
    BY <1>5
  <2>2. d.op \notin InProgress(d.host)' /\ Rewritten(d.host, d.op)
    BY <1>1, <1>3, <1>5, NotRewritten DEF InProgress
  <2>3. Goes(d, {})
    BY <2>1, <2>2 DEF Goes
  <2>4. IInv'
    BY <1>2, <2>2, <2>3, Bookkeeping
  <2>5. QED
    BY <1>5, <2>4
<1>6. ASSUME NEW m \in Node, m # p,
             \A j \in SameKey(h, "follow", m, p) : j <= d.op,
             journal' = [journal EXCEPT ![h] = Append(@, NewOp("follow", m, p))],
             drivers' = drivers \cup {NewDriver(h, i, "follow", m, p)}
      PROVE  IInv' /\ Grown(h)
  <2> DEFINE op == NewOp("follow", m, p)
             nd == NewDriver(h, i, "follow", m, p)
  <2>1. op \in InflightOp /\ nd \in Driver
    BY NewOpFacts
  <2>2. /\ op.kind = "follow" /\ op.node = m /\ op.primary = p /\ op.phase = 0
        /\ op.status = "InProgress"
        /\ nd.host = h /\ nd.op = i /\ nd.kind = "follow" /\ nd.node = m
        /\ nd.primary = p /\ nd.at = 1 /\ nd.sub = "todo"
    BY DEF NewOp, NewDriver
  <2>3. /\ journal' = [journal EXCEPT ![h] = Append(@, op)]
        /\ drivers' = drivers \cup {nd}
    BY <1>6
  <2> HIDE DEF op, nd
  <2>4. /\ Grown(h) /\ DOMAIN journal'[h] = 1 .. i /\ journal'[h][i] = op /\ i # 0
        /\ i \in 1 .. i
    <3>1. i # 0 /\ i \in 1 .. i
      BY <1>0
    <3>2. QED
      BY <1>1, <2>1, <2>3, <3>1, AppendFacts
  <2>5. /\ \A x \in drivers : DriverOK(x)' /\ DriverStage(x)'
        /\ \A x \in drivers : x.host = h => x.op <= Len(journal[h])
        /\ \A g \in Node : \A j \in InProgress(g)' :
             j \in DOMAIN journal[g] => j \in InProgress(g) /\ EntryStage(journal[g][j])'
    BY <1>2, <2>4, GrownOld
  <2>6. ASSUME NEW g \in Node, NEW j \in InProgress(g)', j \notin DOMAIN journal[g]
        PROVE  g = h /\ j = i
    <3>1. j \in DOMAIN journal'[g]
      BY <2>6 DEF InProgress
    <3>2. g = h /\ j > Len(journal[h]) /\ j \in 1 .. i
      BY <2>4, <2>6, <3>1 DEF Grown
    <3>3. QED
      BY <1>0, <3>2
  <2>7. \A x \in drivers : ~(x.host = h /\ x.op = i)
    <3>1. \A x \in drivers : x.op \in Nat
      BY <1>1, DriverShape
    <3>2. QED
      BY <1>0, <2>5, <3>1
  <2>8. TypeOK' /\ InstInv'
    <3>1. journal' \in [Node -> Seq(InflightOp)] /\ drivers' \subseteq Driver
      BY <1>1, <2>1, <2>3, <2>4 DEF Grown, TypeOK
    <3>2. QED
      BY <1>1, <1>2, <3>1, InstStays DEF TypeOK
  <2>9. ASSUME NEW c \in Claims'
        PROVE  \/ c \in Claims
               \/ c.host = h /\ c.op = i /\ c.kind = "follow" /\ c.node = m /\ c.primary = p
    <3>1. /\ c \in Claim /\ c.host \in Node
          /\ (\E e \in drivers' : e.sub # "fanout" /\ Drives(e, c)) \/ Opens(c)'
      BY <2>9 DEF Claims, Drives, Claim
    <3>2. CASE \E e \in drivers' : e.sub # "fanout" /\ Drives(e, c)
      <4>1. PICK e \in drivers' : e.sub # "fanout" /\ Drives(e, c)
        BY <3>2
      <4>2. CASE e \in drivers
        BY <3>1, <4>1, <4>2 DEF Claims
      <4>3. CASE e = nd
        BY <2>2, <4>1, <4>3 DEF Drives
      <4>4. QED
        BY <2>3, <4>1, <4>2, <4>3
    <3>3. CASE Opens(c)'
      <4>1. c.op \in InProgress(c.host)'
        BY <3>3 DEF Opens
      <4>2. CASE c.op \in DOMAIN journal[c.host]
        <5>1. c.op \in InProgress(c.host)
              /\ journal'[c.host][c.op] = journal[c.host][c.op]
          BY <2>4, <2>5, <3>1, <4>1, <4>2 DEF Grown
        <5>2. Opens(c)
          BY <3>3, <5>1 DEF Opens
        <5>3. QED
          BY <3>1, <5>2 DEF Claims
      <4>3. CASE c.op \notin DOMAIN journal[c.host]
        <5>1. c.host = h /\ c.op = i
          BY <2>6, <3>1, <4>1, <4>3
        <5>2. QED
          BY <2>2, <2>4, <3>3, <5>1 DEF Opens
      <4>4. QED
        BY <4>2, <4>3
    <3>4. QED
      BY <3>1, <3>2, <3>3
  <2>10. ASSUME NEW c \in Claims
         PROVE  /\ c.kind = "follow" /\ c.host = h /\ c.primary = p
                /\ c.op > d.op /\ c.node # m /\ c.node # p
    <3>1. /\ c.kind = "follow" /\ c.host = h /\ c.primary = p
          /\ c.op > d.op /\ c.node # p /\ c.op \in Nat
      BY <1>1, <1>2, <2>10 DEF ClaimInv, Spawned, Apart, Claims, Claim
    <3>2. /\ c.op \in DOMAIN journal[h] /\ journal[h][c.op].kind = "follow"
          /\ journal[h][c.op].node = c.node /\ journal[h][c.op].primary = p
      <4>1. CASE Opens(c)
        BY <3>1, <4>1 DEF Opens, InProgress
      <4>2. CASE \E x \in drivers : Drives(x, c)
        <5>1. PICK x \in drivers : Drives(x, c)
          BY <4>2
        <5>2. DriverOK(x)
          BY <1>1, DriverShape
        <5>3. QED
          BY <3>1, <5>1, <5>2 DEF DriverOK, Drives, Entry
      <4>3. QED
        BY <2>10, <4>1, <4>2 DEF Claims
    <3>3. c.node # m
      <4>1. SUFFICES ASSUME c.node = m
                     PROVE  FALSE
        OBVIOUS
      <4>2. c.op \in SameKey(h, "follow", m, p)
        BY <3>2, <4>1 DEF SameKey
      <4>3. c.op <= d.op
        BY <1>6, <4>2
      <4>4. QED
        BY <1>4, <3>1, <4>3
    <3>4. QED
      BY <3>1, <3>3
  <2>11. ClaimInv'
    <3>1. i > d.op
      BY <1>0, <1>4
    <3>2. \A c \in Claims' : /\ c.kind = "follow" /\ c.host = h /\ c.primary = p
                             /\ c.op > d.op /\ c.node # p
      BY <1>6, <2>9, <2>10, <3>1
    <3>3. ASSUME NEW c \in Claims', NEW e \in Claims', c.node = e.node
          PROVE  c.host = e.host /\ c.op = e.op
      <4>1. CASE c \in Claims /\ e \in Claims
        BY <1>1, <3>3, <4>1 DEF ClaimInv, Apart
      <4>2. CASE c \notin Claims \/ e \notin Claims
        BY <2>9, <2>10, <3>3, <4>2
      <4>3. QED
        BY <4>1, <4>2
    <3>4. Apart(Claims')
      BY <3>2, <3>3 DEF Apart
    <3>5. Fans' = {d}
      BY <1>1, <1>2, <2>2, <2>3 DEF Fans, ClaimInv
    <3>6. Spawned(d, Claims')
      BY <3>2 DEF Spawned
    <3>7. QED
      BY <3>4, <3>5, <3>6 DEF ClaimInv
  <2>12. DriverInv'
    <3>1. DriverOK(nd)'
      BY <2>2, <2>4, Lengths DEF DriverOK, Entry
    <3>2. \A e, f \in drivers' : e.host = f.host /\ e.op = f.op => e = f
      BY <1>1, <2>2, <2>3, <2>7 DEF DriverInv
    <3>3. QED
      BY <2>3, <2>5, <3>1, <3>2 DEF DriverInv
  <2>13. StageInv'
    <3>1. Rebased(m, p, 0)' /\ Past(nd) = 0
      BY <1>2, <1>3, <2>2 DEF Rebased, Lead, Serving, Past
    <3>2. DriverStage(nd)'
      BY <2>2, <3>1 DEF DriverStage
    <3>3. EntryStage(op)'
      BY <2>2, <3>1, Lengths DEF EntryStage
    <3>4. \A g \in Node : \A j \in InProgress(g)' : EntryStage(journal[g][j])'
      BY <2>4, <2>5, <2>6, <3>3
    <3>5. QED
      BY <2>3, <2>5, <3>2, <3>4 DEF StageInv
  <2>14. QED
    BY <2>4, <2>8, <2>11, <2>12, <2>13 DEF IInv
<1>7. QED
  BY <1>5, <1>6 DEF FanOut, Ends

-----------------------------------------------------------------------------
(* The operator's commands, the crash and what instances do by themselves. *)

(* What verify_handoff_state has seen rules out that the cluster is ahead  *)
(* of the journal, but for the steps that resume may repeat.               *)
LEMMA VerifiedStage ==
  ASSUME NEW op, op.phase \in 0 .. 7, VerifyHandoffState(op),
         \/ Handed(op.node, op.primary, op.phase)
         \/ Handed(op.node, op.primary, op.phase + 1)
  PROVE  Handed(op.node, op.primary, op.phase)
<1>1. SUFFICES ASSUME Handed(op.node, op.primary, op.phase + 1)
               PROVE  Handed(op.node, op.primary, op.phase)
  OBVIOUS
<1>2. op.phase >= 1 => (inst[op.node].running <=> op.phase \notin 3..5)
  BY DEF VerifyHandoffState
<1>3. PICK n : n = op.node
  OBVIOUS
<1>4. PICK p : p = op.primary
  OBVIOUS
<1>5. PICK k \in 0 .. 7 : k = op.phase
  OBVIOUS
<1>6. Handed(n, p, k + 1) /\ (k >= 1 => (inst[n].running <=> k \notin 3 .. 5))
  BY <1>1, <1>2, <1>3, <1>4, <1>5
<1>7. Handed(n, p, k)
  BY <1>6 DEF Handed
<1>8. QED
  BY <1>3, <1>4, <1>5, <1>7

(* An operation without a driver is resumed.                                *)
LEMMA ResumeKeeps ==
  ASSUME IInv, Overlap = FALSE, NEW h \in Node, NEW i \in DOMAIN journal[h],
         ResumeInflightOp(h, i)
  PROVE  IInv'
<1>1. TypeOK /\ InstInv /\ ClaimInv /\ DriverInv /\ StageInv
  BY DEF IInv
<1>2. PICK op : op = journal[h][i]
  OBVIOUS
<1>3. /\ op.status = "InProgress" /\ ~Driven(h, i)
      /\ UNCHANGED <<inst, slots, journal, ops, faults>>
      /\ \/ op.kind = "handoff" /\ VerifyHandoffState(op)
         \/ op.kind = "follow"
      /\ Resumed(h, i)
  BY <1>2 DEF ResumeInflightOp, ResumeHandoff, ResumeFollowPrimary
<1>4. i \in InProgress(h) /\ i \in Nat /\ i # 0 /\ op \in InflightOp /\ EntryStage(op)
  BY <1>1, <1>2, <1>3, EntryShape DEF InProgress, StageInv
<1>5. op.kind \in {"handoff", "follow"} /\ op.phase \in 0 .. 7
  <2>1. op.kind \in {"handoff", "follow"}
    BY <1>3
  <2>2. QED
    BY <1>4, <2>1 DEF InflightOp
<1>6. PICK nd : nd = [NewDriver(h, i, op.kind, op.node, op.primary) EXCEPT
                        !.who = "resumed", !.at = op.phase + 1]
  OBVIOUS
<1>7. drivers' = drivers \cup {nd}
  BY <1>2, <1>3, <1>6 DEF Resumed
<1>8. /\ nd.host = h /\ nd.op = i /\ nd.kind = op.kind /\ nd.node = op.node
      /\ nd.primary = op.primary /\ nd.at = op.phase + 1 /\ nd.sub = "todo"
  BY <1>6 DEF NewDriver
<1>9. nd \in Driver
  <2>1. op.phase + 1 \in 1 .. 8 /\ op.kind \in DOMAIN Ladder
    BY <1>5, Lengths
  <2>2. op.node \in Node /\ op.primary \in Node
    BY <1>4 DEF InflightOp
  <2>3. QED
    BY <1>4, <1>6, <2>1, <2>2 DEF NewDriver, Driver
<1>10. TypeOK' /\ InstInv'
  BY <1>1, <1>3, <1>7, <1>9, InstStays DEF TypeOK
<1>11. ClaimInv'
  <2>1. Opens(nd)
    BY <1>2, <1>4, <1>8 DEF Opens
  <2>2. \A e \in drivers' : FromOld(e)
    BY <1>7, <1>8, <2>1 DEF FromOld
  <2>3. \A g \in Node : \A j \in InProgress(g)' :
          /\ j \in InProgress(g)
          /\ journal'[g][j].kind = journal[g][j].kind
          /\ journal'[g][j].node = journal[g][j].node
          /\ journal'[g][j].primary = journal[g][j].primary
    BY <1>3 DEF InProgress
  <2>4. QED
    BY <1>1, <2>2, <2>3, FewerClaims
<1>12. DriverInv'
  <2>1. DriverOK(nd)'
    <3>1. Len(Ladder[nd.kind]) = 8 /\ nd.kind # "hook"
      BY <1>5, <1>8, Lengths
    <3>2. nd.at <= Len(Ladder[nd.kind]) /\ nd.at - 1 = op.phase
      BY <1>5, <1>8, <3>1
    <3>3. QED
      BY <1>2, <1>3, <1>4, <1>8, <3>1, <3>2 DEF DriverOK, Entry
  <2>2. \A d \in drivers : DriverOK(d)'
    BY <1>1, <1>3 DEF DriverInv, DriverOK, Entry, Step
  <2>3. \A d \in drivers : ~(d.host = nd.host /\ d.op = nd.op)
    BY <1>3, <1>8 DEF Driven
  <2>4. QED
    BY <1>1, <1>7, <2>1, <2>2, <2>3 DEF DriverInv
<1>13. StageInv'
  <2>1. /\ \A e \in drivers : DriverStage(e)'
        /\ \A g \in Node : \A j \in InProgress(g) : \A x :
             x = journal[g][j] => EntryStage(x)'
        /\ \A n, p, s : Handed(n, p, s)' <=> Handed(n, p, s)
        /\ \A n, p, s : Rebased(n, p, s)' <=> Rebased(n, p, s)
    BY <1>1, <1>3, StagesStay
  <2>2. Past(nd) = op.phase
    BY <1>5, <1>8 DEF Past
  <2>3. op.kind = "handoff" => Handed(op.node, op.primary, op.phase)
    BY <1>3, <1>4, <1>5, VerifiedStage DEF EntryStage
  <2>4. op.kind = "follow" => Rebased(op.node, op.primary, op.phase)
    BY <1>4 DEF EntryStage
  <2>5. nd.kind # "hook" /\ nd.sub # "half" /\ nd.sub # "fanout"
    BY <1>5, <1>8
  <2>6. DriverStage(nd)'
    BY <1>8, <2>1, <2>2, <2>3, <2>4, <2>5 DEF DriverStage
  <2>7. \A e \in drivers' : DriverStage(e)'
    BY <1>7, <2>1, <2>6
  <2>8. \A g \in Node : \A j \in InProgress(g)' : EntryStage(journal[g][j])'
    BY <1>3, <2>1 DEF InProgress
  <2>9. QED
    BY <2>7, <2>8 DEF StageInv
<1>14. QED
  BY <1>10, <1>11, <1>12, <1>13 DEF IInv

(* An operation is abandoned, whether or not it is driven.                  *)
LEMMA AbandonKeeps ==
  ASSUME IInv, NEW h \in Node, NEW i \in DOMAIN journal[h], AbandonInflightOp(h, i)
  PROVE  IInv'
<1>1. TypeOK /\ InstInv /\ ClaimInv /\ DriverInv /\ StageInv
  BY DEF IInv
<1>2. /\ journal[h][i].status = "InProgress"
      /\ journal' = [journal EXCEPT ![h][i].status = "Abandoned"]
      /\ UNCHANGED <<inst, slots, drivers, ops>>
  BY DEF AbandonInflightOp
<1>3. faults' \in 0 .. MaxFaults
  <2>1. CASE Driven(h, i)
    BY <1>1, <2>1, FaultFacts DEF AbandonInflightOp
  <2>2. CASE ~Driven(h, i)
    BY <1>1, <2>2 DEF AbandonInflightOp, TypeOK
  <2>3. QED
    BY <2>1, <2>2
<1>4. Rewritten(h, i) /\ journal'[h][i].status = "Abandoned"
  BY <1>1, <1>2, StatusSet
<1>5. \A g \in Node : \A j \in InProgress(g)' :
        /\ j \in InProgress(g) /\ journal'[g][j] = journal[g][j]
  BY <1>4 DEF Rewritten, InProgress
<1>6. TypeOK' /\ InstInv'
  BY <1>1, <1>2, <1>3, <1>4, InstStays DEF TypeOK, Rewritten
<1>7. ClaimInv'
  <2>1. \A e \in drivers' : FromOld(e)
    BY <1>2 DEF FromOld
  <2>2. QED
    BY <1>1, <1>5, <2>1, FewerClaims
<1>8. DriverInv'
  <2>1. ASSUME NEW d \in drivers
        PROVE  DriverOK(d)'
    <3>1. DriverOK(d) /\ d.host \in Node
      BY <1>1, DriverShape
    <3>2. CASE d.kind = "hook"
      BY <3>1, <3>2 DEF DriverOK, Step
    <3>3. CASE d.kind # "hook" /\ d.host = h /\ d.op = i
      <4>1. d.sub # "fanout"
        BY <1>2, <3>1, <3>3 DEF DriverOK, Entry
      <4>2. /\ i \in DOMAIN journal'[h]
            /\ journal'[h][i].kind = journal[h][i].kind
            /\ journal'[h][i].node = journal[h][i].node
            /\ journal'[h][i].primary = journal[h][i].primary
        BY <1>4 DEF Rewritten
      <4>3. QED
        BY <1>4, <3>1, <3>3, <4>1, <4>2 DEF DriverOK, Step, Entry
    <3>4. CASE d.kind # "hook" /\ ~(d.host = h /\ d.op = i)
      <4>1. d.op \in DOMAIN journal[d.host]
        BY <3>1, <3>4 DEF DriverOK
      <4>2. d.op \in DOMAIN journal'[d.host]
            /\ journal'[d.host][d.op] = journal[d.host][d.op]
        BY <1>4, <3>1, <3>4, <4>1 DEF Rewritten
      <4>3. QED
        BY <3>1, <3>4, <4>2 DEF DriverOK, Step, Entry
    <3>5. QED
      BY <3>2, <3>3, <3>4
  <2>2. QED
    BY <1>1, <1>2, <2>1 DEF DriverInv
<1>9. StageInv'
  <2>1. /\ \A e \in drivers : DriverStage(e)'
        /\ \A g \in Node : \A j \in InProgress(g) : \A x :
             x = journal[g][j] => EntryStage(x)'
    BY <1>1, <1>2, StagesStay
  <2>2. \A g \in Node : \A j \in InProgress(g)' : EntryStage(journal[g][j])'
    BY <1>5, <2>1
  <2>3. QED
    BY <1>2, <2>1, <2>2 DEF StageInv
<1>10. QED
  BY <1>6, <1>7, <1>8, <1>9 DEF IInv

(* A daemon dies with its drivers.                                          *)
LEMMA CrashKeeps ==
  ASSUME IInv, NEW h \in Node, DaemonCrash(h)
  PROVE  IInv'
<1>1. TypeOK /\ InstInv /\ ClaimInv /\ DriverInv /\ StageInv
  BY DEF IInv
<1>2. /\ drivers' \subseteq drivers /\ UNCHANGED <<inst, slots, journal, ops>>
      /\ faults' \in 0 .. MaxFaults
  BY <1>1, FaultFacts DEF DaemonCrash
<1>3. TypeOK' /\ InstInv'
  BY <1>1, <1>2, InstStays DEF TypeOK
<1>4. \A g : InProgress(g)' = InProgress(g)
  BY <1>2 DEF InProgress
<1>5. ClaimInv'
  <2>1. \A e \in drivers' : FromOld(e)
    BY <1>2 DEF FromOld
  <2>2. QED
    BY <1>1, <1>2, <1>4, <2>1, FewerClaims
<1>6. DriverInv'
  BY <1>1, <1>2 DEF DriverInv, DriverOK, Entry, Step
<1>7. StageInv'
  BY <1>1, <1>2, <1>4, StagesStay DEF StageInv
<1>8. QED
  BY <1>3, <1>5, <1>6, <1>7 DEF IInv

(* An instance changes by itself, or is stopped.  The nodes of S are those *)
(* whose work has not gone past its second step.                           *)
LEMMA InstanceStep ==
  ASSUME IInv, UNCHANGED <<slots, journal, drivers, ops>>,
         faults' \in 0 .. MaxFaults, inst' \in [Node -> Instance], InstInv',
         NEW S,
         \A d \in drivers : d.node \in S => d.at <= 2,
         \A h \in Node : \A i \in InProgress(h) :
           journal[h][i].node \in S => journal[h][i].phase <= 1,
         \A n \in Node : Lead(n) => Lead(n)',
         \A n \in Node : inst'[n].conf = inst[n].conf,
         \A n, p \in Node : \A s \in 0 .. 8 :
           (n \in S => s <= 2) /\ Handed(n, p, s) => Handed(n, p, s)',
         \A n, p \in Node : \A s \in 0 .. 8 :
           (n \in S => s <= 2) /\ Rebased(n, p, s) => Rebased(n, p, s)'
  PROVE  IInv'
<1>1. TypeOK /\ ClaimInv /\ DriverInv /\ StageInv
  BY DEF IInv
<1>2. TypeOK'
  BY <1>1 DEF TypeOK
<1>3. ClaimInv'
  <2>1. \A e \in drivers' : FromOld(e)
    BY DEF FromOld
  <2>2. \A g : InProgress(g)' = InProgress(g)
    BY DEF InProgress
  <2>3. QED
    BY <1>1, <2>1, <2>2, FewerClaims
<1>4. DriverInv'
  BY <1>1 DEF DriverInv, DriverOK, Entry, Step
<1>5. ASSUME NEW d \in drivers
      PROVE  DriverStage(d)'
  <2>1. DriverStage(d) /\ d.node \in Node /\ d.primary \in Node
    BY <1>1, DriverShape DEF StageInv
  <2>2. d.kind \in {"handoff", "follow"} =>
          Past(d) \in 0 .. 8 /\ (d.node \in S => Past(d) <= 2)
    <3>1. SUFFICES ASSUME d.kind \in {"handoff", "follow"}
                   PROVE  Past(d) \in 0 .. 8 /\ (d.node \in S => Past(d) <= 2)
      OBVIOUS
    <3>2. d.at \in 1 .. Len(Ladder[d.kind]) /\ Len(Ladder[d.kind]) = 8
      BY <1>1, <3>1, DriverShape, Lengths
    <3>3. d.at \in 1 .. 8
      BY <3>2
    <3>4. d.node \in S => d.at <= 2
      OBVIOUS
    <3>5. QED
      BY <3>3, <3>4 DEF Past
  <2>3. d.kind = "handoff" => IF d.sub = "fanout" THEN Lead(d.primary)'
                              ELSE Handed(d.node, d.primary, Past(d))'
    BY <2>1, <2>2 DEF DriverStage
  <2>4. d.kind = "follow" => Rebased(d.node, d.primary, Past(d))'
    BY <2>1, <2>2 DEF DriverStage
  <2>5. /\ d.kind = "hook" => Lead(d.primary)'
        /\ d.sub = "half" => inst'[d.node].conf = d.primary
    BY <2>1 DEF DriverStage
  <2>6. QED
    BY <2>3, <2>4, <2>5 DEF DriverStage
<1>6. ASSUME NEW h \in Node, NEW i \in InProgress(h)
      PROVE  \A op : op = journal[h][i] => EntryStage(op)'
  <2>1. SUFFICES ASSUME NEW op, op = journal[h][i]
                 PROVE  EntryStage(op)'
    OBVIOUS
  <2>2. EntryStage(op) /\ op \in InflightOp /\ (op.node \in S => op.phase <= 1)
    BY <1>1, <1>6, <2>1, EntryShape DEF StageInv
  <2>3. op.node \in Node /\ op.primary \in Node /\ op.phase \in 0 .. 7
    BY <2>2 DEF InflightOp
  <2>4. CASE op.kind = "handoff"
    <3>1. /\ op.phase \in 0 .. 8 /\ op.phase + 1 \in 0 .. 8
          /\ op.node \in S => op.phase <= 2 /\ op.phase + 1 <= 2
      BY <2>2, <2>3
    <3>2. \/ Handed(op.node, op.primary, op.phase)
          \/ Handed(op.node, op.primary, op.phase + 1)
      BY <2>2, <2>4 DEF EntryStage
    <3>3. \/ Handed(op.node, op.primary, op.phase)'
          \/ Handed(op.node, op.primary, op.phase + 1)'
      BY <2>3, <3>1, <3>2
    <3>4. QED
      BY <2>2, <2>4, <3>3 DEF EntryStage
  <2>5. CASE op.kind = "follow"
    <3>1. op.phase \in 0 .. 8 /\ (op.node \in S => op.phase <= 2)
      BY <2>2, <2>3
    <3>2. Rebased(op.node, op.primary, op.phase)
      BY <2>2, <2>5 DEF EntryStage
    <3>3. Rebased(op.node, op.primary, op.phase)'
      BY <2>3, <3>1, <3>2
    <3>4. QED
      BY <2>2, <2>5, <3>3 DEF EntryStage
  <2>6. CASE op.kind \notin {"handoff", "follow"}
    BY <2>2, <2>6 DEF EntryStage
  <2>7. QED
    BY <2>4, <2>5, <2>6
<1>7. StageInv'
  BY <1>5, <1>6 DEF StageInv, InProgress
<1>8. QED
  BY <1>2, <1>3, <1>4, <1>7 DEF IInv

(* A standby is stopped for maintenance.                                    *)
LEMMA OperatorStopKeeps ==
  ASSUME IInv, NEW x \in Node, OperatorStop(x)
  PROVE  IInv'
<1>1. TypeOK /\ InstInv /\ inst \in [Node -> Instance]
  BY DEF IInv, TypeOK
<1>2. /\ inst[x].running /\ ~inst[x].primary /\ ~inst[x].promoting
      /\ inst' = Stopped(x) /\ UNCHANGED <<slots, journal, drivers, ops>>
      /\ faults' \in 0 .. MaxFaults
  BY <1>1, FaultFacts DEF OperatorStop
<1>3. /\ inst' \in [Node -> Instance] /\ Elsewhere(x)
      /\ ~inst'[x].running /\ ~inst'[x].promoting
      /\ inst'[x].conf = inst[x].conf /\ inst'[x].signal = inst[x].signal
      /\ inst'[x].line = inst[x].line
  BY <1>1, <1>2, StopFacts
<1>4. ~Lead(x)
  BY <1>2 DEF Lead, Serving
<1>5. \A n \in Node : n # x => Alike(n)
  BY <1>3 DEF Elsewhere, Alike
<1>6. \A n \in Node : Lead(n) => Lead(n)'
  BY <1>4, <1>5, LeadKept
<1>7. \A n \in Node : inst'[n].conf = inst[n].conf
  BY <1>3 DEF Elsewhere
<1>8. InstInv'
  <2>1. PICK l \in Node : Lead(l)
    BY <1>1, SomeLead
  <2>2. inst[x].line \in Nat
    BY <1>1 DEF Instance
  <2>3. inst'[x].line <= inst[x].line + 1
    BY <1>3, <2>2
  <2>4. QED
    BY <1>1, <1>3, <1>6, <2>1, <2>3, InstKept
<1>9. ASSUME NEW n \in Node, NEW p \in Node, NEW s \in 0 .. 8,
             n \in {x} => s <= 2, Handed(n, p, s)
      PROVE  Handed(n, p, s)'
  <2>1. n # x
    BY <1>2, <1>9 DEF Handed, Serving
  <2>2. QED
    BY <1>2, <1>5, <1>6, <1>9, <2>1, HandedKept
<1>10. ASSUME NEW n \in Node, NEW p \in Node, NEW s \in 0 .. 8,
              n \in {x} => s <= 2, Rebased(n, p, s)
       PROVE  Rebased(n, p, s)'
  <2>1. CASE n = x
    BY <1>3, <1>6, <1>10, <2>1 DEF Rebased
  <2>2. CASE n # x
    BY <1>2, <1>5, <1>6, <1>10, <2>2, RebasedKept
  <2>3. QED
    BY <2>1, <2>2
<1>11. /\ \A d \in drivers : d.node \in {x} => d.at <= 2
       /\ \A h \in Node : \A i \in InProgress(h) :
            journal[h][i].node \in {x} => journal[h][i].phase <= 1
  BY DEF OperatorStop
<1> DEFINE S == {x}
<1>12. /\ \A n, p \in Node : \A s \in 0 .. 8 :
            (n \in S => s <= 2) /\ Handed(n, p, s) => Handed(n, p, s)'
       /\ \A n, p \in Node : \A s \in 0 .. 8 :
            (n \in S => s <= 2) /\ Rebased(n, p, s) => Rebased(n, p, s)'
       /\ \A d \in drivers : d.node \in S => d.at <= 2
       /\ \A h \in Node : \A i \in InProgress(h) :
            journal[h][i].node \in S => journal[h][i].phase <= 1
  BY <1>9, <1>10, <1>11
<1> HIDE DEF S
<1>13. QED
  BY <1>2, <1>3, <1>6, <1>7, <1>8, <1>12, InstanceStep

(* A promotion ends.                                                        *)
LEMMA PromotionEndsKeeps ==
  ASSUME IInv, NEW x \in Node, PromotionEnds(x)
  PROVE  IInv'
<1>1. TypeOK /\ InstInv /\ inst \in [Node -> Instance] /\ faults \in 0 .. MaxFaults
  BY DEF IInv, TypeOK
<1>2. /\ inst[x].promoting /\ inst[x].running /\ ~inst[x].primary
      /\ inst' = Promoted(x) /\ UNCHANGED <<slots, journal, drivers, ops, faults>>
  BY <1>1 DEF PromotionEnds, InstInv
<1>3. PICK b \in Nat : \A m \in Node : inst[m].line <= b
  BY <1>1 DEF InstInv
<1>4. /\ inst' \in [Node -> Instance] /\ Elsewhere(x)
      /\ inst'[x].running = inst[x].running
      /\ inst'[x].primary /\ ~inst'[x].promoting
      /\ inst'[x].conf = inst[x].conf
      /\ inst'[x].line <= b + 1
  BY <1>1, <1>2, <1>3, PromotedFacts
<1>5. Lead(x)'
  BY <1>2, <1>4 DEF Lead, Serving
<1>6. \A n \in Node : n # x => Alike(n)
  BY <1>4 DEF Elsewhere, Alike
<1>7. \A n \in Node : Lead(n) => Lead(n)'
  BY <1>5, <1>6, LeadKept
<1>8. \A n \in Node : inst'[n].conf = inst[n].conf
  BY <1>4 DEF Elsewhere
<1>9. InstInv'
  <2>1. \A k \in Node : inst'[k].promoting => inst'[k].running /\ ~inst'[k].primary
    BY <1>1, <1>4 DEF InstInv, Elsewhere
  <2>2. \A k \in Node : inst[k].line \in Nat /\ inst'[k].line \in Nat
    BY <1>1, <1>4 DEF Instance
  <2>3. \A k \in Node : inst'[k].line <= b + 1
    BY <1>3, <1>4, <2>2 DEF Elsewhere
  <2>4. b + 1 \in Nat
    OBVIOUS
  <2>5. \E c \in Nat : \A k \in Node : inst'[k].line <= c
    BY <2>3, <2>4
  <2>6. SomePrimary'
    BY <1>5 DEF SomePrimary, Lead
  <2>7. QED
    BY <2>1, <2>5, <2>6 DEF InstInv
<1>10. ASSUME NEW n \in Node, NEW p \in Node, NEW s \in 0 .. 8, Handed(n, p, s)
       PROVE  Handed(n, p, s)'
  <2>1. n # x
    BY <1>2, <1>10 DEF Handed, Serving
  <2>2. QED
    BY <1>2, <1>6, <1>7, <1>10, <2>1, HandedKept
<1>11. ASSUME NEW n \in Node, NEW p \in Node, NEW s \in 0 .. 8, Rebased(n, p, s)
       PROVE  Rebased(n, p, s)'
  <2>1. CASE n = x
    <3>1. s < 2
      BY <1>2, <1>11, <2>1 DEF Rebased
    <3>2. QED
      BY <1>7, <1>11, <3>1 DEF Rebased
  <2>2. CASE n # x
    BY <1>2, <1>6, <1>7, <1>11, <2>2, RebasedKept
  <2>3. QED
    BY <2>1, <2>2
<1> DEFINE S == {}
<1>12. /\ \A d \in drivers : d.node \in S => d.at <= 2
       /\ \A h \in Node : \A i \in InProgress(h) :
            journal[h][i].node \in S => journal[h][i].phase <= 1
  OBVIOUS
<1> HIDE DEF S
<1>13. QED
  BY <1>1, <1>2, <1>4, <1>7, <1>8, <1>9, <1>10, <1>11, <1>12, InstanceStep

(* WAL that is written or streamed changes no stage.                       *)
LEMMA StreamKeeps ==
  ASSUME IInv, NEW x \in Node, StrayWrite(x) \/ CatchUp(x)
  PROVE  IInv'
<1>1. TypeOK /\ InstInv /\ inst \in [Node -> Instance] /\ faults \in 0 .. MaxFaults
  BY DEF IInv, TypeOK
<1>2. UNCHANGED <<slots, journal, drivers, ops, faults>>
  BY DEF StrayWrite, CatchUp
<1>3. PICK m \in Node : \/ inst' = [inst EXCEPT ![x].stray = TRUE]
                        \/ inst' = [inst EXCEPT ![x].line = inst[m].line]
  <2>1. CASE StrayWrite(x)
    BY <2>1 DEF StrayWrite
  <2>2. CASE CatchUp(x)
    <3>1. inst[x].conf \in Node
      BY <1>1, <2>2 DEF CatchUp, Instance
    <3>2. QED
      BY <2>2, <3>1 DEF CatchUp
  <2>3. QED
    BY <2>1, <2>2
<1>4. inst[m] \in Instance /\ inst[x] \in Instance /\ inst[m].line \in Nat
      /\ inst[x].line \in Nat
  BY <1>1 DEF Instance
<1>5. /\ inst' \in [Node -> Instance] /\ Elsewhere(x) /\ Alike(x)
      /\ inst'[x].line = inst[x].line \/ inst'[x].line = inst[m].line
  <2>1. CASE inst' = [inst EXCEPT ![x].stray = TRUE]
    BY <1>1, <1>4, <2>1 DEF Instance, Elsewhere, Alike
  <2>2. CASE inst' = [inst EXCEPT ![x].line = inst[m].line]
    BY <1>1, <1>4, <2>2 DEF Instance, Elsewhere, Alike
  <2>3. QED
    BY <1>3, <2>1, <2>2
<1>6. \A n \in Node : Alike(n)
  BY <1>5 DEF Elsewhere, Alike
<1>7. \A n \in Node : Lead(n) => Lead(n)'
  BY <1>6, LeadKept
<1>8. \A n \in Node : inst'[n].conf = inst[n].conf
  BY <1>6 DEF Alike
<1>9. InstInv'
  <2>1. PICK l \in Node : Lead(l)
    BY <1>1, SomeLead
  <2>2. inst'[x].promoting => inst'[x].running /\ ~inst'[x].primary
    BY <1>1, <1>5 DEF Alike, InstInv
  <2>3. PICK k \in Node : inst'[x].line <= inst[k].line + 1
    BY <1>4, <1>5
  <2>4. QED
    BY <1>1, <1>5, <1>7, <2>1, <2>2, <2>3, InstKept
<1>10. \A n, p \in Node : \A s \in 0 .. 8 : Handed(n, p, s) => Handed(n, p, s)'
  BY <1>2, <1>6, <1>7, HandedKept
<1>11. \A n, p \in Node : \A s \in 0 .. 8 : Rebased(n, p, s) => Rebased(n, p, s)'
  BY <1>2, <1>6, <1>7, RebasedKept
<1> DEFINE S == {}
<1>12. /\ \A d \in drivers : d.node \in S => d.at <= 2
       /\ \A h \in Node : \A i \in InProgress(h) :
            journal[h][i].node \in S => journal[h][i].phase <= 1
  OBVIOUS
<1> HIDE DEF S
<1>13. QED
  BY <1>1, <1>2, <1>5, <1>7, <1>8, <1>9, <1>10, <1>11, <1>12, InstanceStep

-----------------------------------------------------------------------------
(* The first state.                                                         *)
LEMMA InitHolds ==
  ASSUME Init
  PROVE  IInv
<1>1. Primary \in Node /\ NoNode \notin Node /\ MaxOps \in Nat /\ MaxFaults \in Nat
  BY HandoffAssumption
<1>2. /\ drivers = {} /\ \A h \in Node : InProgress(h) = {}
  BY DEF Init, InProgress
<1>3. TypeOK
  <2>1. inst \in [Node -> Instance]
    <3>1. ASSUME NEW n \in Node
          PROVE  inst[n] \in Instance
      BY <1>1 DEF Init, Instance
    <3>2. inst = [n \in Node |-> inst[n]]
      BY DEF Init
    <3>3. QED
      BY <3>1, <3>2
  <2>2. slots \in [Node -> SUBSET Node] /\ journal \in [Node -> Seq(InflightOp)]
    BY DEF Init
  <2>3. ops \in 0 .. MaxOps /\ faults \in 0 .. MaxFaults
    BY <1>1 DEF Init
  <2>4. QED
    BY <1>2, <2>1, <2>2, <2>3 DEF TypeOK
<1>4. InstInv
  <2>1. \A n \in Node : ~inst[n].promoting /\ inst[n].line = 1
    BY DEF Init
  <2>2. Serving(Primary)
    BY <1>1 DEF Init, Serving
  <2>3. SomePrimary
    BY <1>1, <2>2 DEF SomePrimary
  <2>4. \E b \in Nat : \A n \in Node : inst[n].line <= b
    <3>1. \A n \in Node : inst[n].line <= 1
      BY <2>1
    <3>2. QED
      BY <3>1
  <2>5. QED
    BY <2>1, <2>3, <2>4 DEF InstInv
<1>5. ClaimInv
  <2>1. Claims = {}
    BY <1>2 DEF Claims, Claim, Opens
  <2>2. QED
    BY <1>2, <2>1 DEF ClaimInv, Apart, Fans
<1>6. DriverInv /\ StageInv
  BY <1>2 DEF DriverInv, StageInv
<1>7. QED
  BY <1>3, <1>4, <1>5, <1>6 DEF IInv

(* A step that changes nothing.                                             *)
LEMMA Stutter ==
  ASSUME IInv, UNCHANGED vars
  PROVE  IInv'
<1>1. /\ TypeOK /\ InstInv /\ ClaimInv /\ DriverInv /\ StageInv
      /\ UNCHANGED <<inst, slots, journal, drivers, ops, faults>>
  BY DEF IInv, vars
<1>2. TypeOK' /\ InstInv'
  BY <1>1, InstStays DEF TypeOK
<1>3. ClaimInv'
  BY <1>1 DEF ClaimInv, Apart, Claims, Opens, InProgress, Fans, Spawned
<1>4. DriverInv'
  BY <1>1 DEF DriverInv, DriverOK, Entry, Step
<1>5. StageInv'
  BY <1>1, StagesStay DEF StageInv, InProgress
<1>6. QED
  BY <1>2, <1>3, <1>4, <1>5 DEF IInv

(* The steps of a driver.                                                   *)
LEMMA DriverStepKeeps ==
  ASSUME IInv, NEW d \in drivers, DriverStep(d)
  PROVE  IInv'
  BY DoKeeps, FallbackKeeps, JournalKeeps, HookStepKeeps, CompleteKeeps,
     FanOutKeeps, FailKeeps DEF DriverStep

(* Every step keeps the invariant.                                          *)
LEMMA NextKeeps ==
  ASSUME IInv, Overlap = FALSE, [Next]_vars
  PROVE  IInv'
<1>1. CASE \E d \in drivers : DriverStep(d)
  BY <1>1, DriverStepKeeps
<1>2. ASSUME NEW h \in Node,
             \/ \E p \in Node : ClusterHandoff(h, p)
             \/ AllowAsync(h)
             \/ \E n \in Node : FollowPrimaryHook(h, n)
      PROVE  IInv'
  BY <1>2, HandoffBegins, AsyncBegins, HookBegins
<1>3. ASSUME NEW h \in Node, NEW i \in DOMAIN journal[h],
             ResumeInflightOp(h, i) \/ AbandonInflightOp(h, i)
      PROVE  IInv'
  BY <1>3, ResumeKeeps, AbandonKeeps
<1>4. ASSUME NEW h \in Node,
             \/ DaemonCrash(h) \/ OperatorStop(h) \/ PromotionEnds(h)
             \/ StrayWrite(h) \/ CatchUp(h)
      PROVE  IInv'
  BY <1>4, CrashKeeps, OperatorStopKeeps, PromotionEndsKeeps, StreamKeeps
<1>5. CASE UNCHANGED vars
  BY <1>5, Stutter
<1>6. QED
  BY <1>1, <1>2, <1>3, <1>4, <1>5 DEF Next

(* The inductive invariant of planned work that is started one at a time.  *)
THEOREM Invariant ==
  ASSUME Overlap = FALSE
  PROVE  Spec => []IInv
<1>1. Init => IInv
  BY InitHolds
<1>2. IInv /\ [Next]_vars => IInv'
  BY NextKeeps
<1>3. QED
  BY <1>1, <1>2, PTL DEF Spec

(* The journal of a handoff is at most one step behind.                     *)
LEMMA EntryCases ==
  ASSUME IInv, NEW h \in Node, NEW i \in InProgress(h), NEW op, op = journal[h][i],
         op.kind = "handoff"
  PROVE  /\ op.phase \in 0 .. 7
         /\ \/ Handed(op.node, op.primary, op.phase)
            \/ Handed(op.node, op.primary, op.phase + 1)
<1>1. op \in InflightOp /\ EntryStage(op)
  BY EntryShape DEF IInv, StageInv
<1>2. QED
  BY <1>1 DEF InflightOp, EntryStage

(* The invariant implies what RoleHandedOver says.                          *)
LEMMA HandsOver ==
  ASSUME IInv
  PROVE  RoleHandedOver
<1>1. ASSUME NEW h \in Node, NEW i \in InProgress(h), NEW op, op = journal[h][i],
             op.kind = "handoff", op.phase >= 3
      PROVE  ~Serving(op.node)
  <2>1. /\ op.phase \in 0 .. 7
        /\ \/ Handed(op.node, op.primary, op.phase)
           \/ Handed(op.node, op.primary, op.phase + 1)
    BY <1>1, EntryCases
  <2>2. PICK k \in 3 .. 8 : Handed(op.node, op.primary, k)
    <3>1. op.phase \in 3 .. 8 /\ op.phase + 1 \in 3 .. 8
      BY <1>1, <2>1
    <3>2. QED
      BY <2>1, <3>1
  <2>3. QED
    BY <2>2 DEF Handed, Serving
<1>2. DeposedStaysDown
  BY <1>1 DEF DeposedStaysDown
<1>3. QED
  BY <1>2 DEF IInv, InstInv, RoleHandedOver

(* And what StuckOnlyInWindow says.                                         *)
LEMMA StuckInWindow ==
  ASSUME IInv
  PROVE  StuckOnlyInWindow
<1>1. ASSUME NEW h \in Node, NEW i \in InProgress(h), NEW op, op = journal[h][i],
             op.kind = "handoff"
      PROVE  \/ VerifyHandoffState(op)
             \/ op.phase = 0 /\ inst[op.primary].primary
             \/ op.phase = 2 /\ ~inst[op.node].running
             \/ op.phase = 5 /\ inst[op.node].running
             \/ op.phase >= 1 /\ inst[op.primary].promoting
             \/ ~inst[op.primary].running
  <2>1. /\ op.phase \in 0 .. 7
        /\ \/ Handed(op.node, op.primary, op.phase)
           \/ Handed(op.node, op.primary, op.phase + 1)
    BY <1>1, EntryCases
  <2>2. PICK n : n = op.node
    OBVIOUS
  <2>3. PICK p : p = op.primary
    OBVIOUS
  <2>4. PICK k \in 0 .. 7 : k = op.phase
    BY <2>1
  <2>5. Handed(n, p, k) \/ Handed(n, p, k + 1)
    BY <2>1, <2>2, <2>3, <2>4
  <2>6. SUFFICES ASSUME ~(k = 0 /\ inst[p].primary),
                        ~(k = 2 /\ ~inst[n].running),
                        ~(k = 5 /\ inst[n].running),
                        ~(k >= 1 /\ inst[p].promoting),
                        inst[p].running
                 PROVE  VerifyHandoffState(op)
    BY <2>2, <2>3, <2>4
  <2>7. inst[p].primary <=> k >= 1
    <3>1. k >= 1 => Lead(p)
      BY <2>5 DEF Handed
    <3>2. QED
      BY <2>6, <3>1 DEF Lead, Serving
  <2>8. inst[n].running <=> k \notin 3 .. 5
    BY <2>5, <2>6 DEF Handed, Serving
  <2>9. k >= 6 => ~inst[n].primary
    BY <2>5 DEF Handed
  <2>10. QED
    BY <2>2, <2>3, <2>4, <2>6, <2>7, <2>8, <2>9 DEF VerifyHandoffState
<1>2. QED
  BY <1>1 DEF StuckOnlyInWindow

(* The role is handed over: whatever fails, dies, is resumed or abandoned  *)
(* on the way, some instance is a primary or about to be one, and the one  *)
(* that gave the role away does not serve again before its handoff has     *)
(* ended (run_handoff_from_phase).                                         *)
THEOREM HandoffKeepsARole ==
  ASSUME Overlap = FALSE
  PROVE  Spec => []RoleHandedOver
<1>1. IInv => RoleHandedOver
  BY HandsOver
<1>2. QED
  BY <1>1, Invariant, PTL

(* verify_handoff_state refuses to resume a handoff only where the driver  *)
(* died between a promote, a stop or a start and its journal entry, or the *)
(* new primary is not up yet.                                              *)
THEOREM ResumeRefusedOnlyInWindow ==
  ASSUME Overlap = FALSE
  PROVE  Spec => []StuckOnlyInWindow
<1>1. IInv => StuckOnlyInWindow
  BY StuckInWindow
<1>2. QED
  BY <1>1, Invariant, PTL

-----------------------------------------------------------------------------
(* What steps may never do.  Only `clear_pgdata_contents` empties a data   *)
(* directory.                                                              *)
LEMMA DataKept ==
  ASSUME inst \in [Node -> Instance], NEW x \in Node, NEW p \in Node,
         \/ inst' = inst \/ inst' = Signalled(x) \/ inst' = Stopped(x)
         \/ inst' = Copied(x, p) \/ inst' = ConfWritten(x, p)
         \/ inst' = SignalWritten(x) \/ inst' = Started(x) \/ inst' = Promoted(x)
         \/ inst' = [inst EXCEPT ![x].stray = TRUE]
         \/ \E l : inst' = [inst EXCEPT ![x].line = l]
  PROVE  \A n \in Node : inst[n].data = "good" => inst'[n].data = "good"
<1>1. inst[x] \in Instance
  OBVIOUS
<1>2. ASSUME NEW f, inst' = [inst EXCEPT ![x] = f],
             inst[x].data = "good" => f.data = "good"
      PROVE  \A n \in Node : inst[n].data = "good" => inst'[n].data = "good"
  BY <1>2
<1>3. CASE inst' = Copied(x, p)
  <2>1. inst' = [inst EXCEPT ![x] = [@ EXCEPT
                   !.data = "good", !.line = inst[p].line, !.stray = FALSE,
                   !.conf = inst[p].conf, !.signal = inst[p].signal]]
    BY <1>3, Zenon DEF Copied
  <2>2. QED
    BY <1>1, <1>2, <2>1 DEF Instance
<1>4. CASE inst' = Promoted(x)
  <2>1. inst' = [inst EXCEPT ![x] = [@ EXCEPT
                   !.primary = TRUE, !.promoting = FALSE, !.signal = FALSE,
                   !.line = NewLine]]
    BY <1>4, Zenon DEF Promoted
  <2> HIDE DEF NewLine
  <2>2. QED
    BY <1>1, <1>2, <2>1 DEF Instance
<1>5. CASE inst' = Started(x)
  BY <1>1, <1>5 DEF Started, Instance
<1>6. CASE inst' = Stopped(x) \/ inst' = Signalled(x)
  BY <1>1, <1>6 DEF Stopped, Signalled, Instance
<1>7. CASE inst' = ConfWritten(x, p) \/ inst' = SignalWritten(x)
  BY <1>1, <1>7 DEF ConfWritten, SignalWritten, Instance
<1>8. CASE \/ inst' = [inst EXCEPT ![x].stray = TRUE]
           \/ \E l : inst' = [inst EXCEPT ![x].line = l]
  BY <1>1, <1>8 DEF Instance
<1>9. QED
  BY <1>3, <1>4, <1>5, <1>6, <1>7, <1>8

Spares == \A n \in Node : inst[n].data = "good" /\ inst'[n].data = "gone"
                            => ~inst[n].running

(* The directory a fallback empties is not in use.                          *)
LEMMA FallbackSpares ==
  ASSUME IInv, NEW d \in drivers, Fallback(d)
  PROVE  Spares
<1>1. TypeOK /\ DriverInv /\ DriverStage(d) /\ inst \in [Node -> Instance]
  BY DEF IInv, StageInv, TypeOK
<1>2. /\ d.kind \in DOMAIN Ladder /\ d.at \in 1 .. Len(Ladder[d.kind])
      /\ d.node \in Node
  BY <1>1, DriverShape
<1>3. /\ Step(d) = "copy" /\ d.sub = "todo" /\ inst' = Cleared(d.node)
      /\ d.kind # "handoff" => ~inst[d.node].running
  BY DEF Fallback
<1>4. d.kind = "handoff" => d.at = 4
  BY <1>2, <1>3, Ladders
<1>5. d.kind = "handoff" => Past(d) = 3
  BY <1>3, <1>4 DEF Past
<1>6. d.kind = "handoff" => Handed(d.node, d.primary, 3)
  BY <1>1, <1>3, <1>5 DEF DriverStage
<1>7. ~inst[d.node].running
  BY <1>3, <1>6 DEF Handed
<1>8. Elsewhere(d.node)
  BY <1>1, <1>2, <1>3, ClearFacts, HandoffAssumption
<1>9. QED
  BY <1>7, <1>8 DEF Spares, Elsewhere

(* No other step empties one.                                               *)
LEMMA NextSpares ==
  ASSUME IInv, [Next]_vars
  PROVE  Spares
<1>1. TypeOK /\ DriverInv /\ inst \in [Node -> Instance]
  BY DEF IInv, TypeOK
<1>2. inst' = inst => Spares
  BY <1>1 DEF Spares, Instance
<1>3. (\A n \in Node : inst[n].data = "good" => inst'[n].data = "good") => Spares
  BY DEF Spares
<1>4. ASSUME NEW d \in drivers, DriverStep(d)
      PROVE  Spares
  <2>1. d.node \in Node /\ d.primary \in Node
    BY <1>1, DriverShape
  <2>2. CASE Do(d)
    <3>1. \/ inst' = inst \/ inst' = Signalled(d.primary) \/ inst' = Stopped(d.node)
          \/ inst' = Copied(d.node, d.primary)
          \/ inst' = ConfWritten(d.node, d.primary)
          \/ inst' = SignalWritten(d.node) \/ inst' = Started(d.node)
      BY <1>1, <2>2, DoCases
    <3>2. \A n \in Node : inst[n].data = "good" => inst'[n].data = "good"
      BY <1>1, <2>1, <3>1, DataKept
    <3>3. QED
      BY <1>3, <3>2
  <2>3. CASE Fallback(d)
    BY <2>3, FallbackSpares
  <2>4. CASE ~Do(d) /\ ~Fallback(d)
    <3>1. inst' = inst
      BY <1>4, <2>4 DEF DriverStep, Journal, HookStep, Complete, FanOut, Fail
    <3>2. QED
      BY <1>2, <3>1
  <2>5. QED
    BY <2>2, <2>3, <2>4
<1>5. ASSUME NEW h \in Node,
             \/ \E p \in Node : ClusterHandoff(h, p)
             \/ AllowAsync(h)
             \/ \E n \in Node : FollowPrimaryHook(h, n)
             \/ \E i \in DOMAIN journal[h] : ResumeInflightOp(h, i) \/ AbandonInflightOp(h, i)
             \/ DaemonCrash(h)
      PROVE  Spares
  <2>1. inst' = inst
    BY <1>5 DEF ClusterHandoff, AllowAsync, Begin, FollowPrimaryHook,
                ResumeInflightOp, AbandonInflightOp, DaemonCrash
  <2>2. QED
    BY <1>2, <2>1
<1>6. ASSUME NEW h \in Node,
             \/ OperatorStop(h) \/ PromotionEnds(h) \/ StrayWrite(h) \/ CatchUp(h)
      PROVE  Spares
  <2>1. \/ inst' = Stopped(h) \/ inst' = Promoted(h)
        \/ inst' = [inst EXCEPT ![h].stray = TRUE]
        \/ \E l : inst' = [inst EXCEPT ![h].line = l]
    BY <1>6 DEF OperatorStop, PromotionEnds, StrayWrite, CatchUp
  <2>2. \A n \in Node : inst[n].data = "good" => inst'[n].data = "good"
    BY <1>1, <2>1, DataKept
  <2>3. QED
    BY <1>3, <2>2
<1>7. CASE UNCHANGED vars
  BY <1>2, <1>7 DEF vars
<1>8. QED
  BY <1>4, <1>5, <1>6, <1>7 DEF Next

(* basebackup empties no data directory that a running instance uses: a    *)
(* handoff has stopped its own instance two steps before it copies, and a  *)
(* standby is looked at by its peer service.                               *)
THEOREM NoWipeUnderAnInstance ==
  ASSUME Overlap = FALSE
  PROVE  Spec => WipeOnlyStopped
<1>1. IInv /\ [Next]_vars => [Spares]_vars
  BY NextSpares
<1>2. Spec => [][Spares]_vars
  BY <1>1, Invariant, PTL DEF Spec
<1>3. QED
  BY <1>2 DEF WipeOnlyStopped, Spares

-----------------------------------------------------------------------------
(* Only `complete` marks an operation Done.                                *)
LEMMA OnlyComplete ==
  ASSUME IInv, [Next]_vars, NEW h \in Node, NEW i \in InProgress(h),
         journal'[h][i].status = "Done"
  PROVE  \E d \in drivers : Complete(d) /\ d.host = h /\ d.op = i
<1>1. TypeOK /\ DriverInv /\ i \in DOMAIN journal[h] /\ journal[h][i].status = "InProgress"
  BY DEF IInv, InProgress
<1>2. journal'[h][i] # journal[h][i]
  BY <1>1
<1>3. ASSUME NEW g \in Node, Grown(g)
      PROVE  FALSE
  BY <1>1, <1>2, <1>3 DEF Grown
<1>4. ASSUME NEW g \in Node, NEW j \in DOMAIN journal[g],
             journal' = [journal EXCEPT ![g][j].status = "Abandoned"]
      PROVE  FALSE
  <2>1. Rewritten(g, j) /\ journal'[g][j].status = "Abandoned"
    BY <1>1, <1>4, StatusSet
  <2>2. QED
    BY <1>1, <1>2, <2>1 DEF Rewritten
<1>5. ASSUME NEW d \in drivers, DriverStep(d)
      PROVE  Complete(d) /\ d.host = h /\ d.op = i
  <2>1. DriverOK(d) /\ d.host \in Node
        /\ d.kind \in DOMAIN Ladder /\ d.at \in 1 .. Len(Ladder[d.kind])
    BY <1>1, DriverShape
  <2>2. d.op # 0 => d.op \in DOMAIN journal[d.host]
    BY <2>1 DEF DriverOK
  <2>3. CASE Journal(d)
    <3>1. d.op # 0
      BY <2>3 DEF Journal
    <3>2. CASE Entry(d).status = "InProgress"
      <4>1. journal' = [journal EXCEPT ![d.host][d.op].phase = d.at]
        BY <2>3, <3>2 DEF Journal
      <4>2. d.at \in 0 .. 7
        <5>1. d.at < Len(Ladder[d.kind])
          BY <2>3 DEF Journal
        <5>2. PICK l \in {1, 6, 8} : l = Len(Ladder[d.kind])
          BY <2>1, Lengths
        <5>3. d.at \in 1 .. l /\ d.at < l
          BY <2>1, <5>1, <5>2
        <5>4. QED
          BY <5>3
      <4>3. Rewritten(d.host, d.op)
            /\ journal'[d.host][d.op].status = journal[d.host][d.op].status
        BY <1>1, <2>1, <2>2, <3>1, <4>1, <4>2, PhaseSet
      <4>4. QED
        BY <1>1, <1>2, <4>3 DEF Rewritten
    <3>3. CASE Entry(d).status # "InProgress"
      BY <1>2, <1>4, <2>1, <2>2, <2>3, <3>1, <3>3 DEF Journal
    <3>4. QED
      BY <3>2, <3>3
  <2>4. CASE Fail(d)
    <3>1. \/ journal' = journal
          \/ d.op # 0 /\ journal' = [journal EXCEPT ![d.host][d.op].status = "Abandoned"]
      BY <2>4 DEF Fail
    <3>2. QED
      BY <1>2, <1>4, <2>1, <2>2, <3>1
  <2>5. CASE FanOut(d)
    BY <1>2, <1>3, <2>1, <2>5, FanOutKeeps
  <2>6. CASE Do(d) \/ Fallback(d) \/ HookStep(d)
    BY <1>2, <2>6 DEF Do, Fallback, HookStep
  <2>7. CASE Complete(d)
    <3>1. d.op # 0 /\ journal' = [journal EXCEPT ![d.host][d.op].status = "Done"]
      BY <2>7 DEF Complete
    <3>2. Rewritten(d.host, d.op)
      BY <1>1, <2>1, <2>2, <3>1, StatusSet
    <3>3. QED
      BY <1>1, <1>2, <2>7, <3>2 DEF Rewritten
  <2>8. QED
    BY <1>5, <2>3, <2>4, <2>5, <2>6, <2>7 DEF DriverStep
<1>6. ASSUME NEW g \in Node, NEW kind \in {"handoff", "allow_async"},
             NEW p \in Node, Begin(g, kind, g, p)
      PROVE  FALSE
  <2>1. NewOp(kind, g, p) \in InflightOp
    BY DEF NewOp, InflightOp
  <2>2. Grown(g)
    BY <1>1, <1>6, <2>1, AppendFacts DEF Begin
  <2>3. QED
    BY <1>3, <2>2
<1>7. ASSUME NEW g \in Node,
             \/ \E p \in Node : ClusterHandoff(g, p)
             \/ AllowAsync(g)
      PROVE  FALSE
  BY <1>6, <1>7 DEF ClusterHandoff, AllowAsync
<1>8. ASSUME NEW g \in Node, NEW j \in DOMAIN journal[g], AbandonInflightOp(g, j)
      PROVE  FALSE
  BY <1>4, <1>8 DEF AbandonInflightOp
<1>9. journal' = journal => FALSE
  BY <1>2
<1>10. ASSUME NEW g \in Node,
              \/ \E n \in Node : FollowPrimaryHook(g, n)
              \/ \E j \in DOMAIN journal[g] : ResumeInflightOp(g, j)
              \/ DaemonCrash(g) \/ OperatorStop(g) \/ PromotionEnds(g)
              \/ StrayWrite(g) \/ CatchUp(g)
       PROVE  FALSE
  BY <1>9, <1>10 DEF FollowPrimaryHook, ResumeInflightOp, DaemonCrash,
                     OperatorStop, PromotionEnds, StrayWrite, CatchUp
<1>11. CASE UNCHANGED vars
  BY <1>9, <1>11 DEF vars
<1>12. QED
  BY <1>5, <1>7, <1>8, <1>10, <1>11 DEF Next

(* What holds when an operation is marked Done.                             *)
LEMMA NextFollows ==
  ASSUME IInv, [Next]_vars
  PROVE  CompletesInto(Follows)
<1>1. ASSUME NEW h \in Node, NEW i \in InProgress(h), NEW op, op = journal[h][i],
             journal'[h][i].status = "Done", op.kind # "allow_async"
      PROVE  \/ Follows(op.node, op.primary) /\ op.node \in slots[op.primary]
             \/ op.kind = "follow" /\ op.phase = 1 /\ ~inst[op.node].running
  <2>1. PICK d \in drivers : Complete(d) /\ d.host = h /\ d.op = i
    BY <1>1, OnlyComplete
  <2>2. /\ d.kind # "hook" /\ op.kind = d.kind /\ op.node = d.node
        /\ op.primary = d.primary /\ op.phase = d.at - 1
    BY <1>1, <2>1, OwnEntry DEF Entry
  <2>3. /\ d.kind \in DOMAIN Ladder /\ d.at \in 1 .. Len(Ladder[d.kind])
        /\ DriverStage(d)
    BY DriverShape DEF IInv, StageInv
  <2>4. d.kind \in {"handoff", "follow"}
    BY <1>1, <2>2, <2>3, Lengths
  <2>5. CASE \/ d.sub = "todo" /\ Step(d) = "complete"
             \/ d.sub = "done" /\ d.at = Len(Ladder[d.kind])
    <3>1. d.at = 8
      BY <2>3, <2>4, <2>5, Ladders
    <3>2. Past(d) \in {7, 8} /\ d.sub # "fanout"
      BY <2>5, <3>1 DEF Past
    <3>3. \E k \in {7, 8} : Handed(d.node, d.primary, k) \/ Rebased(d.node, d.primary, k)
      BY <2>3, <2>4, <3>2 DEF DriverStage
    <3>4. Follows(d.node, d.primary) /\ d.node \in slots[d.primary]
      BY <3>3 DEF Handed, Rebased, Follows
    <3>5. QED
      BY <2>2, <3>4
  <2>6. CASE d.sub = "todo" /\ Skips(d)
    <3>1. d.kind = "follow" /\ Step(d) = "stop" /\ ~inst[d.node].running
      BY <2>6 DEF Skips
    <3>2. d.at = 2
      BY <2>3, <3>1, Ladders
    <3>3. op.phase = 1
      BY <2>2, <3>2
    <3>4. QED
      BY <2>2, <3>1, <3>3
  <2>7. QED
    BY <2>1, <2>5, <2>6 DEF Complete
<1>2. QED
  BY <1>1 DEF CompletesInto

(* An operation that `complete` marks Done has left its node running as a  *)
(* standby of the new primary, which has a slot for it, or was the follow  *)
(* of a standby drive_follow_primary found stopped.                        *)
THEOREM DoneFollows ==
  ASSUME Overlap = FALSE
  PROVE  Spec => CompletedFollows
<1>1. IInv /\ [Next]_vars => [CompletesInto(Follows)]_vars
  BY NextFollows
<1>2. Spec => [][CompletesInto(Follows)]_vars
  BY <1>1, Invariant, PTL DEF Spec
<1>3. QED
  BY <1>2 DEF CompletedFollows
=============================================================================
