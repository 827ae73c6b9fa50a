------------------------ MODULE DriverInstall_proofs ------------------------
(***************************************************************************)
(* For any number of calls and any faults: no command runs before both     *)
(* drivers are bound, a call does what it is for at most twice, and once   *)
(* if nothing else installs a driver meanwhile and the registry is read.   *)
(* Every call is over after a few steps of its processes.                  *)
(***************************************************************************)
EXTENDS DriverInstall, TLAPS

(* TypeOK, but for how often a call may run.                               *)
Types ==
  /\ drivers \subseteq Driver
  /\ purpose \in [Calls -> Purpose]
  /\ pc \in [Proc -> Labels]
  /\ level \in [Proc -> Level]
  /\ needs \in [Proc -> SUBSET Driver]
  /\ code \in [Proc -> {"none", "ok", "failed"}]
  /\ ran \in [Calls -> Nat]
  /\ alone \in [Calls -> BOOLEAN]

LEMMA ProcOf ==
  /\ \A c \in Calls : \A d \in 0..2 : <<c, d>> \in Proc
  /\ \A p \in Proc : /\ Call(p) \in Calls /\ Depth(p) \in 0..2
                     /\ p = <<Call(p), Depth(p)>>
  BY DEF Proc, Call, Depth

(* A process exits, or a fault ends it.                                    *)
LEMMA ExitTypes ==
  ASSUME Types, NEW p \in Proc, NEW how \in {"ok", "failed"}, Exit(p, how)
  PROVE  /\ purpose' \in [Calls -> Purpose]
         /\ pc' \in [Proc -> Labels]
         /\ level' \in [Proc -> Level]
         /\ needs' \in [Proc -> SUBSET Driver]
         /\ code' \in [Proc -> {"none", "ok", "failed"}]
BY DEF Types, Exit, Goto, Labels, Level

LEMMA TypesInductive == Spec => []Types
<1>1. Init => Types
  BY DEF Init, Types, Purpose, Labels, Level
<1>2. Types /\ [Next]_vars => Types'
  <2> SUFFICES ASSUME Types, [Next]_vars PROVE Types'
    OBVIOUS
  <2>1. ASSUME NEW c \in Calls, Start(c) PROVE Types'
    <3>1. <<c, 0>> \in Proc
      BY DEF Proc
    <3>2. pc' \in [Proc -> Labels] /\ level' \in [Proc -> Level]
      BY <2>1, <3>1 DEF Start, Types, Goto, Labels
    <3>3. purpose' \in [Calls -> Purpose]
      BY <2>1 DEF Start, Types
    <3> QED
      BY <2>1, <3>2, <3>3 DEF Start, Types
  <2>2. ASSUME NEW p \in Proc, Step(p) \/ Kill(p) PROVE Types'
    <3>0. Call(p) \in Calls
      BY ProcOf
    <3>1. ASSUME NEW how \in {"ok", "failed"}, Exit(p, how),
                 drivers' \subseteq Driver, ran' \in [Calls -> Nat],
                 alone' \in [Calls -> BOOLEAN]
          PROVE  Types'
      BY <3>1, ExitTypes DEF Types
    <3>2. ASSUME NEW f, Fails(p, f) PROVE Types'
      BY <3>1, <3>2 DEF Fails, Types
    <3>3. CASE Parse(p)
      BY <3>1, <3>3 DEF Parse, Decide, Goto, Types, Labels
    <3>4. ASSUME NEW d \in Driver, Missing(p, d)
          PROVE  needs' \in [Proc -> SUBSET Driver] /\ alone' \in [Calls -> BOOLEAN]
      <4>1. needs[p] \in SUBSET Driver
        BY DEF Types
      <4>2. PICK what \in SUBSET Driver : needs' = [needs EXCEPT ![p] = what]
        <5>1. needs[p] \cup {d} \in SUBSET Driver
          BY <4>1
        <5> QED
          BY <3>4, <4>1, <5>1 DEF Missing
      <4>3. needs' \in [Proc -> SUBSET Driver]
        BY <4>2 DEF Types
      <4>4. alone' = alone \/ alone' = [alone EXCEPT ![Call(p)] = FALSE]
        BY <3>4 DEF Missing
      <4>5. alone' \in [Calls -> BOOLEAN]
        BY <4>4 DEF Types
      <4> QED
        BY <4>3, <4>5
    <3>5. CASE CheckApp(p) \/ CheckDfu(p)
      <4>1. /\ needs' \in [Proc -> SUBSET Driver] /\ alone' \in [Calls -> BOOLEAN]
            /\ UNCHANGED <<drivers, purpose, level, code, ran>>
        BY <3>4, <3>5 DEF CheckApp, CheckDfu, Driver
      <4>2. PICK label \in Labels : pc' = [pc EXCEPT ![p] = label]
        <5>1. CASE CheckApp(p)
          BY <5>1 DEF CheckApp, Goto, Labels
        <5>2. CASE CheckDfu(p)
          BY <5>2 DEF CheckDfu, Decide, Goto, Labels
        <5> QED
          BY <3>5, <5>1, <5>2
      <4> QED
        BY <4>1, <4>2 DEF Types
    <3>6. CASE Attach(p)
      BY <3>2, <3>6 DEF Attach, Goto, Types, Labels
    <3>7. CASE Install(p)
      <4>1. alone' \in [Calls -> BOOLEAN]
        BY <3>7 DEF Install, Disturb, Types
      <4> QED
        BY <3>1, <3>7, <4>1 DEF Install, Types, Driver
    <3>8. CASE Installed(p)
      BY <3>1, <3>8 DEF Installed, Types
    <3>9. CASE Elevate(p)
      BY <3>2, <3>9 DEF Elevate, Types, Labels, Level
    <3>10. CASE Collect(p)
      BY <3>1, <3>10 DEF Collect, Goto, Types, Labels
    <3>11. CASE RunCommand(p)
      BY <3>0, <3>1, <3>11 DEF RunCommand, Types
    <3>12. CASE Kill(p)
      BY <3>2, <3>12 DEF Kill
    <3> QED
      BY <2>2, <3>3, <3>5, <3>6, <3>7, <3>8, <3>9, <3>10, <3>11, <3>12 DEF Step
  <2>3. CASE UNCHANGED vars
    BY <2>3 DEF vars, Types
  <2> QED
    BY <2>1, <2>2, <2>3 DEF Next
<1> QED
  BY <1>1, <1>2, PTL DEF Spec
-----------------------------------------------------------------------------
(* Nothing unbinds a driver.  What a process does not know to be missing   *)
(* is there, and an exit code that is good, or the command, follows from   *)
(* that.                                                                   *)
Known(p) ==
  /\ pc[p] = "dfu" => "app" \in needs[p] \cup drivers
  /\ pc[p] \in {"attach", "install", "elevate"} => Driver \subseteq needs[p] \cup drivers
  /\ (pc[p] = "command" \/ code[p] = "ok") => drivers = Driver
  /\ pc[p] = "wait" => Depth(p) < 2

AccessInv == \A p \in Proc : Known(p)

(* What the step of a process does to the others, and to the drivers.      *)
LEMMA OthersKnow ==
  ASSUME Types, NEW p \in Proc, Step(p) \/ Kill(p), NEW q \in Proc, q # p, Known(q)
  PROVE  Known(q)'
<1>1. drivers \subseteq drivers' /\ drivers' \subseteq Driver
  <2>1. CASE Install(p)
    BY <2>1 DEF Types, Install, Driver
  <2> QED
    BY <2>1 DEF Types, Step, Kill, Fails, Exit, Parse, CheckApp, CheckDfu, Attach, Installed,
       Elevate, Collect, RunCommand
<1>2. CASE UNCHANGED <<pc[q], code[q], needs[q]>>
  BY <1>1, <1>2 DEF Known
<1>3. CASE pc'[q] = "parse" /\ UNCHANGED code
  BY <1>1, <1>3 DEF Known
<1>4. UNCHANGED <<pc[q], code[q], needs[q]>> \/ (pc'[q] = "parse" /\ UNCHANGED code)
  <2> USE DEF Types, Exit, Fails, Goto
  <2>1. CASE Parse(p)
    BY <2>1 DEF Parse, Decide
  <2>2. CASE CheckApp(p)
    BY <2>2 DEF CheckApp, Missing
  <2>3. CASE CheckDfu(p)
    BY <2>3 DEF CheckDfu, Missing, Decide
  <2>4. CASE Attach(p) \/ Installed(p) \/ Collect(p) \/ RunCommand(p) \/ Kill(p)
    BY <2>4 DEF Attach, Installed, Collect, RunCommand, Kill
  <2>5. CASE Install(p)
    BY <2>5 DEF Install
  <2>6. CASE Elevate(p)
    BY <2>6 DEF Elevate
  <2> QED
    BY <2>1, <2>2, <2>3, <2>4, <2>5, <2>6 DEF Step
<1> QED
  BY <1>2, <1>3, <1>4

(* Whatever is installed by whom and fails: nobody comes to a command, or  *)
(* ends well, without both drivers (windows.rs:362-533).                   *)
THEOREM AccessBeforeCommand == Spec => []RunsWithAccess
<1>1. Init => AccessInv
  BY DEF Init, AccessInv, Known
<1>2. Types /\ AccessInv /\ [Next]_vars => AccessInv'
  <2> SUFFICES ASSUME Types, AccessInv, [Next]_vars PROVE AccessInv'
    OBVIOUS
  <2>1. ASSUME NEW c \in Calls, Start(c) PROVE AccessInv'
    BY <2>1, ProcOf DEF Start, Goto, AccessInv, Known, Types
  <2>2. ASSUME NEW p \in Proc, Step(p) \/ Kill(p) PROVE AccessInv'
    <3> SUFFICES Known(p)'
      BY <2>2, OthersKnow DEF AccessInv
    <3>0. Known(p) /\ (Child(p) \in Proc => Known(Child(p)))
      BY DEF AccessInv
    <3> USE DEF Types, Known, Goto
    <3>1. ASSUME Exit(p, "failed") PROVE Known(p)'
      BY <3>1 DEF Exit
    <3>2. ASSUME NEW f, Fails(p, f) PROVE Known(p)'
      BY <3>1, <3>2 DEF Fails
    <3>3. CASE Parse(p)
      BY <3>0, <3>1, <3>3 DEF Parse, Decide, Driver
    <3>4. CASE CheckApp(p)
      BY <3>0, <3>4 DEF CheckApp, Missing, Driver
    <3>5. CASE CheckDfu(p)
      <4>1. Driver \subseteq needs'[p] \cup drivers'
        BY <3>0, <3>5 DEF CheckDfu, Missing, Driver
      <4>2. pc'[p] \in {"command", "attach", "install", "elevate"}
            /\ (pc'[p] = "command" => needs'[p] = {})
        BY <3>5 DEF CheckDfu, Decide
      <4>3. drivers' \subseteq Driver /\ (code'[p] = "ok" => drivers' = Driver)
        BY <3>0, <3>5 DEF CheckDfu
      <4> QED
        BY <4>1, <4>2, <4>3
    <3>6. CASE Attach(p)
      BY <3>0, <3>2, <3>6 DEF Attach
    <3>7. CASE Install(p)
      BY <3>0, <3>1, <3>7 DEF Install, Driver
    <3>8. CASE Installed(p)
      BY <3>0, <3>8 DEF Installed, Exit
    <3>9. CASE Elevate(p)
      <4>1. Child(p) # p
        BY DEF Child, Proc
      <4> QED
        BY <3>0, <3>2, <3>9, <4>1 DEF Elevate
    <3>10. CASE Collect(p)
      <4>0. Child(p) \in Proc
        BY <3>0, <3>10 DEF Collect, Child, Depth, Proc
      <4>1. code[Child(p)] = "ok" => drivers = Driver
        BY <3>0, <3>10, <4>0
      <4> QED
        BY <3>0, <3>1, <3>10, <4>1 DEF Collect
    <3>11. CASE RunCommand(p)
      BY <3>0, <3>1, <3>11 DEF RunCommand, Exit
    <3>12. CASE Kill(p)
      BY <3>2, <3>12 DEF Kill
    <3> QED
      BY <2>2, <3>3, <3>4, <3>5, <3>6, <3>7, <3>8, <3>9, <3>10, <3>11, <3>12 DEF Step
  <2>3. CASE UNCHANGED vars
    BY <2>3 DEF vars, AccessInv, Known
  <2> QED
    BY <2>1, <2>2, <2>3 DEF Next
<1>3. AccessInv => RunsWithAccess
  BY DEF AccessInv, Known, RunsWithAccess
<1> QED
  BY <1>1, <1>2, <1>3, TypesInductive, PTL DEF Spec

-----------------------------------------------------------------------------
First(c) == <<c, 0>>
Second(c) == <<c, 1>>
Third(c) == <<c, 2>>

Early == {"none", "parse", "app", "dfu", "attach", "install", "elevate"}
Done(p) == IF pc[p] = "done" THEN 1 ELSE 0

(* The processes of a call in their order: the second one starts when the  *)
(* first one waits, the third one refuses its arguments, and each of the   *)
(* two comes to the command once at most.                                  *)
Order(c) ==
  /\ pc[Third(c)] \in {"none", "parse", "done"} /\ code[Third(c)] # "ok"
  /\ pc[First(c)] = "none" => needs[First(c)] = {}
  /\ pc[First(c)] \in Early => pc[Second(c)] = "none"
  /\ pc[Second(c)] \in Early => pc[Third(c)] = "none"
  /\ pc[First(c)] = "command" => pc[Second(c)] \in {"none", "done"}
  /\ ran[c] <= Done(First(c)) + Done(Second(c))

(* What the first process found missing is missing until the second one    *)
(* has installed it, if nothing else does.                                 *)
StillMissing(c) ==
  /\ pc[First(c)] \in {"none", "parse", "app"} => needs[First(c)] = {}
  /\ pc[First(c)] = "dfu" =>
       needs[First(c)] \subseteq {"app"} /\ ("app" \in needs[First(c)] => "app" \notin drivers)
  /\ pc[First(c)] = "elevate" => drivers # Driver
  /\ pc[First(c)] = "wait" =>
       /\ pc[Second(c)] # "command"
       /\ pc[Second(c)] \in {"parse", "app"} => drivers # Driver
       /\ pc[Second(c)] = "dfu" => (needs[Second(c)] = {} => "dfu" \notin drivers)

(* So the second process does not come to the command as long as the first *)
(* one may.                                                                *)
Once(c) ==
  /\ purpose[c] # "command" => ran[c] = 0
  /\ pc[First(c)] \in Early => ran[c] = 0
  /\ alone[c] =>
       /\ pc[First(c)] # "done" => ran[c] = 0
       /\ pc[Second(c)] \notin {"none", "done"} => ran[c] = 0
       /\ ran[c] <= 1
       /\ purpose[c] = "command" => StillMissing(c)

CallInv(c) == Order(c) /\ Once(c)

LEMMA BothDrivers ==
  ASSUME NEW D \in SUBSET Driver, "app" \in D, "dfu" \in D PROVE D = Driver
BY DEF Driver

LEMMA Procs ==
  ASSUME NEW c \in Calls
  PROVE  /\ First(c) \in Proc /\ Second(c) \in Proc /\ Third(c) \in Proc
         /\ First(c) # Second(c) /\ First(c) # Third(c) /\ Second(c) # Third(c)
         /\ Child(First(c)) = Second(c) /\ Child(Second(c)) = Third(c)
         /\ Depth(First(c)) = 0 /\ Depth(Second(c)) = 1 /\ Depth(Third(c)) = 2
         /\ Call(First(c)) = c /\ Call(Second(c)) = c /\ Call(Third(c)) = c
         /\ \A p \in Proc : Call(p) = c => p \in {First(c), Second(c), Third(c)}
<1>1. \A d \in 0..2 : d = 0 \/ d = 1 \/ d = 2
  OBVIOUS
<1> QED
  BY <1>1 DEF First, Second, Third, Proc, Child, Depth, Call

(* A step of another call leaves the processes of this one alone.          *)
LEMMA Foreign ==
  ASSUME Types, NEW c \in Calls, NEW p \in Proc, Call(p) # c, Step(p) \/ Kill(p),
         NEW q \in Proc, Call(q) = c
  PROVE  UNCHANGED <<pc[q], needs[q], code[q]>>
<1>1. q # p /\ q # Child(p)
  BY DEF Call, Child
<1> USE DEF Types, Exit, Fails, Goto
<1>2. CASE Parse(p)
  BY <1>1, <1>2 DEF Parse, Decide
<1>3. CASE CheckApp(p)
  BY <1>1, <1>3 DEF CheckApp, Missing
<1>4. CASE CheckDfu(p)
  BY <1>1, <1>4 DEF CheckDfu, Missing, Decide
<1>5. CASE Attach(p) \/ Installed(p) \/ Collect(p) \/ RunCommand(p) \/ Kill(p)
  BY <1>1, <1>5 DEF Attach, Installed, Collect, RunCommand, Kill
<1>6. CASE Install(p)
  BY <1>1, <1>6 DEF Install
<1>7. CASE Elevate(p)
  BY <1>1, <1>7 DEF Elevate
<1> QED
  BY <1>2, <1>3, <1>4, <1>5, <1>6, <1>7 DEF Step

LEMMA ForeignCall ==
  ASSUME Types, NEW c \in Calls, NEW p \in Proc, Call(p) # c, Step(p) \/ Kill(p)
  PROVE  /\ UNCHANGED <<ran[c], purpose[c]>>
         /\ \/ UNCHANGED <<drivers, alone[c]>>
            \/ alone'[c] => alone[c] /\ pc[First(c)] \in {"none", "done"}
<1> USE DEF Types, Exit, Fails
<1>0. Call(p) \in Calls
  BY ProcOf
<1>1. CASE Install(p)
  BY <1>1 DEF Install, Disturb, First
<1>2. CASE CheckApp(p) \/ CheckDfu(p)
  BY <1>0, <1>2 DEF CheckApp, CheckDfu, Missing
<1>3. CASE RunCommand(p)
  BY <1>0, <1>3 DEF RunCommand
<1>4. CASE Parse(p) \/ Attach(p) \/ Installed(p) \/ Elevate(p) \/ Collect(p) \/ Kill(p)
  BY <1>4 DEF Parse, Attach, Installed, Elevate, Collect, Kill
<1> QED
  BY <1>1, <1>2, <1>3, <1>4 DEF Step

LEMMA CallsInductive == Spec => [](\A c \in Calls : CallInv(c))
<1>1. Init => \A c \in Calls : CallInv(c)
  <2> SUFFICES ASSUME Init, NEW c \in Calls PROVE CallInv(c)
    OBVIOUS
  <2> QED
    BY Procs DEF Init, CallInv, Order, Once, StillMissing, Done
<1>2. Types /\ (\A c \in Calls : CallInv(c)) /\ [Next]_vars => (\A c \in Calls : CallInv(c))'
  <2> SUFFICES ASSUME Types, \A c \in Calls : CallInv(c), [Next]_vars, NEW c \in Calls
               PROVE CallInv(c)'
    OBVIOUS
  <2>0. CallInv(c) /\ ran[c] \in Nat
    BY DEF Types
  <2> USE Procs DEF CallInv
  <2>1. ASSUME NEW d \in Calls, Start(d) PROVE CallInv(c)'
    <3>1. CASE d = c
      <4>1. /\ pc[First(c)] = "none" /\ pc'[First(c)] = "parse"
            /\ UNCHANGED <<pc[Second(c)], pc[Third(c)], drivers, needs, code, ran, alone>>
        BY <2>1, <3>1 DEF Start, Goto, Types, First, Second, Third
      <4> QED
        BY <2>0, <4>1 DEF Order, Once, StillMissing, Done, Early
    <3>2. CASE d # c
      <4>1. <<d, 0>> \notin {First(c), Second(c), Third(c)}
        BY <3>2 DEF First, Second, Third
      <4>2. /\ UNCHANGED <<pc[First(c)], pc[Second(c)], pc[Third(c)], purpose[c]>>
            /\ UNCHANGED <<drivers, needs, code, ran, alone>>
        BY <2>1, <3>2, <4>1 DEF Start, Goto, Types
      <4> QED
        BY <2>0, <4>2 DEF Order, Once, StillMissing, Done
    <3> QED
      BY <3>1, <3>2
  <2>2. ASSUME NEW p \in Proc, Step(p) \/ Kill(p), Call(p) # c PROVE CallInv(c)'
    <3>1. \A q \in {First(c), Second(c), Third(c)} : UNCHANGED <<pc[q], needs[q], code[q]>>
      BY <2>2, Foreign
    <3>2. UNCHANGED <<ran[c], purpose[c]>>
      BY <2>2, ForeignCall
    <3>3. CASE UNCHANGED <<drivers, alone[c]>>
      BY <2>0, <3>1, <3>2, <3>3 DEF Order, Once, StillMissing, Done
    <3>4. CASE alone'[c] => alone[c] /\ pc[First(c)] \in {"none", "done"}
      BY <2>0, <3>1, <3>2, <3>4 DEF Order, Once, StillMissing, Done, Early
    <3> QED
      BY <2>2, <3>3, <3>4, ForeignCall
  <2>3. CASE UNCHANGED vars
    BY <2>0, <2>3 DEF vars, Order, Once, StillMissing, Done
  <2>4. CASE Step(Third(c)) \/ Kill(Third(c))
    <3>0. pc[Third(c)] # "none"
      BY <2>4 DEF Step, Kill, Parse, CheckApp, CheckDfu, Attach, Install, Installed, Elevate,
         Collect, RunCommand
    <3>1. CASE Exit(Third(c), "failed") /\ UNCHANGED <<drivers, ran, alone>>
      <4>1. /\ pc'[Third(c)] = "done" /\ code'[Third(c)] = "failed"
            /\ \A q \in {First(c), Second(c)} : UNCHANGED <<pc[q], needs[q], code[q]>>
            /\ UNCHANGED <<drivers, purpose, ran, alone>>
        BY <3>1 DEF Exit, Goto, Types
      <4> QED
        BY <2>0, <3>0, <4>1 DEF Order, Once, StillMissing, Done
    <3>2. Exit(Third(c), "failed") /\ UNCHANGED <<drivers, ran, alone>>
      <4>0. TRUE \notin Accepted(Third(c))
        BY DEF Accepted
      <4>1. CASE Kill(Third(c)) \/ Parse(Third(c))
        BY <4>0, <4>1 DEF Kill, Fails, Parse
      <4> QED
        BY <2>0, <2>4, <4>1 DEF Order, Step, Parse, CheckApp, CheckDfu, Attach, Install, Installed,
           Elevate, Collect, RunCommand
    <3> QED
      BY <3>1, <3>2
  <2>5. CASE Step(Second(c)) \/ Kill(Second(c))
    <3>1. pc[Second(c)] \notin {"none", "done"} /\ pc[First(c)] \in {"wait", "done"}
      <4>1. pc[Second(c)] \notin {"none", "done"}
        BY <2>5 DEF Step, Kill, Parse, CheckApp, CheckDfu, Attach, Install, Installed, Elevate,
           Collect, RunCommand
      <4> QED
        BY <2>0, <4>1 DEF Order, Types, Labels, Early
    <3> USE DEF Order, Once, StillMissing, Done, Early, Types, Exit, Fails, Goto
    <3>2. CASE Parse(Second(c))
      <4>1. CASE Exit(Second(c), "failed")
        BY <2>0, <3>1, <3>2, <4>1 DEF Parse
      <4>2. CASE UNCHANGED needs /\ Goto(Second(c), "app")
        BY <2>0, <3>1, <3>2, <4>2 DEF Parse
      <4>3. CASE purpose[c] = "force" /\ needs' = [needs EXCEPT ![Second(c)] = Driver] /\ Decide(Second(c))
        <5>1. pc'[Second(c)] \in Labels \ {"none", "done"}
              /\ UNCHANGED <<pc[First(c)], pc[Third(c)]>>
          BY <4>3 DEF Decide, Labels
        <5> QED
          BY <2>0, <3>1, <3>2, <4>3, <5>1 DEF Parse
      <4> QED
        BY <3>2, <4>1, <4>2, <4>3 DEF Parse
    <3>3. CASE CheckApp(Second(c))
      <4>0. Missing(Second(c), "app")
        BY <3>3 DEF CheckApp
      <4>3. UNCHANGED needs[First(c)] /\ (alone'[c] => alone[c])
        BY <4>0 DEF Missing
      <4>4. needs'[Second(c)] = {} => "app" \in drivers
        <5>1. "app" \notin drivers => "app" \in needs'[Second(c)]
          BY <4>0 DEF Missing
        <5> QED
          BY <5>1
      <4>5. ("app" \in drivers /\ "dfu" \in drivers) => drivers = Driver
        BY BothDrivers
      <4>1. (needs'[Second(c)] = {} /\ drivers # Driver) => "dfu" \notin drivers
        BY <4>4, <4>5
      <4>2. pc'[Second(c)] = "dfu" /\ UNCHANGED <<pc[First(c)], pc[Third(c)]>>
        BY <3>3 DEF CheckApp
      <4> QED
        BY <2>0, <3>1, <3>3, <4>1, <4>2, <4>3 DEF CheckApp
    <3>4. CASE CheckDfu(Second(c))
      <4>1. /\ pc'[Second(c)] \in {"command", "elevate", "attach", "install"}
            /\ UNCHANGED <<pc[First(c)], pc[Third(c)]>>
        BY <3>4 DEF CheckDfu, Decide
      <4>2. pc'[Second(c)] = "command" => needs'[Second(c)] = {}
        BY <3>4 DEF CheckDfu, Decide
      <4>3. UNCHANGED needs[First(c)] /\ (alone'[c] => alone[c])
        BY <3>4 DEF CheckDfu, Missing
      <4>4. needs'[Second(c)] = {} => needs[Second(c)] = {} /\ "dfu" \in drivers
        <5>1. Missing(Second(c), "dfu")
          BY <3>4 DEF CheckDfu
        <5>2. needs'[Second(c)] \in
                {needs[Second(c)] \cup {"dfu"}, IF "dfu" \in drivers THEN needs[Second(c)]
                                               ELSE needs[Second(c)] \cup {"dfu"}}
          BY <5>1 DEF Missing
        <5> QED
          BY <5>2
      <4>5. UNCHANGED <<drivers, purpose, code, ran>>
        BY <3>4 DEF CheckDfu
      <4>6. pc[Second(c)] = "dfu"
        BY <3>4 DEF CheckDfu
      <4> QED
        BY <2>0, <3>1, <4>1, <4>2, <4>3, <4>4, <4>5, <4>6
    <3>5. CASE Attach(Second(c))
      BY <2>0, <3>1, <3>5 DEF Attach
    <3>6. CASE Install(Second(c))
      <4>0. alone'[c] = (alone[c] /\ (c = Call(Second(c)) \/ pc[<<c, 0>>] \in {"none", "done"}))
        BY <3>6 DEF Install, Disturb
      <4>1. alone'[c] => alone[c]
        BY <4>0
      <4>2. CASE pc' = pc
        BY <2>0, <3>1, <3>6, <4>1, <4>2 DEF Install
      <4>3. CASE Exit(Second(c), "failed")
        BY <2>0, <3>1, <3>6, <4>1, <4>3 DEF Install
      <4> QED
        BY <3>6, <4>2, <4>3 DEF Install
    <3>7. CASE Installed(Second(c))
      BY <2>0, <3>1, <3>7 DEF Installed
    <3>8. CASE Elevate(Second(c))
      BY <2>0, <3>1, <3>8 DEF Elevate
    <3>9. CASE Collect(Second(c))
      BY <2>0, <3>1, <3>9 DEF Collect
    <3>10. CASE RunCommand(Second(c))
      BY <2>0, <3>1, <3>10 DEF RunCommand
    <3>11. CASE Kill(Second(c))
      BY <2>0, <3>1, <3>11 DEF Kill
    <3> QED
      BY <2>5, <3>2, <3>3, <3>4, <3>5, <3>6, <3>7, <3>8, <3>9, <3>10, <3>11 DEF Step
  <2>6. CASE Step(First(c)) \/ Kill(First(c))
    <3> USE DEF Order, Once, StillMissing, Done, Early, Types, Exit, Fails, Goto
    <3>2. CASE Parse(First(c))
      <4>1. CASE Exit(First(c), "failed")
        BY <2>0, <3>2, <4>1 DEF Parse
      <4>2. CASE UNCHANGED needs /\ Goto(First(c), "app")
        BY <2>0, <3>2, <4>2 DEF Parse
      <4>3. CASE purpose[c] = "force" /\ needs' = [needs EXCEPT ![First(c)] = Driver] /\ Decide(First(c))
        <5>1. /\ pc'[First(c)] \in {"elevate", "attach", "install"}
              /\ UNCHANGED <<pc[Second(c)], pc[Third(c)]>>
          BY <4>3 DEF Decide, Driver
        <5> QED
          BY <2>0, <3>2, <4>3, <5>1 DEF Parse
      <4> QED
        BY <3>2, <4>1, <4>2, <4>3 DEF Parse
    <3>3. CASE CheckApp(First(c))
      BY <2>0, <3>3 DEF CheckApp, Missing, Driver
    <3>4. CASE CheckDfu(First(c))
      <4>1. /\ pc'[First(c)] \in {"command", "elevate", "attach", "install"}
            /\ pc'[First(c)] = "elevate" => needs'[First(c)] # {}
            /\ UNCHANGED <<pc[Second(c)], pc[Third(c)]>>
        <5>1. CASE needs'[First(c)] = {}
          BY <3>4, <5>1 DEF CheckDfu, Decide
        <5>2. CASE needs'[First(c)] # {} /\ NeedsToElevate(First(c))
          BY <3>4, <5>2 DEF CheckDfu, Decide
        <5>3. CASE needs'[First(c)] # {} /\ ~NeedsToElevate(First(c))
          BY <3>4, <5>3 DEF CheckDfu, Decide
        <5> QED
          BY <5>1, <5>2, <5>3
      <4>2. alone'[c] => alone[c] /\ (needs'[First(c)] = IF "dfu" \in drivers THEN needs[First(c)] ELSE needs[First(c)] \cup {"dfu"})
        BY <3>4 DEF CheckDfu, Missing
      <4>3. (alone'[c] /\ purpose[c] = "command" /\ needs'[First(c)] # {}) => drivers # Driver
        BY <2>0, <3>4, <4>2 DEF CheckDfu, Driver
      <4>4. UNCHANGED <<drivers, purpose, code, ran>>
        BY <3>4 DEF CheckDfu
      <4> QED
        BY <2>0, <3>4, <4>1, <4>2, <4>3, <4>4 DEF CheckDfu
    <3>5. CASE Attach(First(c))
      BY <2>0, <3>5 DEF Attach
    <3>6. CASE Install(First(c))
      BY <2>0, <3>6 DEF Install, Disturb
    <3>7. CASE Installed(First(c))
      BY <2>0, <3>7 DEF Installed
    <3>8. CASE Elevate(First(c))
      BY <2>0, <3>8 DEF Elevate
    <3>9. CASE Collect(First(c))
      BY <2>0, <3>9 DEF Collect
    <3>10. CASE RunCommand(First(c))
      BY <2>0, <3>10 DEF RunCommand
    <3>11. CASE Kill(First(c))
      BY <2>0, <3>11 DEF Kill
    <3> QED
      BY <2>6, <3>2, <3>3, <3>4, <3>5, <3>6, <3>7, <3>8, <3>9, <3>10, <3>11 DEF Step
  <2> QED
    <3>1. \A p \in Proc : Call(p) = c => p \in {First(c), Second(c), Third(c)}
      OBVIOUS
    <3> QED
      BY <2>1, <2>2, <2>3, <2>4, <2>5, <2>6, <3>1 DEF Next
<1> QED
  BY <1>1, <1>2, TypesInductive, PTL DEF Spec

(* Every state has the types TypeOK gives it; in particular, no call does  *)
(* what it is for more than twice.                                         *)
THEOREM TypeCorrect == Spec => []TypeOK
<1>1. Types /\ (\A c \in Calls : CallInv(c)) => TypeOK
  <2> SUFFICES ASSUME Types, \A c \in Calls : CallInv(c) PROVE ran \in [Calls -> 0..2]
    BY DEF Types, TypeOK
  <2>1. ASSUME NEW c \in Calls PROVE ran[c] \in 0..2
    BY DEF Types, CallInv, Order, Done
  <2> QED
    BY <2>1 DEF Types
<1> QED
  BY <1>1, TypesInductive, CallsInductive, PTL

(* A call whose reads succeed, and during which no other one installs a    *)
(* driver, does what it is for once at most (windows.rs:453-454, 515-524). *)
THEOREM AloneRunsOnce == Spec => []RunsOnce
<1>1. (\A c \in Calls : CallInv(c)) => RunsOnce
  BY DEF CallInv, Once, RunsOnce
<1> QED
  BY <1>1, CallsInductive, PTL

-----------------------------------------------------------------------------
(* How far a process is from its end: the more it still has to look at and *)
(* to install, and the farthest if it has not been started.                *)
Ahead(p) ==
  CASE pc[p] = "none" -> 8
    [] pc[p] = "parse" -> 7
    [] pc[p] = "app" -> 6
    [] pc[p] = "dfu" -> 5
    [] pc[p] = "attach" -> 4
    [] pc[p] = "install" ->
         1 + (IF "app" \in needs[p] THEN 1 ELSE 0) + (IF "dfu" \in needs[p] THEN 1 ELSE 0)
    [] pc[p] = "elevate" -> 3
    [] pc[p] = "wait" -> 2
    [] pc[p] = "command" -> 1
    [] pc[p] = "done" -> 0

(* How many steps the processes of a call can take at most.                *)
StepsLeft(c) == Ahead(First(c)) + Ahead(Second(c)) + Ahead(Third(c))

LEMMA AheadBounds ==
  ASSUME Types, NEW p \in Proc
  PROVE  Ahead(p) \in 0..8
BY DEF Types, Labels, Ahead

(* The step of a process brings it nearer to its end.                      *)
LEMMA GetsNearer ==
  ASSUME Types, NEW p \in Proc, Step(p) \/ Kill(p)
  PROVE  Ahead(p)' < Ahead(p)
<1>1. ASSUME NEW how, Exit(p, how), pc[p] \notin {"none", "done"} PROVE Ahead(p)' < Ahead(p)
  <2>1. pc'[p] = "done"
    BY <1>1 DEF Exit, Goto, Types
  <2>2. pc[p] \in Labels
    BY DEF Types
  <2> QED
    BY <1>1, <2>1, <2>2 DEF Ahead, Labels
<1>2. ASSUME NEW f, Fails(p, f), pc[p] \notin {"none", "done"} PROVE Ahead(p)' < Ahead(p)
  BY <1>1, <1>2 DEF Fails
<1>3. ASSUME Decide(p)
      PROVE  /\ pc'[p] \in {"command", "elevate", "attach", "install"}
  BY <1>3 DEF Decide, Goto, Types
<1> USE DEF Types, Goto
<1>4. CASE Parse(p)
  <2>1. CASE Exit(p, "failed")
    BY <1>1, <1>4, <2>1 DEF Parse
  <2>2. CASE ~Exit(p, "failed")
    <3>1. pc[p] = "parse" /\ pc'[p] \in {"app", "command", "elevate", "attach", "install"}
      BY <1>3, <1>4, <2>2 DEF Parse
    <3> QED
      BY <3>1 DEF Ahead
  <2> QED
    BY <2>1, <2>2
<1>5. CASE CheckApp(p)
  <2>1. pc[p] = "app" /\ pc'[p] = "dfu"
    BY <1>5 DEF CheckApp
  <2> QED
    BY <2>1 DEF Ahead
<1>6. CASE CheckDfu(p)
  <2>1. pc[p] = "dfu" /\ pc'[p] \in {"command", "elevate", "attach", "install"}
    BY <1>3, <1>6 DEF CheckDfu
  <2> QED
    BY <2>1 DEF Ahead
<1>7. CASE Attach(p)
  <2>1. pc[p] = "attach" /\ (pc'[p] = "install" \/ Fails(p, "console"))
    BY <1>7 DEF Attach
  <2>2. CASE pc'[p] = "install"
    BY <2>1, <2>2 DEF Ahead
  <2> QED
    BY <1>2, <2>1, <2>2
<1>8. CASE Install(p)
  <2>1. CASE Exit(p, "failed")
    BY <1>1, <1>8, <2>1 DEF Install
  <2>2. CASE ~Exit(p, "failed")
    <3>1. PICK d \in needs[p] : /\ pc[p] = "install" /\ pc'[p] = "install"
                                /\ needs'[p] = needs[p] \ {d}
      BY <1>8, <2>2 DEF Install, Driver
    <3>2. d \in {"app", "dfu"}
      BY <3>1 DEF Driver
    <3> QED
      BY <3>1, <3>2 DEF Ahead
  <2> QED
    BY <2>1, <2>2
<1>9. CASE Installed(p)
  BY <1>1, <1>9 DEF Installed
<1>10. CASE Elevate(p)
  <2>0. Child(p) # p
    BY DEF Child, Proc
  <2>1. pc[p] = "elevate" /\ (pc'[p] = "wait" \/ Fails(p, "refuse"))
    BY <1>10, <2>0 DEF Elevate
  <2>2. CASE pc'[p] = "wait"
    BY <2>1, <2>2 DEF Ahead
  <2> QED
    BY <1>2, <2>1, <2>2
<1>11. CASE Collect(p)
  <2>1. pc[p] = "wait" /\ (pc'[p] = "command" \/ Exit(p, "failed"))
    BY <1>11 DEF Collect
  <2>2. CASE pc'[p] = "command"
    BY <2>1, <2>2 DEF Ahead
  <2> QED
    BY <1>1, <2>1, <2>2
<1>12. CASE RunCommand(p)
  BY <1>1, <1>12 DEF RunCommand
<1>13. CASE Kill(p)
  BY <1>2, <1>13 DEF Kill
<1> QED
  BY <1>4, <1>5, <1>6, <1>7, <1>8, <1>9, <1>10, <1>11, <1>12, <1>13 DEF Step

(* The other processes of the call are left alone, but for the one that is *)
(* started.                                                                *)
LEMMA OthersNoFarther ==
  ASSUME Types, NEW p \in Proc, Order(Call(p)), Step(p) \/ Kill(p), NEW q \in Proc, q # p
  PROVE  Ahead(q)' = Ahead(q) \/ Ahead(q)' < Ahead(q)
<1>1. CASE UNCHANGED <<pc[q], needs[q]>>
  BY <1>1 DEF Ahead
<1>2. CASE pc[q] = "none" /\ pc'[q] = "parse"
  BY <1>2 DEF Ahead
<1>3. UNCHANGED <<pc[q], needs[q]>> \/ (pc[q] = "none" /\ pc'[q] = "parse")
  <2> USE DEF Types, Exit, Fails, Goto
  <2>1. CASE Parse(p)
    BY <2>1 DEF Parse, Decide
  <2>2. CASE CheckApp(p)
    BY <2>2 DEF CheckApp, Missing
  <2>3. CASE CheckDfu(p)
    BY <2>3 DEF CheckDfu, Missing, Decide
  <2>4. CASE Attach(p) \/ Installed(p) \/ Collect(p) \/ RunCommand(p) \/ Kill(p)
    BY <2>4 DEF Attach, Installed, Collect, RunCommand, Kill
  <2>5. CASE Install(p)
    BY <2>5 DEF Install
  <2>6. CASE Elevate(p)
    <3>1. CASE q # Child(p)
      BY <2>6, <3>1 DEF Elevate
    <3>2. CASE q = Child(p)
      <4>0. Call(p) \in Calls
        BY ProcOf
      <4>1. p \in {First(Call(p)), Second(Call(p)), Third(Call(p))}
        BY <4>0, Procs
      <4>2. pc[p] = "elevate" /\ Depth(p) < 2
        BY <2>6 DEF Elevate
      <4>3. p = First(Call(p)) \/ p = Second(Call(p))
        BY <4>0, <4>1, <4>2, Procs
      <4>4. pc[q] = "none"
        BY <3>2, <4>0, <4>2, <4>3, Procs DEF Order, Early
      <4>5. (UNCHANGED pc[q] /\ UNCHANGED needs[q]) \/ pc'[q] = "parse"
        BY <2>6, <3>2 DEF Elevate
      <4> QED
        BY <4>4, <4>5
    <3> QED
      BY <3>1, <3>2
  <2> QED
    BY <2>1, <2>2, <2>3, <2>4, <2>5, <2>6 DEF Step
<1> QED
  BY <1>1, <1>2, <1>3

Advances(c) ==
  /\ StepsLeft(c)' \in 0..StepsLeft(c) - 1
  /\ \A d \in Calls \ {c} : StepsLeft(d)' = StepsLeft(d)

(* Every step, of whatever process and under whatever faults, takes from   *)
(* what one call has left and nothing from the others': no call takes more *)
(* than 24 steps, and neither elevation nor the wait for it goes round in  *)
(* circles (windows.rs:453-454, 502-524).                                  *)
THEOREM CallStepsBounded == Spec => [][\E c \in Calls : Advances(c)]_vars
<1>1. Types /\ Types' /\ (\A c \in Calls : CallInv(c)) /\ [Next]_vars =>
        [\E c \in Calls : Advances(c)]_vars
  <2> SUFFICES ASSUME Types, Types', \A c \in Calls : CallInv(c), Next
               PROVE  \E c \in Calls : Advances(c)
    OBVIOUS
  <2>0. ASSUME NEW c \in Calls
        PROVE  /\ Ahead(First(c)) \in 0..8 /\ Ahead(Second(c)) \in 0..8 /\ Ahead(Third(c)) \in 0..8
               /\ Ahead(First(c))' \in Nat /\ Ahead(Second(c))' \in Nat /\ Ahead(Third(c))' \in Nat
    <3>1. First(c) \in Proc /\ Second(c) \in Proc /\ Third(c) \in Proc
      BY Procs
    <3>2. ASSUME NEW p \in Proc PROVE Ahead(p)' \in 0..8
      BY DEF Types, Labels, Ahead
    <3> QED
      BY <3>1, <3>2, AheadBounds
  <2>1. ASSUME NEW c \in Calls, Start(c) PROVE Advances(c)
    <3>1. pc[First(c)] = "none" /\ pc' = [pc EXCEPT ![First(c)] = "parse"] /\ UNCHANGED needs
      BY <2>1 DEF Start, Goto, First
    <3>2. ASSUME NEW q \in Proc, q # First(c) PROVE Ahead(q)' = Ahead(q)
      BY <3>1, <3>2 DEF Ahead, Types
    <3>3. Ahead(First(c)) = 8 /\ Ahead(First(c))' = 7
      BY <3>1, Procs DEF Ahead, Types
    <3>4. Ahead(Second(c))' = Ahead(Second(c)) /\ Ahead(Third(c))' = Ahead(Third(c))
      BY <3>2, Procs
    <3>5. ASSUME NEW d \in Calls \ {c} PROVE StepsLeft(d)' = StepsLeft(d)
      <4>1. /\ First(d) \in Proc /\ Second(d) \in Proc /\ Third(d) \in Proc
            /\ First(c) \notin {First(d), Second(d), Third(d)}
        BY Procs DEF First, Second, Third
      <4> QED
        BY <3>2, <4>1 DEF StepsLeft
    <3>6. StepsLeft(c)' \in 0..StepsLeft(c) - 1
      BY <2>0, <3>3, <3>4 DEF StepsLeft
    <3> QED
      BY <3>5, <3>6 DEF Advances
  <2>2. ASSUME NEW p \in Proc, Step(p) \/ Kill(p) PROVE Call(p) \in Calls /\ Advances(Call(p))
    <3> DEFINE c == Call(p)
    <3>0. c \in Calls /\ Order(c) /\ p \in {First(c), Second(c), Third(c)}
          /\ First(c) \in Proc /\ Second(c) \in Proc /\ Third(c) \in Proc
      BY ProcOf, Procs DEF CallInv
    <3>1. Ahead(p)' < Ahead(p)
      BY <2>2, GetsNearer
    <3>2. ASSUME NEW q \in Proc, q # p PROVE Ahead(q)' = Ahead(q) \/ Ahead(q)' < Ahead(q)
      BY <2>2, <3>0, <3>2, OthersNoFarther
    <3>3. ASSUME NEW d \in Calls \ {c} PROVE StepsLeft(d)' = StepsLeft(d)
      <4>1. ASSUME NEW q \in {First(d), Second(d), Third(d)} PROVE Ahead(q)' = Ahead(q)
        <5>1. UNCHANGED <<pc[q], needs[q]>>
          BY <2>2, Foreign, Procs
        <5> QED
          BY <5>1 DEF Ahead
      <4> QED
        BY <4>1 DEF StepsLeft
    <3>4. StepsLeft(c)' \in 0..StepsLeft(c) - 1
      <4> HIDE DEF c
      <4> QED
        BY <2>0, <3>0, <3>1, <3>2 DEF StepsLeft
    <3> QED
      BY <3>0, <3>3, <3>4 DEF Advances
  <2> QED
    BY <2>1, <2>2 DEF Next
<1> QED
  BY <1>1, TypesInductive, CallsInductive, PTL DEF Spec
=============================================================================
