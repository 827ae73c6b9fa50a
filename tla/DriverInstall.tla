--------------------------- MODULE DriverInstall ---------------------------
(***************************************************************************)
(* bmputil on Windows: before it does what it was called for it makes sure *)
(* that both modes of the probe are bound to a driver (ensure_access of    *)
(* src/windows.rs, called by main).  To install one it starts itself again *)
(* as administrator, with the same arguments and one more, waits for that  *)
(* process and goes on when it succeeded.                                  *)
(***************************************************************************)
EXTENDS Naturals

CONSTANTS
  Calls,  \* calls of bmputil by users of the machine
  Faults  \* what may go wrong, a subset of AllFaults

(***************************************************************************)
(* registry  the driver database may be unreadable                         *)
(* refuse    the user may not let the process become administrator         *)
(* console   the administrator's process may not get at the console        *)
(* install   a driver may not be installed                                 *)
(* command   what bmputil was called for may fail                          *)
(* kill      a process may be killed                                       *)
(***************************************************************************)
AllFaults == {"registry", "refuse", "console", "install", "command", "kill"}

ASSUME DriverAssumption == Faults \subseteq AllFaults

(* The nodes of the probe in its two modes.                                *)
Driver == {"app", "dfu"}
Purpose == {"command", "install", "force"}
Level == {"user", "admin", "elevated"}

(* A call and the processes it may come to: its own, the one that starts   *)
(* as administrator, and one that this one starts.                         *)
Proc == Calls \X (0..2)
Call(p) == p[1]
Depth(p) == p[2]
Child(p) == <<p[1], p[2] + 1>>

VARIABLES
  drivers,  \* nodes that are bound to a driver
  purpose,  \* what the call is for: install-drivers, with --force or not, or else
  pc,       \* where each process is
  level,    \* its privileges
  needs,    \* devices_needing_driver
  code,     \* its exit code
  ran,      \* how often the call did what it was for
  alone     \* history: no read failed and no other call installed a driver

vars == <<drivers, purpose, pc, level, needs, code, ran, alone>>

Labels == {"none", "parse", "app", "dfu", "attach", "install", "elevate",
           "wait", "command", "done"}

TypeOK ==
  /\ drivers \subseteq Driver
  /\ purpose \in [Calls -> Purpose]
  /\ pc \in [Proc -> Labels]
  /\ level \in [Proc -> Level]
  /\ needs \in [Proc -> SUBSET Driver]
  /\ code \in [Proc -> {"none", "ok", "failed"}]
  /\ ran \in [Calls -> 0..2]
  /\ alone \in [Calls -> BOOLEAN]

Init ==
  /\ drivers \in SUBSET Driver
  /\ purpose = [c \in Calls |-> "command"]
  /\ pc = [p \in Proc |-> "none"]
  /\ level = [p \in Proc |-> "user"]
  /\ needs = [p \in Proc |-> {}]
  /\ code = [p \in Proc |-> "none"]
  /\ ran = [c \in Calls |-> 0]
  /\ alone = [c \in Calls |-> TRUE]

-----------------------------------------------------------------------------
Goto(p, label) == pc' = [pc EXCEPT ![p] = label]

(* A process ends; what it held is gone.                                   *)
Exit(p, how) ==
  /\ Goto(p, "done")
  /\ code' = [code EXCEPT ![p] = how]
  /\ level' = [level EXCEPT ![p] = "user"]
  /\ needs' = [needs EXCEPT ![p] = {}]
  /\ UNCHANGED purpose

Fails(p, fault) == fault \in Faults /\ Exit(p, "failed") /\ UNCHANGED <<drivers, ran, alone>>

Start(c) ==
  /\ pc[<<c, 0>>] = "none"
  /\ Goto(<<c, 0>>, "parse")
  /\ \E u \in Purpose : purpose' = [purpose EXCEPT ![c] = u]
  /\ \E l \in Level : level' = [level EXCEPT ![<<c, 0>>] = l]
  /\ UNCHANGED <<drivers, needs, code, ran, alone>>

(* The arguments of a process that was started again are joined with       *)
(* blanks, so that it refuses those that have blanks themselves; the       *)
(* second one refuses the added argument, which it has twice.              *)
(* Mutant: the second one takes the last of the two.                       *)
Accepted_last(p) == {b \in BOOLEAN : ~b => Depth(p) > 0}

Accepted(p) == {b \in BOOLEAN : (b => Depth(p) < 2) /\ (~b => Depth(p) > 0)}

NeedsToElevate(p) == level[p] \in {"user", "admin"}

(* With what it knows to be missing the process goes on at once.           *)
Decide(p) ==
  Goto(p, IF needs'[p] = {} THEN "command"
          ELSE IF NeedsToElevate(p) THEN "elevate"
          ELSE IF Depth(p) > 0 THEN "attach" ELSE "install")

(* CliArguments::parse, and install-drivers --force.                       *)
Parse(p) ==
  /\ pc[p] = "parse"
  /\ \/ FALSE \in Accepted(p) /\ Exit(p, "failed")
     \/ /\ TRUE \in Accepted(p)
        /\ IF purpose[Call(p)] = "force"
           THEN needs' = [needs EXCEPT ![p] = Driver] /\ Decide(p)
           ELSE UNCHANGED needs /\ Goto(p, "app")
        /\ UNCHANGED <<purpose, level, code>>
  /\ UNCHANGED <<drivers, ran, alone>>

(* Mutant: what cannot be read is taken for there.                         *)
Missing_errorIsBound(p, d) ==
  \/ /\ needs' = [needs EXCEPT ![p] = IF d \in drivers THEN @ ELSE @ \cup {d}]
     /\ UNCHANGED alone
  \/ "registry" \in Faults /\ UNCHANGED <<needs, alone>>

(* hwid_bound_to_driver: what it cannot read is taken for missing.         *)
Missing(p, d) ==
  \/ /\ needs' = [needs EXCEPT ![p] = IF d \in drivers THEN @ ELSE @ \cup {d}]
     /\ UNCHANGED alone
  \/ /\ "registry" \in Faults
     /\ needs' = [needs EXCEPT ![p] = @ \cup {d}]
     /\ alone' = [alone EXCEPT ![Call(p)] = FALSE]

CheckApp(p) ==
  /\ pc[p] = "app"
  /\ Missing(p, "app")
  /\ Goto(p, "dfu")
  /\ UNCHANGED <<drivers, purpose, level, code, ran>>

CheckDfu(p) ==
  /\ pc[p] = "dfu"
  /\ Missing(p, "dfu")
  /\ Decide(p)
  /\ UNCHANGED <<drivers, purpose, level, code, ran>>

(* restore_cstdio; its errors panic.                                       *)
Attach(p) ==
  /\ pc[p] = "attach"
  /\ \/ /\ Goto(p, "install")
        /\ UNCHANGED <<drivers, purpose, level, needs, code, ran, alone>>
     \/ Fails(p, "console")

(* Another call that is under way hears of what this one installs.         *)
Disturb(p) ==
  alone' = [c \in Calls |-> alone[c] /\ (c = Call(p) \/ pc[<<c, 0>>] \in {"none", "done"})]

(* admin_install_drivers, one device; an error panics, and may come after  *)
(* the device was bound.                                                   *)
Install(p) ==
  /\ pc[p] = "install"
  /\ needs[p] # {}
  /\ LET d == IF "app" \in needs[p] THEN "app" ELSE "dfu" IN
     \/ /\ drivers' = drivers \cup {d}
        /\ needs' = [needs EXCEPT ![p] = @ \ {d}]
        /\ Disturb(p)
        /\ UNCHANGED <<purpose, pc, level, code, ran>>
     \/ /\ "install" \in Faults
        /\ drivers' \in {drivers, drivers \cup {d}}
        /\ Exit(p, "failed")
        /\ Disturb(p)
        /\ UNCHANGED ran

(* Mutant: the process goes on to the command.                             *)
Installed_goesOn(p) ==
  /\ pc[p] = "install"
  /\ needs[p] = {}
  /\ Goto(p, "command")
  /\ UNCHANGED <<drivers, purpose, level, needs, code, ran, alone>>

(* It exits when it has installed them, whatever it was called for.        *)
Installed(p) ==
  /\ pc[p] = "install"
  /\ needs[p] = {}
  /\ Exit(p, "ok")
  /\ UNCHANGED <<drivers, ran, alone>>

(* A process starts as administrator.  One that has been an administrator  *)
(* without being elevated may become what it was.  (The depth is that of   *)
(* Proc: a third process has refused its arguments.)                       *)
Elevate(p) ==
  /\ pc[p] = "elevate"
  /\ Depth(p) < 2
  /\ \/ /\ pc' = [pc EXCEPT ![p] = "wait", ![Child(p)] = "parse"]
        /\ \E l \in {"elevated"} \cup (IF level[p] = "admin" THEN {"admin"} ELSE {}) :
             level' = [level EXCEPT ![Child(p)] = l]
        /\ UNCHANGED <<drivers, purpose, needs, code, ran, alone>>
     \/ Fails(p, "refuse")

(* Mutant: only the end of a process that succeeded is seen.               *)
Collect_okOnly(p) ==
  /\ pc[p] = "wait"
  /\ code[Child(p)] = "ok"
  /\ Goto(p, "command")
  /\ UNCHANGED <<drivers, purpose, level, needs, code, ran, alone>>

Collect(p) ==
  /\ pc[p] = "wait"
  /\ pc[Child(p)] = "done"
  /\ \/ code[Child(p)] = "failed" /\ Exit(p, "failed")
     \/ /\ code[Child(p)] = "ok"
        /\ Goto(p, "command")
        /\ needs' = [needs EXCEPT ![p] = {}]
        /\ UNCHANGED <<purpose, level, code>>
  /\ UNCHANGED <<drivers, ran, alone>>

(* The rest of main; of install-drivers nothing is left.                   *)
RunCommand(p) ==
  /\ pc[p] = "command"
  /\ IF purpose[Call(p)] = "command"
     THEN /\ ran' = [ran EXCEPT ![Call(p)] = @ + 1]
          /\ Exit(p, "ok") \/ ("command" \in Faults /\ Exit(p, "failed"))
     ELSE Exit(p, "ok") /\ UNCHANGED ran
  /\ UNCHANGED <<drivers, alone>>

(* So does a call of the system that panics when it fails, such as the     *)
(* wait: the other process goes on.                                        *)
Kill(p) ==
  /\ pc[p] \notin {"none", "done"}
  /\ Fails(p, "kill")

Step(p) ==
  \/ Parse(p) \/ CheckApp(p) \/ CheckDfu(p) \/ Attach(p) \/ Install(p)
  \/ Installed(p) \/ Elevate(p) \/ Collect(p) \/ RunCommand(p)

Next ==
  \/ \E c \in Calls : Start(c)
  \/ \E p \in Proc : Step(p) \/ Kill(p)

Spec == Init /\ [][Next]_vars

(* Questions are answered, and installations and commands end.             *)
FairSpec == Spec /\ \A p \in Proc : WF_vars(Step(p))

-----------------------------------------------------------------------------
(* No process comes to its command, and none exits with success, before    *)
(* both nodes are bound, whoever installed what and wherever it failed     *)
(* (windows.rs:362-533).                                                   *)
RunsWithAccess ==
  \A p \in Proc : (pc[p] = "command" \/ code[p] = "ok") => drivers = Driver

(* A call does what it is for once, or not at all, if no read of it failed *)
(* and no other call installed a driver while it ran: the process that     *)
(* installs does nothing else (windows.rs:453-454, 515-524).               *)
RunsOnce == \A c \in Calls : alone[c] => ran[c] <= 1

(* Every call ends (windows.rs:502-524).                                   *)
EveryCallEnds == \A c \in Calls : (pc[<<c, 0>>] # "none") ~> (pc[<<c, 0>>] = "done")
=============================================================================
