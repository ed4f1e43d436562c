---------------------------- MODULE GatewayConfig ----------------------------
(***************************************************************************)
(* The configuration of the model gateway (model_gateway/main.py,          *)
(* src/state.py): a file and its copy in memory with the router built from *)
(* it.  Activation and rollback run one at a time, under a lock; each      *)
(* builds a router, replaces the file and then stores what it wrote in     *)
(* memory, one attribute after another.  A restart reads the file.         *)
(* An activation or a rollback is a call [action, release].                *)
(***************************************************************************)
CONSTANTS Releases, None

ASSUME NoneAssumption == None \notin Releases

VARIABLES
  disk,    \* active.json; before the first activation both fields are None
  memory,  \* GatewayState's active, previous and router, or Down
  op       \* the call that holds the lock, and how far it has come

gateway == <<disk, memory, op>>

Down == [active |-> None, previous |-> None, router |-> None, up |-> FALSE]
NoOp == [stage |-> "none"]

Calls == [action : {"activate", "rollback"}, release : Releases]
Blank == [active |-> None, previous |-> None]

GatewayInit ==
  /\ disk = Blank
  /\ memory = [Down EXCEPT !.up = TRUE]
  /\ op = NoOp

----------------------------------------------------------------------------
(* A rollback names the release it undoes, and there must be one before it. *)
Admitted(c) ==
  IF c.action = "activate" THEN c.release # memory.active
  ELSE c.release = memory.active /\ memory.previous # None

(* The active release is activated again: the answer is its status. *)
Unneeded(c) == c.action = "activate" /\ c.release = memory.active

(* A bug: the release to return to stays the one it was. *)
TargetKeeping(c) ==
  IF c.action = "activate" THEN [active |-> c.release, previous |-> memory.previous]
  ELSE [active |-> memory.previous, previous |-> None]

(* What persist() writes for a call. *)
Target(c) ==
  IF c.action = "activate" THEN [active |-> c.release, previous |-> memory.active]
  ELSE [active |-> memory.previous, previous |-> None]

Accept(c) ==
  /\ memory.up /\ op = NoOp /\ Admitted(c)
  /\ op' = [stage |-> "building", call |-> c]
  /\ UNCHANGED <<disk, memory>>

(* os.replace(): the file is the old one or the new one, never half of it. *)
Persist ==
  /\ op.stage = "building"
  /\ disk' = Target(op.call)
  /\ op' = [op EXCEPT !.stage = "written"]
  /\ UNCHANGED memory

Stored == [memory EXCEPT !.active = Target(op.call).active, !.previous = Target(op.call).previous]

StoreRelease ==
  /\ op.stage = "written"
  /\ memory' = Stored
  /\ op' = [op EXCEPT !.stage = "storing"]
  /\ UNCHANGED disk

StoreRouter ==
  /\ op.stage = "storing"
  /\ memory' = [memory EXCEPT !.router = memory.active]
  /\ op' = NoOp
  /\ UNCHANGED disk

(* The router cannot be built, or the file cannot be written. *)
Abandon == op.stage = "building" /\ op' = NoOp /\ UNCHANGED <<disk, memory>>

GatewayCrash == memory.up /\ memory' = Down /\ op' = NoOp /\ UNCHANGED disk

(* A bug: the restart reads the active release only. *)
LoadedActive == [active |-> disk.active, previous |-> None, router |-> disk.active, up |-> TRUE]

Loaded == [active |-> disk.active, previous |-> disk.previous, router |-> disk.active, up |-> TRUE]

GatewayStart == ~memory.up /\ memory' = Loaded /\ UNCHANGED <<disk, op>>

GatewayNext ==
  \/ \E c \in Calls : Accept(c)
  \/ Persist \/ StoreRelease \/ StoreRouter \/ Abandon
  \/ GatewayCrash \/ GatewayStart

GatewaySpec == GatewayInit /\ [][GatewayNext]_gateway

(* status(): a configuration is served, and it is this one. *)
Serves(r) == memory.up /\ memory.router # None /\ memory.active = r

----------------------------------------------------------------------------
(* What status() answers; while the gateway is down, what it will answer. *)
Served ==
  IF memory.up THEN [active |-> memory.active, previous |-> memory.previous] ELSE disk

Register ==
  INSTANCE AtomicRegister WITH value <- Served.active, previous <- Served.previous

(* The two attributes, the file and every crash between their writes look  *)
(* like one register: the release and its predecessor change together, and *)
(* a crash does one whole change or none (state.py, persist, activate and  *)
(* rollback).                                                              *)
Atomic == Register!Spec
=============================================================================
