----------------------------- MODULE Capability -----------------------------
(***************************************************************************)
(* The capability tables (kernel/src/capability.rs) and the system call     *)
(* that transfers authority, SYS_CAP_GRANT (kernel/src/syscall.rs).         *)
(*                                                                          *)
(* Every access to the tables is one with_tables section, taken with        *)
(* interrupts off, and the only caller of grant() is a system call, which   *)
(* runs with interrupts off as a whole: each operation is one action.       *)
(* A table is named by a task id and outlives its task; ids are not reused. *)
(***************************************************************************)
EXTENDS Naturals, Sequences, FiniteSets, FiniteSetsExt

CONSTANTS
    Holders,    \* the task ids that can occur, of tasks that do not exist too
    Objects,    \* kernel objects: endpoints, IRQ lines, ports, MMIO, roles
    RootGrants, \* what kernel code mints: records [task, object, rights]
    Requests,   \* the right sets programs ask for in SYS_CAP_GRANT
    MaxSlots    \* bound: the number of slots of a table

\* The five bits of Rights; a right set is a set of them.
AllRights == {"SEND", "RECV", "READ", "WRITE", "GRANT"}

\* The rights argument of SYS_CAP_GRANT is any u32: "bit5" stands for the bits
\* that are no right.
RequestBits == AllRights \cup {"bit5"}

Capabilities == [object : Objects, rights : SUBSET AllRights]

\* What an empty slot holds.
NoCap == [object |-> "none"]

SlotValues == Capabilities \cup {NoCap}

ASSUME CapabilityAssumption ==
    /\ RootGrants \subseteq [task : Holders, object : Objects, rights : SUBSET AllRights]
    /\ Requests \subseteq SUBSET RequestBits
    /\ MaxSlots \in Nat
    /\ "none" \notin Objects

VARIABLES
    slots,  \* CapTable.slots of every task; a task without a table has none
    minted  \* history: the root capabilities minted so far

capVars == <<slots, minted>>

CapInit ==
    /\ slots = [t \in Holders |-> <<>>]
    /\ minted = {}

\* lookup: the capability in a slot, as a set.
Lookup(t, k) == IF k \in DOMAIN slots[t] THEN {slots[t][k]} \ {NoCap} ELSE {}

\* check: slot k of t holds a capability with the rights needed.
Check(t, k, needed) == \E cap \in Lookup(t, k) : needed \subseteq cap.rights

\* find_object, check_role: some slot of t has a capability to o with them.
Holds(t, o, needed) ==
    \E k \in DOMAIN slots[t] : Check(t, k, needed) /\ slots[t][k].object = o

\* A faulty variant of Insert: the last slot is taken, free or not.
InsertLast(table, cap) ==
    IF table = <<>> THEN <<cap>> ELSE [table EXCEPT ![Len(table)] = cap]

\* CapTable::insert: the first free slot, or a new one.
Insert(table, cap) ==
    LET free == {k \in DOMAIN table : table[k] = NoCap} IN
    IF free = {} THEN Append(table, cap) ELSE [table EXCEPT ![Min(free)] = cap]

\* A faulty variant of Derive: the requested rights are passed on unclamped.
DeriveUnclamped(cap, asked) == [object |-> cap.object, rights |-> asked]

\* The capability a grant creates: its rights are clamped to those of the source (Rights::intersect).
Derive(cap, asked) == [object |-> cap.object, rights |-> cap.rights \cap asked]

-----------------------------------------------------------------------------
\* mint: kernel code creates a root capability.
Mint(root) ==
    /\ slots' = [slots EXCEPT ![root.task] =
                   Insert(@, [object |-> root.object, rights |-> root.rights])]
    /\ Len(slots'[root.task]) <= MaxSlots
    /\ minted' = minted \cup {root}

\* A faulty variant of SysCapGrant: no GRANT right is asked for.
SysCapGrantUnchecked(t, k, to, asked) ==
    /\ Lookup(t, k) # {}
    /\ slots' = [slots EXCEPT ![to] = Insert(@, Derive(slots[t][k], asked))]
    /\ Len(slots'[to]) <= MaxSlots
    /\ UNCHANGED minted

\* SYS_CAP_GRANT: task t copies the capability in its slot k to another task,
\* which need not exist, if the capability carries GRANT.
SysCapGrant(t, k, to, asked) ==
    /\ Check(t, k, {"GRANT"})
    /\ slots' = [slots EXCEPT ![to] = Insert(@, Derive(slots[t][k], asked))]
    /\ Len(slots'[to]) <= MaxSlots
    /\ UNCHANGED minted

\* revoke: the local reference in a slot is removed.
Revoke(t, k) ==
    /\ Lookup(t, k) # {}
    /\ slots' = [slots EXCEPT ![t][k] = NoCap]
    /\ UNCHANGED minted

CapNext ==
    \/ \E root \in RootGrants : Mint(root)
    \/ \E t, to \in Holders, k \in 1..MaxSlots, asked \in Requests :
          SysCapGrant(t, k, to, asked)
    \/ \E t \in Holders, k \in 1..MaxSlots : Revoke(t, k)

CapSpec == CapInit /\ [][CapNext]_capVars

-----------------------------------------------------------------------------
(* Properties *)

\* The type of the tables and of the history.
CapTypeOK ==
    /\ slots \in [Holders -> Seq(SlotValues)]
    /\ minted \subseteq RootGrants

\* Rights never grow along a chain of grants, and an object stays where it was
\* minted unless the root itself carries GRANT: every capability anywhere is
\* covered by one root capability of its object.
RightsMonotonic ==
    \A t \in Holders : \A k \in DOMAIN slots[t] :
        slots[t][k] # NoCap =>
            \E root \in minted :
                /\ root.object = slots[t][k].object
                /\ slots[t][k].rights \subseteq root.rights
                /\ root.task = t \/ "GRANT" \in root.rights

\* A slot number a program holds keeps its meaning: minting and granting never
\* disturb an occupied slot, and no slot ever disappears.
SlotStableStep ==
    \A t \in Holders : \A k \in DOMAIN slots[t] :
        /\ k \in DOMAIN slots'[t]
        /\ slots[t][k] # NoCap => slots'[t][k] \in {slots[t][k], NoCap}

SlotStable == [][SlotStableStep]_capVars
=============================================================================
