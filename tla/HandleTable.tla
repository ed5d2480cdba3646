----------------------------- MODULE HandleTable -----------------------------
(***************************************************************************)
(* The handle tables of the guest's processes (handle_table.cpp), the      *)
(* system calls that create, duplicate and close handles, and the          *)
(* translation of the handles in an IPC command buffer, by the kernel      *)
(* (ipc.cpp) and for an HLE service (hle_ipc.cpp).                         *)
(*                                                                         *)
(* A handle is 32 bits: bit 31, bits 30..15 and bits 14..0.  GetSlot       *)
(* shifts by 15 and keeps 16 bits, so that bit 31 is dropped.              *)
(***************************************************************************)
EXTENDS Integers, Sequences, FiniteSets

CONSTANTS
  Procs,        \* processes
  Objects,      \* kernel objects
  NoObj,        \* nullptr
  ThreadOf,     \* the thread of a process that makes its calls
  ProcessOf,    \* the object of the process itself
  MaxCount,     \* slots of a table: 4096 in the code
  SlotLimit,    \* 2^16
  GenLimit,     \* 2^15
  MaxCreates,   \* bound: handles created in a table
  MaxHandles    \* handles in one descriptor: 64 in the code

Slots == 0 .. MaxCount - 1
Generations == 1 .. GenLimit - 1
Handles == [hi : 0 .. 1, slot : 0 .. SlotLimit - 1, gen : 0 .. GenLimit - 1]

CurrentThread == [hi |-> 1, slot |-> SlotLimit - 1, gen |-> 0]
CurrentProcess == [hi |-> 1, slot |-> SlotLimit - 1, gen |-> 1]
NullHandle == [hi |-> 0, slot |-> 0, gen |-> 0]

(* The constants of the code satisfy this: the pseudo handles are outside  *)
(* the table, and a slot index fits its 16 bits.                           *)
ASSUME HandleAssumption ==
  /\ MaxCount \in Nat \ {0} /\ SlotLimit \in Nat /\ MaxCount < SlotLimit
  /\ GenLimit \in Nat /\ GenLimit > 1
  /\ MaxCreates \in Nat /\ MaxHandles \in Nat
  /\ NoObj \notin Objects
  /\ ThreadOf \in [Procs -> Objects] /\ ProcessOf \in [Procs -> Objects]

VARIABLES
  table,    \* the table of each process, with its history
  alive,    \* the processes that exist
  cmd,      \* the command buffer that is being translated
  ctx,      \* the request of a process that an HLE service is working on
  crashed   \* an assertion failed

vars == <<table, alive, cmd, ctx, crashed>>

-----------------------------------------------------------------------------
(* One table.  The fields made, issued and free are history: the number of *)
(* handles created, all of them with their objects, and the free slots in  *)
(* the order in which they will be used.                                   *)

GetSlot(h) == h.slot
GetGeneration(h) == h.gen

(* The constructor, and Clear. *)
EmptyTable ==
  [objects |-> [s \in Slots |-> NoObj],
   generations |-> [s \in Slots |-> s + 1],
   next_generation |-> 1,
   next_free_slot |-> 0,
   made |-> 0,
   issued |-> {},
   free |-> [i \in 1 .. MaxCount |-> i - 1]]

IsFull(tb) == tb.next_free_slot >= MaxCount

(* Mutant: the counter wraps one early. *)
GenerationCycleShort(g) == IF g + 1 >= GenLimit - 1 THEN 1 ELSE g + 1

NextGeneration(g) == IF g + 1 >= GenLimit THEN 1 ELSE g + 1

(* HandleTable::Create; the caller sees the handle <<slot, generation>>. *)
Insert(tb, o) ==
  LET slot == tb.next_free_slot
  IN  [objects |-> [tb.objects EXCEPT ![slot] = o],
       generations |-> [tb.generations EXCEPT ![slot] = tb.next_generation],
       next_generation |-> NextGeneration(tb.next_generation),
       next_free_slot |-> tb.generations[slot],
       made |-> tb.made + 1,
       issued |-> tb.issued \cup {[slot |-> slot, gen |-> tb.next_generation,
                                   obj |-> o, at |-> tb.made]},
       free |-> Tail(tb.free)]

IsValid(tb, h) ==
  /\ GetSlot(h) < MaxCount
  /\ tb.objects[GetSlot(h)] # NoObj
  /\ tb.generations[GetSlot(h)] = GetGeneration(h)

(* Mutant: the slot is not linked into the free list. *)
RemoveUnlinked(tb, h) ==
  [tb EXCEPT !.objects = [@ EXCEPT ![GetSlot(h)] = NoObj],
             !.next_free_slot = GetSlot(h),
             !.free = <<GetSlot(h)>> \o @]

(* HandleTable::Close of a valid handle. *)
Remove(tb, h) ==
  LET slot == GetSlot(h)
  IN  [tb EXCEPT !.objects = [@ EXCEPT ![slot] = NoObj],
                 !.generations = [@ EXCEPT ![slot] = tb.next_free_slot],
                 !.next_free_slot = slot,
                 !.free = <<slot>> \o @]

Close(tb, h) == IF IsValid(tb, h) THEN Remove(tb, h) ELSE tb

(* What a handle of process p refers to. *)
GetGeneric(p, h) ==
  IF h = CurrentThread THEN ThreadOf[p]
  ELSE IF h = CurrentProcess THEN ProcessOf[p]
  ELSE IF IsValid(table[p], h) THEN table[p].objects[GetSlot(h)]
  ELSE NoObj

-----------------------------------------------------------------------------
NoCmd == [kind |-> "none"]
NoCtx == [client |-> {}, objs |-> {}]

Init ==
  /\ table = [p \in Procs |-> EmptyTable]
  /\ alive = Procs
  /\ cmd = NoCmd
  /\ ctx = NoCtx
  /\ crashed = FALSE

(* A call of a guest thread: the kernel is sequential, so no translation   *)
(* is under way.                                                           *)
Calls(p) == ~crashed /\ cmd = NoCmd /\ p \in alive
MayCreate(p, n) == table[p].made + n <= MaxCreates

(* The calls that make one object and a handle to it (CreateMutex,         *)
(* CreateThread, OpenProcess, ConnectToPort, ...): when the table is full  *)
(* they return OutOfHandles and the object is dropped.                     *)
Create(p, o) ==
  /\ Calls(p) /\ MayCreate(p, 1)
  /\ table' = [table EXCEPT ![p] = IF IsFull(@) THEN @ ELSE Insert(@, o)]
  /\ UNCHANGED <<alive, cmd, ctx, crashed>>

(* CreatePort and CreateSession: two objects, and the handle to the first  *)
(* stays when the second one does not fit.                                 *)
CreatePair(p, o1, o2) ==
  /\ Calls(p) /\ MayCreate(p, 2)
  /\ LET First(tb) == IF IsFull(tb) THEN tb ELSE Insert(tb, o1)
         Second(tb) == IF IsFull(tb) THEN tb ELSE Insert(tb, o2)
     IN  table' = [table EXCEPT ![p] = IF IsFull(@) THEN @ ELSE Second(First(@))]
  /\ UNCHANGED <<alive, cmd, ctx, crashed>>

DuplicateHandle(p, h) ==
  /\ Calls(p) /\ MayCreate(p, 1)
  /\ GetGeneric(p, h) # NoObj
  /\ table' = [table EXCEPT ![p] = IF IsFull(@) THEN @ ELSE Insert(@, GetGeneric(p, h))]
  /\ UNCHANGED <<alive, cmd, ctx, crashed>>

CloseHandle(p, h) ==
  /\ Calls(p)
  /\ IsValid(table[p], h)
  /\ table' = [table EXCEPT ![p] = Close(@, h)]
  /\ UNCHANGED <<alive, cmd, ctx, crashed>>

(* ~Process: the table is cleared, its generations go on. *)
ClearTable(tb) == [EmptyTable EXCEPT !.next_generation = tb.next_generation,
                                     !.made = tb.made, !.issued = tb.issued]

DestroyProcess(p) ==
  /\ Calls(p) /\ ctx.client # {p}
  /\ alive' = alive \ {p}
  /\ table' = [table EXCEPT ![p] = ClearTable(@)]
  /\ UNCHANGED <<cmd, ctx, crashed>>

-----------------------------------------------------------------------------
(* The translation of one descriptor with n handles.  Its loop is one step *)
(* per handle; nothing else happens meanwhile.                             *)

(* The whole descriptor word is compared with MoveHandle, so that a number *)
(* of handles in its upper bits makes the comparison fail.                 *)
ClosesSource(c) == c.kind = "move" /\ c.n = 1

TranslateCommandBuffer(p, q, kind, n) ==
  /\ Calls(p) /\ q \in alive
  /\ MayCreate(q, n)
  /\ cmd' = [kind |-> kind, n |-> n, left |-> n, src |-> p, dst |-> q, hle |-> FALSE]
  /\ UNCHANGED <<table, alive, ctx, crashed>>

(* Mutant: the handle is looked up after it was closed. *)
SentAfterClose(h) ==
  IF ClosesSource(cmd) \/ h = NullHandle THEN NoObj ELSE GetGeneric(cmd.src, h)

(* What the handle names: the pseudo handles stand for the sender. *)
Sent(h) == IF h = NullHandle THEN NoObj ELSE GetGeneric(cmd.src, h)

SourceClosed(h) ==
  IF ClosesSource(cmd) /\ h # NullHandle
    THEN [table EXCEPT ![cmd.src] = Close(@, h)] ELSE table

Advance == cmd' = IF cmd.left = 1 THEN NoCmd ELSE [cmd EXCEPT !.left = @ - 1]

(* The body of the loop of TranslateCommandBuffer: R_ASSERT of Create. *)
TranslateHandle(h) ==
  /\ ~crashed /\ cmd # NoCmd /\ ~cmd.hle /\ cmd.kind # "reply"
  /\ LET o == Sent(h)
         tb == SourceClosed(h)
         full == o # NoObj /\ IsFull(tb[cmd.dst])
     IN  /\ crashed' = full
         /\ table' = IF o = NoObj \/ full THEN tb
                     ELSE [tb EXCEPT ![cmd.dst] = Insert(@, o)]
  /\ Advance
  /\ UNCHANGED <<alive, ctx>>

(* A request to an HLE service, one at a time. *)
PopulateFromIncomingCommandBuffer(p, kind, n) ==
  /\ Calls(p) /\ ctx = NoCtx
  /\ cmd' = [kind |-> kind, n |-> n, left |-> n, src |-> p, dst |-> p, hle |-> TRUE]
  /\ ctx' = [client |-> {p}, objs |-> {}]
  /\ UNCHANGED <<table, alive, crashed>>

(* The body of its loop: an invalid handle fails an assertion, the others  *)
(* become objects of the request (AddOutgoingHandle).                      *)
PopulateHandle(h) ==
  /\ ~crashed /\ cmd # NoCmd /\ cmd.hle /\ cmd.kind # "reply"
  /\ LET o == Sent(h)
         bad == h # NullHandle /\ o = NoObj
     IN  /\ crashed' = bad
         /\ table' = IF bad THEN table ELSE SourceClosed(h)
         /\ ctx' = IF bad THEN ctx ELSE [ctx EXCEPT !.objs = @ \cup ({o} \ {NoObj})]
  /\ Advance
  /\ UNCHANGED alive

WriteToOutgoingCommandBuffer(n) ==
  /\ ~crashed /\ cmd = NoCmd /\ ctx # NoCtx
  /\ \E p \in ctx.client :
       /\ MayCreate(p, n)
       /\ cmd' = [kind |-> "reply", n |-> n, left |-> n, src |-> p, dst |-> p, hle |-> TRUE]
  /\ UNCHANGED <<table, alive, ctx, crashed>>

(* The body of its loop: the service answers with objects of the request   *)
(* or with others; after the last one the request is dropped.              *)
ReplyObject(o) ==
  /\ ~crashed /\ cmd # NoCmd /\ cmd.kind = "reply"
  /\ crashed' = (o # NoObj /\ IsFull(table[cmd.dst]))
  /\ table' = IF o = NoObj \/ IsFull(table[cmd.dst]) THEN table
              ELSE [table EXCEPT ![cmd.dst] = Insert(@, o)]
  /\ Advance
  /\ ctx' = IF cmd.left = 1 THEN NoCtx ELSE ctx
  /\ UNCHANGED alive

-----------------------------------------------------------------------------
SystemCall ==
  \E p \in Procs :
    \/ \E o \in Objects : Create(p, o)
    \/ \E o1, o2 \in Objects : CreatePair(p, o1, o2)
    \/ \E h \in Handles : DuplicateHandle(p, h) \/ CloseHandle(p, h)
    \/ DestroyProcess(p)

Translation ==
  \/ \E p, q \in Procs, kind \in {"copy", "move"}, n \in 1 .. MaxHandles :
       TranslateCommandBuffer(p, q, kind, n)
  \/ \E p \in Procs, kind \in {"copy", "move"}, n \in 1 .. MaxHandles :
       PopulateFromIncomingCommandBuffer(p, kind, n)
  \/ \E n \in 1 .. MaxHandles : WriteToOutgoingCommandBuffer(n)
  \/ \E h \in Handles : TranslateHandle(h) \/ PopulateHandle(h)
  \/ \E o \in Objects \cup {NoObj} : ReplyObject(o)

Next == SystemCall \/ Translation

Spec == Init /\ [][Next]_vars

-----------------------------------------------------------------------------
Issues == [slot : Slots, gen : Generations, obj : Objects, at : Nat]

Tables ==
  [objects : [Slots -> Objects \cup {NoObj}],
   generations : [Slots -> Nat],
   next_generation : Generations,
   next_free_slot : 0 .. MaxCount,
   made : Nat,
   issued : SUBSET Issues,
   free : Seq(Slots)]

Commands ==
  [kind : {"copy", "move", "reply"}, n : 1 .. MaxHandles, left : 1 .. MaxHandles,
   src : Procs, dst : Procs, hle : BOOLEAN]

(* Types; the generation of the next handle is 1 .. 2^15 - 1. *)
TypeOK ==
  /\ table \in [Procs -> Tables]
  /\ alive \subseteq Procs
  /\ cmd = NoCmd \/ cmd \in Commands
  /\ ctx \in [client : SUBSET Procs, objs : SUBSET Objects]
  /\ crashed \in BOOLEAN

(* handle_table.h re-purposes the generations of empty slots "as a linked  *)
(* list of indices to free slots".  Followed from next_free_slot it visits *)
(* exactly the empty slots, each once, and ends outside the table:         *)
(* OutOfHandles is returned when every slot is in use and only then.       *)
FreeListOf(tb) ==
  LET n == Len(tb.free)
  IN  /\ tb.next_free_slot = IF n = 0 THEN MaxCount ELSE tb.free[1]
      /\ \A i \in 1 .. n :
           tb.generations[tb.free[i]] = IF i = n THEN MaxCount ELSE tb.free[i + 1]
      /\ \A i, j \in 1 .. n : tb.free[i] = tb.free[j] => i = j
      /\ \A s \in Slots : tb.objects[s] = NoObj <=> \E i \in 1 .. n : tb.free[i] = s

FreeListExact == \A p \in Procs : FreeListOf(table[p])

(* The purpose of the generations, "to prevent accidental use of a freed   *)
(* Handle whose slot has already been reused": a handle that is younger    *)
(* than a whole cycle of generations resolves to the object it was made    *)
(* for or to nothing.                                                      *)
StaleHandle(tb, r) ==
  LET h == [hi |-> 0, slot |-> r.slot, gen |-> r.gen]
  IN  (IsValid(tb, h) /\ tb.made - r.at < GenLimit) => tb.objects[r.slot] = r.obj

StaleHandleSafe == \A p \in Procs : \A r \in table[p].issued : StaleHandle(table[p], r)

(* Every occupied slot is named by the handle that was issued for it, so   *)
(* that an open handle always resolves to its object and can be closed.    *)
OpenNamed(tb) ==
  \A s \in Slots :
    tb.objects[s] # NoObj =>
      \E r \in tb.issued : r.slot = s /\ r.gen = tb.generations[s] /\ r.obj = tb.objects[s]

OpenHandlesNamed == \A p \in Procs : OpenNamed(table[p])

(* A handle resolves to the object it was made for, and to no other: while  *)
(* it is open it finds the object, afterwards nothing, although the slot    *)
(* may be in use again, until a whole cycle of generations has passed.      *)
HandlesResolve == StaleHandleSafe /\ OpenHandlesNamed

Held == {o \in Objects : \/ o \in ctx.objs
                         \/ \E p \in Procs, s \in Slots : table[p].objects[s] = o}

(* Handing handles over never drops the last reference to an object: a     *)
(* moved handle is closed only after the object was taken from it.         *)
NothingLostInTransit ==
  [][(cmd # NoCmd /\ cmd.kind # "reply" /\ ~crashed') => Held \subseteq Held']_vars
=============================================================================
