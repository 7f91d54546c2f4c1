# vmkit in TLA+

Models of vmkit, checked by TLC on small instances and, where the prover
reaches, proved with TLAPS for every value of the constants. They cover the
threading core (monitors, the stop-the-world handshake, the registry of
threads), allocation buffers, weak references, and the code that the RISC-V and
ARM64 macro assemblers generate and link.

Paths are relative to `src/crates/vmkit/src` unless they start with `src/`;
those of the assemblers to `src/crates/macroassembler/src/assembler`.

## 1. The system

vmkit is a toolkit for managed runtimes on top of MMTk. A runtime implements
`Runtime` and `Thread`; vmkit supplies thread states, yieldpoints, the
stop-the-world handshake, allocation buffers, an object header, weak callbacks
and shadow stacks. Beside it live stack-switching libraries, a macro assembler
ported from JavaScriptCore, and the beginnings of an intermediate
representation.

| component | state it keeps | operations | what makes it correct |
|---|---|---|---|
| Monitor (`sync.rs`) | raw mutex, condition variable, `holder`, `rec_count` | lock, guard drop, wait, `unlock_completely`, `leak`, `notify_*`, with and without handshake | mutual exclusion; the count is the holder's nesting; waiting restores it |
| thread states and handshake (`runtime/threads.rs`) | per thread: state byte, `take_yieldpoint`, deferral, block request and acknowledgement, termination; global: `handshake_threads` | `yieldpoint`, `enable/disable_yieldpoints`, `enter_parked`, `leave_parked`, `block`, `unblock`, `terminate_thread`, `block_all_mutators_for_gc`, `unblock_all_mutators_for_gc` | a stopped world is stopped and stays so; no request is lost; everybody resumes |
| collection interface (`mm/collection.rs`, `mm/active_plan.rs`) | none | `block_for_gc`, `stop_all_mutators`, `resume_mutators`, `mutators` | it drives the handshake; the mutators it iterates over are alive |
| thread registry and start (`runtime/threads.rs`) | `threads`, index of each thread, `MAIN_THREAD`, `cv_join` | `start`, `add_thread`, `add_main_thread`, `remove_current_thread`, `join_all` | indices match the vector; the joiner wakes; a new thread joins a collection in progress |
| Barrier (`runtime/threads.rs:743-831`) | `armed`, `stopped` | `arm`, `notify_park`, `wait_in_safepoint`, `wait_in_unpark`, `disarm` | the count is the number of stopped threads |
| TLAB and allocation (`mm/tlab.rs`, `mm.rs`) | cursor and limit, MMTk's own copy | `allocate`, `allocate_slow`, `flush_cursors`, `bump_cursors` | memory is handed out once; the free range has one owner |
| object model (`objectmodel.rs`, `objectmodel/header.rs`) | header word: vtable, hash state, mark bits | `hashcode`, size queries, `copy`, `copy_to` | the hash is stable over moves; sizes agree with layout |
| scanning, members, weak callbacks (`mm/scanning.rs`, `objectmodel/reference.rs`) | a queue of callbacks | `visit_slot`, `visit_member`, `process_weak_refs` | callbacks run in their collection, weak members end forwarded or cleared |
| shadow stack (`mm/shadow_stack.rs`) | base and top | `enter_roots_frame`, `save_root`, drop | frames nest within the memory |
| coroutines and fibers (`src/crates/swapstack`, `src/crates/context`) | stacks, ownership, pending callback | `new`, `resume`, `resume_with`, drop | a stack runs at most once at a time and is freed once |
| macro assemblers (`macro_assembler_*.rs`, `*assembler.rs`) | a buffer of code; on ARM64, constants known to be in two temporaries | some 200 operations, each in several operand forms | the code of an operation does what the operation means, whatever the registers and the temporaries hold |
| link buffer (`link_buffer.rs`, `abstract_macro_assembler.rs`) | jumps to link, the copied code | `link`, `link_to`, `copy_and_compact_link_code`, `link_code`, patching | jumps reach their labels, code survives the copy |
| utils, flags, mu-ir, mu-utils, calling conventions, unwinding | data | pure functions and tables | agree with their definitions |

How they interact: a mutator runs managed code and polls `take_yieldpoint`. A
collection is asked for by MMTk's allocator, which calls `block_for_gc` on the
mutator; a GC worker calls `stop_all_mutators`, which raises the flag of every
registered mutator under that mutator's monitor, waits on the same monitor
until it blocks, parks or terminates, and returns. Blocking a thread hands the
range of its allocation buffer back to MMTk. The workers then trace, scanning
objects queues weak callbacks, and `process_weak_refs` runs them when nothing
is left to scan. `resume_mutators` clears the marks and notifies. All shared
state of a mutator is in its `TLSData`: some words are changed only under its
monitor, others (the state byte, the flag, the deferral) with bare atomics. The
assemblers run on one thread and share nothing with the rest.

The hard behaviours: the monitor's unsynchronised holder test; compare-and-swap
parking against marking under the lock; a deferral that races a new request;
waits that release nested levels; threads that block themselves while they are
being told to; threads that start or terminate while they are being visited; a
snapshot of the threads that is out of date as soon as it is taken; callbacks
that hold addresses of objects that move; constants an assembler believes to be
in a register; a jump linked before the code it crosses has been copied.
`PROJECT.json` lists them at their lines.

## 2. The modules

| module | models |
|---|---|
| `RecursiveMonitor` | abstract: a recursive mutex with a condition variable, each operation in one step |
| `Monitor` | `sync.rs`, one monitor, word by word |
| `MonitorOps` | the monitor's operations as functions of its words, for composition |
| `StopTheWorld` | abstract: what the collector relies on |
| `Handshake` | `runtime/threads.rs` and the collection interface, over one monitor per mutator |
| `Registry` | abstract: what the registry of threads promises |
| `Lifecycle` | thread start, the registry and `join_all`, with the panics of both, over the actions of `Handshake` |
| `LateStart` | `Lifecycle` with a history of the coordinator's last snapshot, and what the handshake promises while threads start |
| `Tlab` | the allocation buffer and the allocation entry points, with MMTk's allocator as they use it |
| `WeakRefs` | scanning, members and weak callbacks over any number of copying collections |
| `Words` | machine words and floating-point numbers at a quarter of their width |
| `MacroOps`, `MacroCatalogue` | what each macro operation means, and the operations with their operands |
| `Assembled` | the life of one operation: assembled, executed, returned from |
| `Riscv64Machine`, `Riscv64Macro` | the instructions, and `macro_assembler_riscv64.rs` |
| `Arm64Machine`, `Arm64Encodings`, `Arm64Assembler`, `Arm64Integer`, `Arm64Macro` | the instructions, the immediates and their encodings, `arm64assembler.rs`'s instruction functions, and `macro_assembler_arm64.rs` in two parts |
| `X86Machine`, `X86Assembler`, `X86Macro`, `X86Macro64` | the instructions and their flags, the functions of `x86assembler.rs`, `macro_assembler_x86_common.rs` and `macro_assembler_x86_64.rs` |
| `Arm64Link` | jumps from the macro assembler through the link buffer to where they lead |
| `MCHandshake`, `MCLifecycle`, `MCTlab`, `MCWeakRefs`, `MCRiscv64`, `MCArm64`, `MCArm64Link`, `MCX86` | values for the constants |
| `MonitorProofs`, `HandshakeProofs`, `MonitorUseProofs`, `LifecycleProofs`, `LateStartProofs`, `TlabProofs`, `WeakRefsProofs`, `Arm64LinkProofs` | theorems |

### Monitor

State: `raw` is parking_lot's mutex, which has no owner; `holder` and `rec` are
the two atomics; `waiters` is the condition variable's queue. Per thread: `pc`
inside an operation, `guards` alive in its frames, `saved` the local of a wait,
and `handshake`, whether the operation is a with-handshake one.

| code | actions |
|---|---|
| `lock_no_handshake` | `LockCall` (the load of `holder`, which decides the branch), `LockRaw`, `LockOwn`, or `LockRec` |
| `lock_with_handshake` | `LockWithHandshake`, `LockParked`, `LeaveParked` or `StayParked` |
| guard drop | `DropGuard` and, when it unlocks, `UnlockRaw`; `UnwindGuard` in a thread that panics |
| `wait_no_handshake` | `WaitSwap`, `WaitSleep`, `WaitRelock`, `WaitRestore` |
| `wait_with_handshake`, in its `parked_scope` | `WaitWithHandshake` or `WaitRefused` (the first assertion fails), the steps of a wait, those of `unlock_completely`, `ScopeReturns` or `ScopePanics` (the last one fails), then `LockParked`, `LeaveParked` or `StayParked` |
| `unlock_completely` | `UnlockCompletely`, `UnlockSwap`, `UnlockAllRaw`, `EndOfGuard`; `RelockNoHandshake` |
| `leak` | `Leak`, `UnwindGuard` |
| `notify`, `notify_all` | `NotifyOne`, `NotifyAll`; neither needs the lock |

Whether a parked thread may go on is decided by the collector, which is module
`Handshake`'s subject; here it is left open. `leak` forgets nothing: its guard
is dropped when it returns, after the assertion has run on a count it has just
made wrong, so it always panics; nothing calls it. The count wraps at
`RecLimit`.

Three parameters are not in the code. As written (`DropClearsHolder = FALSE`), a
guard that unlocks leaves its thread's id in `holder`. The same thread's next
lock then looks recursive and locks nothing: run `MonitorAsWritten` finds two
threads with live guards in a few steps. Everything built on the monitor
inherits this, so nothing above it could be said to be right or wrong on its
own. `TRUE` adds the one store to `u64::MAX` that `unlock_completely` and
`wait_no_handshake` both make, and changes no other step. As written
(`UnlockForgets = FALSE`), `unlock_completely` drops its guard after it has
unlocked, which takes one from a count that is 0, or that another thread has
set meanwhile, and then unlocks that thread's mutex; `TRUE` forgets the guard.

The third is about a panic. `wait_with_handshake` waits and unlocks inside
`parked_scope`, which asserts at both ends that its thread is Running
(`runtime/threads.rs:914`, `918`). The coordinator may have stored
RunningToBlock. If it has before the wait, the panic finds the thread with all
its guards and its unwinding drops them in order. If it has by the end, the
guard of the wait is gone and the mutex free, but the thread's outer guards are
still to be dropped, each taking one from a count that is 0 or the next
holder's: `rec_count` wraps, or another thread's mutex is unlocked. As written
that happens to a thread with any number of guards (`ScopePanicDepth =
MaxDepth`); with 1 the assertion fails only in a thread that has no other guard
of this monitor, and then the panic leaves nothing wrong behind.

With any one of the three left as written TLC finds `MutualExclusion` violated
(the third alone in a trace of 18 states, and `CountIsDepth` and `TypeOK` too).
So the positive results are about a monitor with both repairs whose users do not
wait with a handshake under nested guards, or are not told to block while they
do. The handshake uses neither
`wait_with_handshake`, `unlock_completely` nor `leak`, so its modules have the
first parameter only.

### Handshake

Each mutator has the words of its `TLSData` and a monitor of its own. `pc` names
the next step of the runtime function it is in; `gcpc` that of the coordinator.
A step is a lock operation, a wait (falling asleep and waking are two steps), or
a stretch of code that touches shared words under the lock. The lock-free words
are read and written in steps of their own wherever another process could come
between: the deferral, the two compare-and-swaps, the test of `take_yieldpoint`.
One step per monitor operation is enough when `DropClearsHolder` holds, for two
reasons that meet in `RecursiveMonitor`: `Monitor` implements it, so the steps
inside an operation are invisible to other threads; and every thread's monitor
in `Handshake`, as that thread and the coordinator use it, is a
`RecursiveMonitor` too (`MonitorsAreRecursive`). Recursive locking is explicit: `yieldpoint` and
`block` hold the monitor when they call `check_block`, whose wait releases every
level.

| code | actions |
|---|---|
| `check_yieldpoint`, `yieldpoint` | `DeferYieldpoint`, or `TakeYieldpoint`, `YieldpointLock`, `YieldpointTake`, then check_block, `YieldpointUnlock` |
| `enable_yieldpoints`, `disable_yieldpoints` | `EnableYieldpoints`, `DisableYieldpoints` |
| `check_block_no_save_context` | `CheckBlockLock`, `CheckBlockAcknowledge`, `CheckBlockTest`, `CheckBlockWait`, `CheckBlockWake`, `CheckBlockRun` |
| `enter_parked` | `CallEnterParked`, then `ParkFast`, or `ParkLock` and `ParkBlocked` |
| `leave_parked`, `attempt_leave_parked_no_block` | `LeaveParked` and check_block, `UnparkFast` |
| `block_for_gc` (block() on oneself) | `PollForGC`, `SelfLock`, `SelfRequest`, check_block, `SelfUnlock` |
| `terminate_thread` | `CallTerminate`, `TerminateLock`, `TerminateMark`, `TerminateRemove` (which is `TerminateUnlock` and the removal from `threads`) |
| `block_all_mutators_for_gc` | `StopAllMutators`, `Snapshot`, `RetainVisit`, `RetainForget` or `RetainBlock`, `WorldIsStopped` or `RetainDone`, `SyncVisit`, `SyncDone` |
| `block` on another thread | `BlockRequest`, `BlockTerminated`, `BlockRunningAsync`, `BlockRunningSync`, `BlockParked`, `BlockOwn`, `BlockMustWait`, `BlockWait`, `BlockWake`, `BlockDone` |
| `unblock_all_mutators_for_gc`, `unblock` | `ResumeMutators`, `UnblockLock`, `Unblock`, `ResumeDone` |

Abstracted away: statistics, logging, `at_yieldpoint` and `is_blocking` (written,
never read by this code), the TLAB flush in `set_blocked` (in `Tlab`), the order
in which vectors are traversed (any order), the lock around `handshake_threads`
(one coordinator), the hooks `yieldpoint_unblocked` and `save_thread_state`. In
`retain` the closure's guard, `blocked_for` and `block_async` nest locks of the
same thread on the same monitor; one level stands for all three, which is the
same when `DropClearsHolder` holds. MMTk is modelled by how this code uses it: a
mutator's allocation asks for a collection, a worker then runs
`stop_all_mutators`, and the request is cleared when the world has stopped. The
atomics are sequentially consistent in the model; the code uses relaxed
accesses, whose reorderings are not modelled.

### Lifecycle

Extends `Handshake`: the same actions run beside `start` (`StartThread`,
`StoreMainThread`, `AddMainThread`, `AddThread`, `RegistrationFails`,
`LeaveParkedScope`, `StoreRunning`, `EnterCallback`), the removal
(`TerminateAndLeave`, `TerminateFails`) and `join_all` (`JoinAll`, `JoinWake`).
The registry is the vector itself, with swap-removal and the index each thread
has stored; `Handshake`'s `threads` is its set.

`Thread::spawn` is public and needs no managed thread, so any thread may start
at any time. `start` tests `MAIN_THREAD`, stores it and registers in three
steps. Two threads may both find it unset, and one that finds it set may
register before the main thread has: in either case the assertion of
`add_main_thread` that the registry is empty (`runtime/threads.rs:868`) fails
while the registry's `std` mutex is held, which `poisoned` records. From then on
every `lock().unwrap()` panics: a thread that starts is refused, one that
terminates unwinds with its slot still taken, `join_all` panics, and so does the
coordinator, which takes no further step (`ReadsRegistry`). `MainTestSound` says
that this is the only way to get there: nobody registers before `MAIN_THREAD` is
stored. `NeverPoisoned` (section 4) says what a runtime has to do about it:
start no second thread until the first one is registered.

`Registry` says what all this is for: a thread enters at most once and leaves at
most once, and `join_all` returns at a moment when nobody is registered, or
panics. `ImplementsRegistry` maps a thread's membership of the vector to
`live` there, and both places in which the joiner may be to `waiting`.

Three things a starting thread meets during a collection are in the model. The
first is run `StartDuringCollection`. The others are no runs of their own: the
store of `Running` after the registration may overwrite a RunningToBlock the
coordinator has just stored (the request itself survives, `RequestOutlivesStart`,
since the flag stays up), and if the thread then parks by the fast path the
coordinator is not notified, so that a synchronous block sleeps until the
thread's native code has returned; and the coordinator may change `Running` within
`parked_scope`, whose assertion (`runtime/threads.rs:918`) then panics (pc
`panicked`).

### LateStart

What of `WorldStopped` and `NoOrphanBlock` is left while threads start? Both are
false: a thread that registers after the last snapshot is in nobody's list. It
may run in the stopped world; and if it joins a request for a collection before
the world is reported stopped, which answers that request, and comes to block
itself only when it has been resumed already, it stays blocked with nothing to
resume it (TLC finds it). `listed`, a history variable, holds
the threads that the coordinator's last snapshot found, whatever step of their
start they were in. `ListedStopped` and `ListedResumed` promise them what
`Handshake` promises to everybody, across the overwritten state bytes above;
`NoLostWakeup` and `MonitorsAreRecursive` are promised to all.

### Tlab

`bump` is the thread's buffer, `mutator` the copy inside MMTk's allocator,
`request` an allocation that has gone to MMTk. The actions are the fast path
(`Allocate`), the paths that give the range to MMTk and ask it (`AllocateSlow`,
`AllocateElsewhere` for large objects and other semantics), `BumpCursors`,
which takes the range back, and `SetBlocked`, what a collection does to a
stopped thread. MMTk's part: `AllocInRange`, `AllocInBlock`,
`AllocInOtherSpace`, and `Collect`, which resets the allocator and frees blocks
without objects. MMTk returning zero from an exhausted heap is not modelled; the
code treats it as out of memory in the runtime's hands.

### WeakRefs

Objects have one strong member, one weak and one "late", which a callback of
the runtime traces (an ephemeron or a finaliser in the making). An object is at
one of two addresses, so a stale reference is visible as the other one. A
collection traces and scans in any order, which stands for any number of
workers; `channel` is the queue of callbacks, `drained` what one call of
`process_weak_refs` took from it. A weak member's callback (`TestWeak`,
`WriteWeak`) and a late one (`TraceLate`) are run one by one; a late one that
finds something asks for another round, which may queue more callbacks.

The runtime's own `process_weak_refs` is the default (returns false). Left out:
a vtable that is an object, plans that scan again to forward references
(`forward_weak_refs` is empty here, so callbacks of the first pass would be
registered a second time), `ScanObjects` (the same queue), conservative roots.
A callback that registers another one without tracing anything would leave it
queued for the next collection; the model's callbacks, as the repository's, do
not.

### The macro assemblers

A macro operation is a method such as `add32(Address, RegisterID)`. `MacroOps`
states what each kind of operation means, once for every machine: which
destinations get which value from which sources, or where control goes.
`MacroCatalogue` lists the operations with operand forms, conditions and
register choices, aliasing included; `MCX86` adds the operations and the forms
that only x86 has. `Riscv64Macro`, `Arm64Integer`, `Arm64Macro`, `X86Macro` and
`X86Macro64` translate the methods into the instruction sequences they assemble,
with every choice the code makes about immediates, addresses and temporaries;
the machine modules execute them. `Assembled` is the state machine: an operation
is picked and assembled, the machine starts with garbage in the temporaries and
upper halves, each instruction is a step, and the operation returns when control
leaves its code.

Widths are a quarter of the real ones: bytes of 2 bits, registers of 16,
immediates of 6 (RISC-V), of 5, 3 and 3 bits (ARM64: 12, 9 and 7) and of 2 and
8 (x86: 8 and 32). Extension,
truncation, wrapping and the limits of immediates show at this width as at the
real one, and every case of the code that depends on a width is reached.
Floats are a sign and a magnitude in quarters with an infinity and a NaN.
Branch offsets count instructions. A weak compare-and-swap does not fail
spuriously.

On ARM64 the assembler remembers which constants its two temporaries hold; the
operations are assembled with nothing known and with constants near those they
use.

On x86 an instruction is a mnemonic, a width and two operands, of which either
may be memory, and most set flags that the next jump, `cmov` or `setcc` reads:
the machine has them. The assembler chooses bytes, and what is kept of its
formatters (`one_byte_op`, `one_byte_op8`, `three_byte_op` and so on) is the
width they make of the instruction and the register that a byte without its
prefix really names. The client's registers are rax, which has forms of its
own, rsi, whose low byte cannot be named without a prefix, and rcx, which
counts shifts; xmm0, xmm8 (a number above 7) and xmm2. Some operations use a
register of the client and put it back (a count is exchanged with ecx, a mask
complemented twice): `Unruly` excuses those, and `Computes` sees that they do.

`Flawed` names the operations the code gets wrong, by name, operand form and
constant; `Unruly` those that also write registers they were not given;
`Stale` those that leave the ARM64 assembler believing in a constant that is
not there. The properties are about all others, that is, the runs delimit what
works. The lists are in section 6.

Left out: vectors, tag operations, `extract_simple_address`, counts of set bits
(except x86's), `breakpoint` and `ret`; of x86 also division (an instruction of two
fixed registers that no contract of `MacroOps` describes), `clear_bit64`, the
locked and thread-local forms, compact addresses, and the linking of jumps,
which patches bytes.

### Arm64Link

Code is a sequence of instructions, jumps among them (`MakeJump`,
`MakeBranch`), linked to labels (`Link`). The link buffer allocates memory of its
own or takes the client's (`AllocateAnew`, `AllocateIn`, `FailToAllocate`),
sorts the records by place (`jumps_to_link`), copies region by region and records
the offsets in the buffer it reads (`CopyRegion`, `CopyTail`), then links each
record (`LinkRecord`). Afterwards
`LinkJump` and `RepatchJump` link a jump of the finished code again.

How far a branch reaches is three constants, half the number of offsets that
its 14, 19 or 26 bits hold. A conditional branch tests whether its target is in
reach and falls back to an unconditional one behind it; the unconditional one
writes the low bits of the offset without a test (`Field`), so a target further
than that is silently replaced by another. `WithinReach` says that this does not
happen; it is a hypothesis of one theorem and no part of the model.

`Careful` is not in the code: it keeps clients from what the code gets wrong
(`LinkBuffer::link_jump` of a conditional jump, a second link of one that has
been inverted). Without it `JumpsLead` fails. Watchpoints, near calls, and the
sizes of branch that no function of the macro assembler makes, are left out. The
word before the first instruction, which a relink may read, is taken to be no
branch.

## 3. The runs

| run | instance | shows |
|---|---|---|
| `MonitorContract` | 3 threads, nesting 3, panics of `parked_scope` without nesting | types and no wrap of the count, mutual exclusion, `CountIsDepth`, refinement of `RecursiveMonitor` |
| `MonitorAsWritten` | 3 threads, nesting 2, as written | **violated**: `MutualExclusion` |
| `Handshake` | 2 mutators, one of which defers | types, `WorldStopped`, `RequestNotLost`, `NoOrphanBlock`, `NoLostWakeup`, refinement of `StopTheWorld`; `CollectionStarts`, `BlockedIsResumed` under fairness |
| `HandshakeTermination` | 2 mutators | **violated**: `HeapQuiescent` |
| `LifecycleSafety` | 2 threads that start and end, a joiner, a history of the last snapshot | types, `RegistryIndexed`, `JoinerNotForgotten`, `MainTestSound`, `RequestOutlivesStart`, `ListedStopped`, `ListedResumed`, `NoLostWakeup`, refinement of `Registry`, and of `RecursiveMonitor` by every thread's monitor |
| `StartDuringCollection` | the same | **violated**: `WorldStoppedForAll` |
| `Tlab` | 2 adjoining blocks of 8, sizes 1, 2 and 5 | `ObjectsDisjoint`, `HandedOver` |
| `WeakRefs` | 3 objects, 6 members | `MembersValid`, `WeakKeepsNothing`, `WeakClearedIfDead`, `CallbacksRunInTime`, `CollectionEnds` under fairness |
| `Riscv64` | the catalogue | `Computes`, `OnlyDestinations`, `Terminates` |
| `Arm64` | the catalogue and ARM64's own operations | the same and `CachedValuesHold` |
| `X86` | x86's operations, some 4,300 with their forms | `Computes`, `OnlyDestinations` |
| `Arm64Link` | 6 instructions, 2 jumps, 1 relink | `JumpsLead`, `CodeKept` |

Bounds. Three threads are what a monitor needs for a holder, a thread inside
the unsynchronised test and a waiter at once; two levels of nesting distinguish
a count from a flag, and the third an inner level from the first and the last. Two mutators let one be visited, waited for, starting or
terminating while the other blocks itself or asks for the next collection;
mutators do not touch each other's words, so a third adds no new kind of
interleaving, and the proofs cover any number. A registry of two has a removal
of the last slot and one that moves a thread. Collections are not bounded in
any module: mutators may request them for ever. `RecLimit` is above the
levels a thread can nest, so a wrap would show. One deferral level is enough for
the races of the flag; nested levels, and mutators that all defer, are in the
proofs, which allow any depth for each. It takes a second mutator to ask for the
collection one defers, since the one that asks blocks itself. The code x86
operations assemble only jumps forward, so `Terminates` is not asked of it.

In `Tlab` the blocks adjoin, so an object one byte too long would overlap the
next block's first; 1, 2 and 5 with alignment 2 are a size that leaves the
cursor unaligned, one that fits exactly and one sent to the large object space.
In `WeakRefs` three objects are a root, one that only weak or late members may
know, and one that does not move; each kind of member exists on an object that
is found first and on one found in a later round. In `Arm64Link` the widths of
offset are 2, 3 and 6 bits (reaches 2, 4 and 32), so that within six
instructions each conditional branch reaches, or does not; of the targets outside
one is reached by conditional branches from some places and one from none; granule 4
and rooms of 3 and 7 make the memory too small, exact or padded.

Deadlock is not checked where the system may rightly stop: all mutators may
terminate, code has been linked often enough. It is checked in `Tlab`,
`WeakRefs` and the assemblers' runs.

The violations. `MonitorAsWritten` is `sync.rs:226`. With `DropClearsHolder =
FALSE` the handshake breaks too: `WorldStopped` and `NoLostWakeup` are violated,
with a single mutator a collection may never start because the coordinator goes
to sleep after the acknowledgement it waits for, and with two a thread may be
left blocked with no collection under way. The other two are independent of it.
`HandshakeTermination`: `terminate_thread` clears `is_active_mutator_context`
before it calls `destroy_mutator`, so a collection can stop the world, and run,
while the thread's MMTk mutator is being flushed and freed, against the comment
in `block_all_mutators_for_gc`. `WorldStopped` counts such a thread as gone,
which is why it holds. `StartDuringCollection`: a thread that registers after
the coordinator's last snapshot runs its callback in the stopped world; the same
comment knows only threads whose `start` has not been called and threads that
terminate.

Fairness. In `Handshake` (`FairSpec`) the coordinator, and every mutator inside a
runtime function, take a step that is again and again possible (strong fairness:
parking_lot's mutexes hand over eventually, so a lock that keeps becoming free
is obtained). A mutator in managed code with the flag up and yieldpoints enabled
reaches a yieldpoint at some loop back edge, and a no-yieldpoint region ends.
Weak fairness says the latter where regions do not nest; a program that opens
and closes an inner region for ever inside an outer one never reaches a
yieldpoint, and a collection then rightly waits for it. Nothing is assumed of
native code, which may never return, or of a mutator's choice to allocate, park
or terminate. A collection must start nevertheless. In `WeakRefs` a collection
goes on (weak fairness of its steps together): MMTk's workers run until it is
over. In `Assembled` a machine executes the next instruction.

## 4. The proofs

`MonitorProofs`, assuming `DropClearsHolder`, `UnlockForgets` and
`ScopePanicDepth <= 1`: `TypeCorrect`, `Exclusion`, `CountCorrect` and
`Refinement`, for any set of threads and nesting bound, over waits, panics and
unwinding. All three assumptions are needed (section 2). The inductive invariant says which thread owns the raw mutex (a program
counter inside a critical step, or a guard and not waiting), that there is at
most one, and that `holder` and `rec` are its own except in the windows that a
lock, a wait or an unlock has opened and not yet closed.

`HandshakeProofs`, for any finite or infinite non-empty set of mutators and any
nesting of deferral:

- `TypeCorrect` (type correctness) and `NotLost` (`RequestNotLost`) need nothing
  from the monitors and hold for the code as written. Their invariant `CodeInv`
  relates a thread's program counter, its state byte, the flag and the deferral:
  the state byte becomes RunningToBlock only in a step that raises the flag, and
  every way of lowering the flag either defers or leads to check_block.
- `Stopped` (`WorldStopped`), `NoOrphan` (`NoOrphanBlock`) and `Refinement`
  (`ImplementsStopTheWorld`) assume `DropClearsHolder`. Their invariant `IInv`
  has two layers more. `Common` is about each thread by itself: who owns its
  monitor, with how many levels (`MonitorInv`), what its place says of its words
  (`PlaceInv`), what a blocked mark says of it (`BlockInv`), and what holds at
  each step of block() (`BlockLoopInv`). `KnownInv(L)` is about the coordinator
  and the threads L it knows of: a mark or request has a collection to answer
  for it (`Resumable`), and a thread of L outside the lists of the current pass
  has been found blocked (`Retaining`). Here L is everybody. WorldStopped is not
  inductive: that a thread found blocked earlier in the pass still is when the
  pass ends follows only from all of these together.
- `WakesKept` (`NoLostWakeup`) is the safe half of the two liveness properties:
  the coordinator sleeps only while what it waits for has not happened, and so
  does a thread in check_block. `WakeInv` says the same of the step before each
  falls asleep, and `Common` that only the owner of the monitor changes the words
  it has tested.

The lemmas on a step of the handshake take the set of program counters as a
parameter and KnownInv's L too, so that they serve the next two modules.

`MonitorUseProofs`: `MonitorsRecursive` (`MonitorsAreRecursive`), assuming
`DropClearsHolder`. `MonitorInv` makes the words of a monitor a function of the
places of its thread and of the coordinator (`PlacesTell`), so each step is read
off the places it moves between: it takes a level, lets one go, gives all up to
wait, returns with them, or leaves the monitor alone, and whoever has levels
after it is the only one.

`LateStartProofs`: `ListedAreStopped` (`ListedStopped`), `ListedAreResumed`
(`ListedResumed`), `LateWakesKept` (`NoLostWakeup`) and `LateMonitorsRecursive`
(`MonitorsAreRecursive`), for any threads that start, terminate and are joined
at any time, assuming `DropClearsHolder`. The invariant `LInv` is `Common` over
the places of a start as well, and `KnownInv(listed)`: what fails of `IInv` when
threads start is exactly that L is everybody. A step of the handshake keeps it by
`HandshakeProofs`; a step of a start moves a thread that has no monitor and is
not blocked; a snapshot replaces L. The lemma `HistoryHides` shows that
`SpecLateStart` implies `SpecLifecycle`, of which `LifecycleProofs` speaks.

`LifecycleProofs`: `TypeCorrect` (`TypeOKLifecycle`), `Indexed`
(`RegistryIndexed`), `JoinWakes` (`JoinerNotForgotten`), `MainTested`
(`MainTestSound`), `NotOverwritten` (`RequestOutlivesStart`) and `Refinement`
(`ImplementsRegistry`), for any threads, started by anyone at any time. The registry lists a thread exactly
from its registration to its removal (`Registered`, by program counter), and no
step of the handshake but the removal crosses that border. A thread's stored
index makes its slot the only one it has, which is what swap-removal needs.
`MInv` adds to `MainTestSound` that a thread which is about to register has
found `MAIN_THREAD` set or has set it. `NeverPoisoned` assumes of the program
that no other thread has started while one that takes itself for the main thread
has not registered (`FirstAlone`), and concludes that the registry is never
poisoned. In the
refinement a step of the registry changes the membership of one thread, and one
of the handshake changes neither a membership nor who is gone; the failures
change only what the joiner sees. `NotOverwritten` has an invariant
(`Requested`) that leaves the state byte out: whoever stores a request raises the
flag before it unlocks or goes on to check_block, and until yieldpoints are first
enabled nothing is deferred. The monitors play no part, so all seven hold for the
code as written.

`TlabProofs`: `Disjoint` (`ObjectsDisjoint`) and `RangeHandedOver`
(`HandedOver`), for any blocks, sizes and alignment. The two hold each other up:
a range, of whichever owner, lies in a block in use and no object reaches into
it, so what is carved from it is new; that an empty buffer's owner has an empty
range too is what the flush needs.

`WeakRefsProofs`, for any objects, members and pinning: `Valids`
(`MembersValid`), `InTime` (`CallbacksRunInTime`), `KeepsNothing`
(`WeakKeepsNothing`) and `ClearedIfDead` (`WeakClearedIfDead`). The invariant
says of every member of every traced object how far it has got: still to be
visited, holding its old value with a callback queued, tested, or final; of
every queued callback where its object is; and that everything found is
reachable in the graph from before the collection, and everything one strong
member away from what has been scanned is found. Reachability is the
intersection of the sets closed under the members, so no induction is needed.

`Arm64LinkProofs`, for any code, jumps, memory, granule and reaches:

- `Kept` (`CodeKept`), whether clients are careful or not. The invariant `LInv`
  says, phase by phase, what every word holds: while assembling, that no two
  jumps share an instruction and that a jump has a record exactly when it has a
  goal; while copying, that what lies before the read pointer has been copied
  and replaced by its offset, that the rest is untouched, and that no record
  still to come lies before it, which is what sorting the records gives; while
  linking, that all offsets are zero; and afterwards that a conditional branch
  stands nowhere but at the start of a conditional jump, so that `relink_jump`
  may trust what it finds before a label. Padding is why the copy cannot run out
  of the memory.
- `Leads` (`JumpsLead`), assuming `Careful` and `WithinReach`. `LeadInv` says of
  each jump whether it is unlinked, linked near, or linked by the second branch
  behind an inverted one, and that its offsets lead to its goal;
  linking one jump keeps this for every other because their instructions are
  apart. Both assumptions are needed: without `Careful`, or with a
  26-bit field as narrow as the 19-bit one, TLC finds a violation. It evaluates `WithinReach` on
  the run's instance (`InstanceWithinReach`).

The proofs have one lemma per kind of fact (lock operations, cursors, the steps
of scanning), one step per action, and a temporal step at the end.

Only model-checked: the liveness properties (`CollectionStarts`,
`BlockedIsResumed`, `CollectionEnds`, `Terminates`), since the prover does no
liveness under fairness (`WakesKept`, `NotLost` and `NoOrphan` are the invariants
a paper proof of the first two would rest on) and, under `SpecLateStart`, no
liveness is claimed; and what the macro assemblers
generate (`Computes`, `OnlyDestinations`, `CachedValuesHold`), since it is computed from
long tables of instructions over words with bitwise operators, which TLC
evaluates and the prover cannot. The violated properties are refuted by TLC and
have no theorems. Every other property of a passing run has one.

## 5. Not modelled

- Barrier: nothing in the repository arms it or reaches its safepoint.
- Block adapters other than the GC's: every call of `block` in the repository
  is with `GCBlockAdapter`. Two mutators that suspend each other with a second
  one would wait for each other.
- The active plan: reads of the registry by a collection; what it relies on is
  `WorldStopped` and `HeapQuiescent`.
- Object model: one header word and layout arithmetic, without a protocol. From
  reading it: the hash state is written as 0, 1, 2 and read back as Hashed,
  HashedAndMoved, Unhashed (`objectmodel/header.rs:39-59`); nothing sets
  HashedAndMoved, so a hash taken from the address changes with a move; a copy
  reads the size with the hash field from a source that has no such field
  (`objectmodel.rs:166`).
- Shadow stack: a bump pointer saved and restored by scoped values; pushing a
  frame does not test the bound (`mm/shadow_stack.rs:79`).
- Coroutines and fibers: ownership is enforced by Rust's types and the rest is
  stack layout and assembly. From reading `coroutine.rs`: the exit callback
  unmaps the record before the record's own field is dropped (25-36, 89-95), and
  dropping a coroutine made from a native handle leaks its stack.
- Assembler buffer and the plain copy of the link buffer: bytes and an index.
  `link_code` copies the buffer's length into memory of the code's size, and
  `from_code` with too little memory returns success with `did_allocate` false.
- Rounding and size parsing (`utils.rs:97-247`): single expressions over machine
  words; 0 and values near the top wrap.
- `P<T>` of mu-utils: a question of memory orders, which TLC does not explore.
- x86's encodings byte by byte, and `link_buffer.rs` over them: what a wrong
  prefix or opcode does is in the model where an operation of the macro assembler
  reaches it, as another width, register or instruction. Division, locked and
  thread-local forms, vectors.
- mu-ir, flags and options, calling conventions, mock runtime: data and
  configuration. Unwinding and on-stack replacement: machine frames. Object
  monitors and the lock stack: commented out of the build. `DisableGCScope`: a
  counter nothing reads. Executable memory: an external allocator. Spin lock:
  one word, used by nothing modelled.

## 6. What the code generators get wrong

`Flawed`, `Unruly` and `Stale` (`MCRiscv64`, `MCArm64`, `MCX86`) exclude these
from the properties; each was found by TLC as a violation before it was listed.
The models contain the code as it is, flaws included.

RISC-V (`macro_assembler_riscv64.rs`, `riscv64assembler.rs`):

- Operands for which the operation panics (`unreachable!()`) although its types
  allow them: sub32 of an immediate from a register, sub64 of an Imm64, load32
  and load64 of an extended address, test32_cond of an address and a register,
  branch_test32 and branch_test64 of a base with an index, add_double_rr and
  sub_double_rr of an address.
- sub32 of a register computes the source less the destination.
- Constants: `IImmediate::is_valid` accepts every i32, so a wider immediate is
  truncated to twelve bits in the operations that test it.
- Addresses: a base with an index of scale one and a large offset never adds the
  index; an offset near i32::MAX is split with the wrong sign; an extended
  address loads sixteen bits with a shift of -1.
- Read-modify-write forms of add32, sub32, or32 from an address.
- neg32, byte_swap16, count_leading_zeros64, count_trailing_zeros32 and 64 (the
  64-bit counts also destroy their source, and do not end when it is the
  destination), sign_extend8_to_64, 32-bit shifts by 32 or more.
- Branches: LessThanOrEqual tests GreaterOrEqual; compare64 uses temporaries it
  has not set; branch_add32, branch_sub32 and branch_mul32 leave the result in a
  temporary; branch_add64 and branch_sub64 by Overflow; branch_mul64;
  branch_test16 loads a byte.
- Conditional moves with both arms swap them.
- Floats: conversions between widths and of doubles and 64-bit integers,
  absolute value and negation of doubles, GreaterThanOrEqual, compare with its
  NaN tests inverted, rounding of NaN (writes a general register), the zero
  tests; calls of absolute addresses.

Read and not run: compare-and-swap, near_tail_call, ImmediateDecomposition of
64-bit values near the top, far links, PatchPointer::read.

ARM64 (`macro_assembler_arm64.rs`, `arm64assembler.rs`):

- Encodings: the shift of an added immediate; the S bit of extended
  additions; subtraction with sp; the position of a cleared bit field; a
  comparison of a float with zero compares with q0; two-source float operations
  lose the second source; the vector or is an and; stores of floats store
  general registers; a scaled load is encoded unscaled, a scaled store as a
  load; pairs of 64 bits double their offset; non-temporal float pairs.
- Constants: move_internal writes some halfwords of a constant and not the
  others; halfword immediates are undivided; negative 32-bit constants are
  zero-extended in some 64-bit operations and remembered as such; xor64 takes the
  32-bit pattern; adding to memory a constant that cannot be encoded loses it.
- Addresses: base and index forms with offsets; a byte stored at an absolute
  address goes through x0; or32 of an address does not load.
- Cached temporaries: a load that patches the low halfwords of a known address
  keeps the old one remembered, and so on for every constant above.
- branch_sub64 of registers tests 32 bits; float conditions EqualOrUnordered and
  NotEqualAndOrdered; conditional moves of floats of 32 bits;
  move_conditionally32 with zero moves twice.

Linking (`link_buffer.rs`, `arm64assembler.rs`): `link_jump` of a conditional
jump leaves a branch to itself; a second link never undoes an inversion, because
it compares the offset with 8 where the inversion wrote 2, and a direct branch
exactly 8 instructions away is inverted wrongly; `replace_with_jump` takes a
byte offset for a count of words; labels for watchpoints are never padded;
`link_jump_or_call` does not test the range; a link of a jump at the very start
reads the word before the code; `copy_and_compact_link_code` never compacts.

x86-64 (`macro_assembler_x86_common.rs`, `macro_assembler_x86_64.rs`,
`x86assembler.rs`):

- Encodings: the form of addq for eax lacks its prefix and adds 32 bits; addw to
  memory emits a constant of 32 bits after an operand-size prefix; the byte forms
  of or, sub, xor, xchg, test and cmp name ah to bh for registers 4 to 7; dec_r
  is the 64-bit decrement; movd_f2r has its operands the other way round;
  cvtss2siq converts to 32 bits; rounding takes xmm8 and the
  registers above for those eight numbers below.
- Constants: mov of a negative Imm32 leaves the upper half clear; zero_extend8_to_64
  extends the sign; add_ptr_no_flags adds 32 bits; masks of seven bits test one
  byte of any register in Test64; masks of -1 compare 32 bits in branch_test8 and
  branch_test16; tests of one byte with Signed or PositiveOrZero look at bit 7;
  move_conditionally32_then_else of a constant other than zero compares nothing.
- Aliasing: sub32_rrr whose right operand is the destination negates it and
  subtracts the left one; or64_rrr, sub_float and sub_double overwrite their right
  operand; 32-bit shifts by a register that is the destination; or32 from memory
  to memory destroys eax; branch_add64_rrr from an address based on the
  destination loads 32 bits.
- Forms: branch_mul32_rrr panics with an immediate on either side;
  and64 to an index ignores the index; store64 of eax to an absolute address
  stores 32 bits; sub32_rrr of a constant and memory has no destination; load16
  does not scale an extended address; branch_test32 of an absolute address tests the
  address; far_jump and call_op of one go to the address and not to what it
  holds; mul_float with an index emits nothing.
- Floats: abs_double and negate_double use -1.0 for a mask; truncate_float_to_int64
  is of 32 bits; branch_convert_double_to_int32 converts another register back;
  compare_float and compare_double NotEqualOrUnordered; conditional moves by
  EqualOrUnordered and NotEqualOrUnordered.

Read and not run: two_byte_op64_r ignores REX.B (bswap of r8 and above), the
prefixes of por and cvtdq2pd, one prefix too many in fill_nops,
revert_jump_to_cmpl writes the opcode of a mov, set_int32 and set_rel32 write
four bytes before the place they are given; mul_double and add_double with an
index and another destination panic.
