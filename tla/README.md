# Embedded_System_Software: models, checks and proofs

The repository holds the kernel modules of an embedded-systems course
(Raspberry Pi 3, four cores, kernel 4.19.97-v7 SMP, not preemptible): two
assignments, a System-V-like message queue (KU_IPC) and a switch-operated door
opener (KU_SnA), and the small drivers of Lab02 to Lab14. What is hard in them
is concurrency: system calls, interrupt handlers, RCU readers and `rmmod` that
meet in shared state.

In this file `ku_ipc.c.txt` and `ku_ipc_lib.c.txt` are the files of
`ESS_201411303_이준호_1/새 폴더/`, the version of KU_IPC that compiles. The files
one directory up are an earlier design and do not compile.

## The system's parts

| Part | State | Operations | What is hard |
|---|---|---|---|
| KU_IPC driver, `ku_ipc.c.txt` | list of queues (`my_msq`, `q_list`), messages, `size`, `vol`, `ku_ipc_lock` | ioctl CHECK, CREATE, CLOSE without a lock; read, write with it | list stores against traversals, closing under a reader, nine ways out of the lock, two limits |
| KU_IPC library, `ku_ipc_lib.c.txt` | none; two or more system calls per function | `ku_ipc_msgget`, `ku_msgclose`, `ku_msgsnd`, `ku_msgrcv` | the driver changes between the calls; polling |
| KU_SnA, `ku_SnA.c` | `app_state`, `state`, `c_step`, `my_lock`, pins | interrupt handler with motor and scale, two ioctls, exit | a handler of seconds that takes a lock of the processes it interrupts; unload |
| Lab11 `simple_rcu` | RCU pointer to a number, `my_lock` | read, write, exit, loop of the application | readers without lock, grace periods, sleeping with a spinlock |
| Lab11 `simple_rwlock` | pointer to a number, reader-writer lock | read, write, exit, loop of the application | immediate `kfree`; exit without the lock |
| Lab11 `simple_rculist` | RCU list of records, `my_lock` | read, update, exit | readers on nodes that are replaced |
| Lab02 modules | a number of mod1, exported to mod2 | loading and unloading in pairs, printing | the number outlives mod2 |
| Lab03 ch2, param | one number | get, set, add, multiply; the applications | lost updates, values that look like errors |
| Lab03 ioctl and char | none | calls that only print | calls against rmmod |
| Lab09 led and switch, Lab12 speaker | a pin; pushes counted | loading that blinks, waits or plays, exit | pins given back in the right state |
| Lab09 timers, Lab10 ch8 | timer | loading, interrupt, timer function, exit | a timer that starts itself again, against exit |
| Lab10 sensor, switch_irq, sensor_proc | interrupt depth; list of detections | interrupt, open, release, show, exit | unbalanced enable; a list shared by handler, readers and exit |
| Lab12 motor, ch10, test | pins, `c_step` | loading that turns the shaft | an index past the end; the phase kept between moves |
| Lab12 ultra | `echo_valid_flag` | loading with the pulse, interrupt, exit | merged and early edges |
| Lab13 tasklet, workqueue, kthread | deferred work | interrupt, work, exit | order of exit |
| Lab14 spi | none; a program above the kernel's spidev | open, set up, transfer, print | going on after an error |

Parts interact through system calls (library to driver, applications to
drivers), through the locks named above, through the interrupt of the switch
and through the kernel's list, RCU and lock primitives, which are modelled from
how the code uses them and marked external in PROJECT.json.

`PROJECT.json` lists every part with its status, and under `hazards` every
place where the code could go wrong in a way a test would hardly show.

## Modules

| Module | What it is |
|---|---|
| `KuIpcDriver` | the KU_IPC driver, one step per list iteration or store |
| `KuIpcLib` | the library on top of it: `EXTENDS KuIpcDriver`, processes run programs of library calls |
| `MsgQueue` | abstract specification: per key a bounded sequence of messages, five atomic operations |
| `SimpleRcu`, `SimpleRwlock` | the two drivers for one number, with the loops of their applications |
| `SharedRegister` | abstract specification of both: atomic writes, reads that see one value |
| `SimpleRcuList` | the RCU list with readers, updater and rmmod |
| `KuSnA` | the door opener: handler, ioctls, exit, switch, coils, shaft and sound |
| `LabModule` | what the drivers of the labs share: init and exit functions as sequences of calls, pins, the interrupt |
| `DeferredWork` | simple_timer, ch7, ch8, simple_tasklet, simple_workqueue, simple_kthread |
| `SensorLabs` | simple_sensor, switch_irq, sensor_proc, simple_ultra |
| `PinLabs` | simple_led, simple_switch, simple_speaker, simple_motor, ch10, test |
| `CharLabs` | simple_char, simple_ioctl, simple_param, ch2 with their applications; loading and unloading of the three drivers of Lab11, of KU_IPC and of KU_SnA |
| `SimpleSpi` | the program simple_spi |
| `FirstModules` | hello, hello2, debug, and the pairs of ch1 and symbol, of Lab02 |
| `LabDrivers` | the composition of these six, each of which `EXTENDS LabModule`: any one driver is loaded (they use the same pins) |
| `MC*` | instances for TLC: the names of processes and nodes, the programs they run |
| `KuIpcDriver_proofs`, `KuIpcLib_proofs`, `SimpleRcu_proofs`, `SimpleRwlock_proofs`, `SimpleRcuList_proofs`, `KuSnA_proofs`, `SensorLabs_proofs`, `LabDrivers_proofs` | theorems, checked by TLAPS; the last two are about `LabDrivers`, the first of them as far as the drivers of `SensorLabs` go |

Operators introduced by a comment "Mutant:" are wrong versions of the
definition that follows them. Nothing uses them; put in its place, each breaks
the property PROJECT.json pairs it with.

### KuIpcDriver and the code

`pc[p]` is where process p is in a system call: `scan` is one pass of
`list_for_each_entry` in `ku_ipc_msq_get`; `alloc`, `back`, `front` are
`ku_ipc_msq_create` and the two halves of `list_add_tail`; `close`, `unback`,
`unfront`, `kfree` are `list_del` and `ku_ipc_msq_delete`; `spin`, `read`,
`copy`, `remove`, `write`, `append`, `unlock` are the steps of `ku_ipc_read`
and `ku_ipc_write`. `nxt` and `prv` are the pointers of `q_list`, `msq[n]` the
queue in node n. Touching a freed node or NULL is undefined; the model sets
`oops` and stops.

Abstractions: stores become visible in program order; `kmalloc` takes a node of
a finite pool and CREATE waits when none is free (the code would get NULL and
crash); the text of a message is its size, the length passed is `msgsz` as in
the library; `copy_from_user` succeeds; the device is open and the driver is
loaded (loading, and calls that meet it or meet rmmod, are in `CharLabs`). Messages live inside their queue, because the lock
protects the message lists. Line 243 reads freed memory: the value is the right
size or one of `StrayReads`.

### KuIpcLib

`at[p]` is the system call a library function waits for; `log[p]` are the
results so far. `Answer` is libc's view of a return value: -4095..-1 becomes
-1, and the driver's own codes, which are smaller, come through unchanged.

### SimpleRcu, SimpleRwlock, SimpleRcuList

Each process has a processor of its own (there are four). On this kernel
`rcu_read_lock` is empty and a grace period ends when every other processor has
been seen in user mode or asleep: `gp[p]` are those still missing. A processor
that delays in a read section or spins for `my_lock` is not seen; that makes
`synchronize_rcu` safe, and it makes the second writer fatal. The
file operations name no owner, so `rmmod` may run during a call. Loading, and a
call before init or after exit has finished, are in `CharLabs`. In `SimpleRcuList`
a step that would look into a freed node is not taken; `NoUseAfterFree` says that
none is ever about to be. `since` in
`SimpleRcuList` is an auxiliary variable: the data when the read began.

### KuSnA

`isr` is where the interrupt handler is; the loops of `func`, `forward` and
`backward` are `note` and `left`. `pending`, `pins`, `shaft` and `melody` are the
world outside: the latched edge, the levels of the pins, the shaft in half
steps and the notes heard. The rotor goes to a neighbouring direction of the
coil field and slips if the pattern is not a neighbour; it is taken to stand in direction
0 when the driver is loaded. Delays are left out. The four `gpio_set_value` of one
`setstep` are one step; `OneWay` shows that they change one pin.
Loading, with the failure of `request_irq` (the driver then has no handler and
does nothing), and ioctls and presses that meet loading or rmmod, are in
`CharLabs`, where a turn is one sound of the speaker. What is not modelled
there is `spin_lock_init` in the middle of another process's ioctl.

### The drivers of the labs

`driver` is the module that is loaded, `calls` what its init or exit function
has still to call; the definitions `ch7_init`, `ch7_exit` and so on are these
sequences, and each call has an action that says what it does. A call that
waits (`synchronize` in free_irq, `unlock_wait` in tasklet_kill, `wait_exit` in
kthread_stop, `rundown` in proc_remove, `wait_irq` in disable_irq) is an entry
of its own. `request_irq` may fail; the drivers then go on without a handler.
`edge` is the one edge that waits for the handler; further ones are merged.
`bug` stops the machine: the BUG_ON of `add_timer`, a NULL or freed pointer, or
a call into a module that is gone. No file operations of these drivers name an
owner, so rmmod does not wait for the last close.

* `DeferredWork`: `timer`, `sched` and `tasklet`, `queued` and `working`,
  `thread` are the kernel's side of the deferred work, on processors of its own.
* `SensorLabs`: opens and releases with the depth of the disabled interrupt; the
  list of detections, its lock, and the readers of `/proc` with their common
  buffer; the echo flag. Left out: failures of `kmalloc(GFP_ATOMIC)` and of
  `kthread_create` (the code would use NULL), opens of simple_sensor before
  `irq_num` is set, and the values that are only printed, such as the seconds
  since `start` and the centimetres.
* `PinLabs`: init functions that work for seconds. One pass of a loop is one
  step; delays are left out. The four writes of a half step are one step; the
  shaft follows the field of the coils the shorter way, and either way from the
  opposite direction. `stray` is the memory behind the four arrays of
  simple_motor, of which `backward` reads index 8; it is any value. The one pin
  of simple_led and simple_speaker is `level`.
* `CharLabs`: `at`, `made` and `fd` are where each application is in the calls
  it makes one after the other; an application does not look at whether its
  open succeeded. A handler is two steps, up to the read of the number and from its store
  on. For the Lab11 drivers and KU_IPC a call is one `use` of what init has set
  up (`ready`): what the call does then is in their own modules. For KU_SnA
  `result` is `app_state`.
* `SimpleSpi`: a failing ioctl prints and is otherwise ignored. The sample is
  what the converter measures; the bits of the answer that the sample does not
  fill, and the answer after an error, are any.
* `FirstModules`: `lines` are the numbers that mod2 has printed since it was
  last loaded; the kernel refuses rmmod of mod1 while mod2 is loaded.

`slipped`, `detected`, `orderly`, `since`, `alone`, `missed`, `disturbed`,
`obeyed` and `visits` are auxiliary: they remember what a property has to make
an exception for and no action decides by them (`obeyed` also stands for the
converter being set up).

## What the runs check

| Run | Instance | Shows |
|---|---|---|
| `ipc_driver_transfer` | 2 processes, any read and write, 1 queue, 2 types, sizes 0 to 2, limits 2 and 3 | lock discipline (`LockOwned`), counters and both limits (`SizeCounts`, `VolumeCounts`) |
| `ipc_driver_list` | 3 nodes, 2 keys, one process creates and closes, one looks up | the list is one ring after every store, both ways between the calls (`ListIntact`) |
| `ipc_lib_calls` | two senders, a receiver; two senders and a receiver of which some must wait; alone every sequence of 3 of 10 non-blocking calls with at most two `msgget`, keys 0 and 1, empty texts, and the full queue with refused sends | refinement of `MsgQueue`; messages received and queued are those sent, but for refused sends with `IPC_NOWAIT` (`Conserved`); one queue per key other than 0; no NULL or freed access also with closes (`NoOops`); a call that never returns waits for what is not there (`WaitsOnlyForCause`) |
| `ipc_lib_close` | a sender blocked on a full queue, a receiver blocked on a type nobody sends, a third process closes | all calls end unless the kernel faults (it may: CLOSE frees a queue others hold) |
| `ipc_driver_stray` | as transfer, line 243 may read a 1 | violation: `vol` is not 0 for an empty queue |
| `ipc_lib_race` | two `msgget` with `IPC_EXCL` | violation: two queues with one key |
| `rcu_app` | 2 readers, 1 writer, 2 iterations, unload | refinement of `SharedRegister`, no use after free before exit frees, no leak, applications end |
| `rcu_writers` | 1 reader, 2 writers | violation: deadlock inside `synchronize_rcu` |
| `rwlock_app` | 1 reader, 2 writers, 2 iterations, unload | the same as `rcu_app` but the leak, and reads are never stale |
| `rculist_calls` | 2 records, 3 nodes, 1 reader, 1 updater, 2 calls each, rmmod | no freed node touched, no id missed, nothing older than the read, list whole |
| `sna_door` | `ONEROUND` = 3, an application on the processor of the interrupt and one elsewhere, unload | shaft, phase and melody agree at every half step; the handler, ioctls and presses come to their end |
| `lab_drivers` | the 31 drivers and programs of `LabDrivers`, 2 users, at most 3 works, 2 detections, disable depth up to 2 at an open, `ONEROUND` = 3, 2 periods a note | nothing runs after exit and pins are given back, but in the windows named in `NothingLeft`; pins requested before use; the kernel faults only in the ways named in `FaultsOnlySo`; interrupt enabled while open; exact shows; exit alone with the list; the shaft turns by what the moves say; the applications print what they have set; handlers, init and exit functions and echoes come to their end |

The type invariants that TLAPS proves (`TypeOK` of the driver, `LibTypeOK`,
`RcuTypeOK`, `RwTypeOK`, `ListTypeOK`, `SnATypeOK`) are not repeated in a run;
that of `LabDrivers` is stated for its reader.

Why the bounds are enough. Two processes give every pair of system calls in
every interleaving; with the lock a third adds only waiting, and the theorems
cover any number. A third node in `ipc_driver_list` lets a node be freed,
reused and linked elsewhere while a walk stands on it. Limits 2 and 3 with sizes up
to 2 make each limit the first to be hit in some run. Two iterations let a
freed cell be reused under a reader that still looks at it. `ONEROUND` = 3 is not a divisor
of the eight phases, so each note starts in another phase; 512 is covered by
the theorem. Three records would add walks of the same shape. In `lab_drivers` two users
are an overlap of opens or of shows, a depth of 2 is one more than balanced
use reaches, two detections are a list whose order can be wrong, and a queue of 3
holds a work that runs, one that waits and one that arrives during exit. Two
periods make every note of simple_speaker a loop; the moves of ch10 and test stop in
phases 6, 1, 4, 0 and 2, 5, 2, 6. The number that ch2 and
simple_param are loaded with is 0 or 5 (`Start`), a byte nobody has set all zeros or all
ones (`Byte`), and samples are the two ends and a pattern. In `ipc_lib_calls` key 0 stands
for itself and key 1 for all others; two `msgget` are enough to open a queue twice or
to open both; a third would repeat one of them. `visits` tells the first visit of mod2
from all later ones.

Deadlock checking is off where the system really stops: programs that have
ended, a faulted kernel, an unloaded module, and, in `ipc_driver_list`, a
CREATE without memory. `ipc_driver_transfer` and `ipc_driver_stray` keep it on.

Fairness. Every process has a processor or gets its share (weak fairness of its
steps). The kernel's ARM spinlock is a ticket lock, so a spinning process gets
it if it is free again and again (strong fairness of acquisition in `KuIpcLib`
and `KuSnA`). The pending interrupt is taken when interrupts are on again and
again. In `LabDrivers` the init and exit functions have strong fairness
because their waiting calls look again and again (`tasklet_kill`) or are woken
(`free_irq`), and the loops of `PinLabs` are part of them; handlers and readers because of the ticket lock; timers, tasklet,
work and thread run on processors of their own (weak). Nobody is forced to press, to call or to unload. The reader-writer lock
is not fair to writers; the applications' finite loops are what ends their wait.

## Findings

* `ku_ipc.c.txt:243` reads `msgsz` of a message freed at line 241; when the
  memory is reused in between, `vol` is no longer the "Total size of message
  queue" (line 35). Run `ipc_driver_stray`.
* `ku_ipc_lib.c.txt:30`: lookup and creation are separate ioctls; two processes
  create two queues with one key. Run `ipc_lib_race`.
* `simple_rcu.c:49`: `synchronize_rcu` under `my_lock`; two writers deadlock.
  Run `rcu_writers`. `simple_rculist.c:62` is the same.

Met on the way and without a violating run, because no doc, comment or test says otherwise:

* KU_IPC: the comment "Index of msg in queue" (`ku_ipc.c.txt:24`) holds only
  until the first read, which renumbers nothing. A message with an empty text,
  alone in its queue, is answered with NOVOL for ever (line 197); key 0 is never
  recognised as existing (`ku_ipc_lib.c.txt:25`), so each `msgget` creates another
  queue; a refused `msgsnd` with `IPC_NOWAIT` reports SUCCESS (line 92). The
  properties of `ipc_lib_calls` state these exceptions.
* ch8 requests the pin of its LED as an input, so it never lights.
* ch2: `mknod.sh` and the application use `ch2_dev`, the driver registers
  `ch2_mod_dev`.
* ch10 and test leave the last coils energized after the motor has stopped.

`NothingLeft`, `PinsRequested`, `FaultsOnlySo`, `EnabledWhileOpen`, `ShowExact`,
`ShaftWhereMovesSay` and `PrintsExact` hold with exceptions that are part of their statement, and the code does reach
them: the timer drivers of Lab09 and Lab10 and `simple_tasklet` can leave a
callback in a module that is gone (`simple_timer.c:41`, `simple_tasklet.c:59`),
`ch7_exit` frees its pins before its timer is deleted (`ch7_mod.c:58`), a second
detection of `ch8` hits a BUG_ON (`ch8_mod.c:32`), overlapping opens leave the
interrupt of `simple_sensor` disabled (`simple_sensor.c:21`), overlapping
readers of `/proc` garble each other's lines (`sensor_proc.c:35`), calls meet a
driver that is half loaded or already unloaded (no `.owner`; the device is added
before the data it needs, as at `ku_ipc.c.txt:320`), `backward` reads index 8 of arrays
of length 8 (`simple_motor.c:37`), two applications of ch2 lose each other's updates
(`ch2_mod_201411303.c:48`), and `simple_ultra` keeps its pins when it is unloaded.

## What is proved

All theorems are checked by TLAPS for every value of the constants that
satisfies the named assumption of the module (`KuIpcAssumption`,
`SimpleRcuAssumption`, ...), which TLC evaluates on every run.

`KuIpcDriver_proofs`. `TypeOK` and `LockOwned` are not inductive: that read
removes an existing message needs that the position found is still
valid, and that needs that nobody else is inside the lock and that closing a queue
clears the positions of those who hold it. `Inv` adds, per process, what its
call, its cursor (`CurInv`) and its position (`PosInv`) are worth at each
label. `InvInit` and `InvNext` show it inductive, one step per action. The
limits need a second invariant, `CountInv`: counters agree with the
contents, and a writer between test and append has room, which holds because it has the lock and
because CREATE and CLOSE change queues only as a whole. The volume is a sum: it is stated by a prefix-sum
function, and `AppendSums` and `RemoveSums` build the function of the changed
queue. Theorems: `TypeCorrect`, `LockDiscipline`, `SizeBounded`,
`VolumeBounded`.

Two more theorems have a hypothesis about who calls what, because without it
the code does not keep the property. `OopsNeedsClose`: in a behaviour without
CLOSE the kernel does not fault, even when CREATEs race. Its invariant
`KeptInv` says that structures which have both links stay reachable in both
directions (`ListKept`) and that no call holds anything else (`ProcKept`).
`ListStaysIntact`: when one process alone creates and closes, however many
look up, read and write, the list is one ring after every store. `RingInv` says
that `next` runs through all that is linked and nothing less (`Circle`) and
that `prev` goes back the same way, where a call between its two stores is
allowed for (`Before`); `OwnerInv` says what the creating process holds at each
step, and that its scan has every queue of its key still ahead of it.

`KuIpcLib_proofs`. Every step of the library is a system call the driver
allows or leaves the driver unchanged (`StepForm`, `LibIsDriver`), so
`LibUsesDriver` and, by the driver's theorems, `LibBounded` and
`SafeWithoutClose` (programs that do not close never fault); also
`LibTypeCorrect`. `OneOpenerOneQueue`: when one process alone opens, each key
but 0 has one queue at most; for two openers it is false, as `ipc_lib_race`
shows. `GetInv` says what the opener knows between CHECK and CREATE: that there
is no queue of its key, which rests on the driver's `OwnerInv`.

`OneOpenerImplements` is the refinement of `MsgQueue`: when one process opens
and closes and CLOSE frees no queue that another call holds (`Unheld`), what a
traversal finds for each key behaves like the abstract queues, whatever the
programs are. Both hypotheses are needed: two openers get two queues of a key
(`ipc_lib_race`), and a CLOSE under a writer whose memory a CREATE then reuses
lets the message appear in a queue that is not yet in the list. Without closes the second
one always holds (`WithoutCloseImplements`). Every program of `ipc_lib_calls`
satisfies both; `StrayReads = {}` is assumed as in `VolumeCounts`.
The queue of a key is the first of it on the way along `next`, said by the
least set a traversal must visit (`Finds`), so that no recursion is needed:
`FirstIsOne` and `FirstIsThere` show that it is unique and exists on every
circle, `FirstStays`, `FirstWithLast` and `FirstWithout` that stores which link
or unlink another queue leave it alone. A step is then one of five:
`LinkOpens` (the second store of `list_add_tail` is the abstract open),
`UnlinkCloses` (the second of `list_del` the close), `AppendSends`,
`RemoveReceives`, and `OutsideUnseen` with `ContentsIdle` for all that nobody sees.
They rest on `FirstInv` (what a read is about to take is the oldest of its
type), `HoldInv` (the others stand in the list, and a new queue is empty until
it is linked) and `CloseInv` (CLOSE takes a queue of the positive key that CHECK has
found). `ContentAssumption` says that NULL is not the content of a queue.

`OneOpenerSafe`: under the same two hypotheses no access is undefined. The scan of CLOSE
finds its queue (`ThereInv`), although the driver does not look whether it
did, and a message found by a read stays until it is removed (`FoundInv`).

Two theorems say that no message is lost or duplicated, by counting. `Conserved`
speaks of a moment at which no call is under way; to carry it through the steps
between, `SentBy` and `TakenBy` also count the calls which the driver is done with
and which have not returned yet. `StepMoves` then shows that every step moves no message,
or sends and queues one, or takes and unqueues one, or refuses one that does
not wait; `PairsGrow` and its companions are the laws of counting it needs.
`SendsAccounted` is what holds of all programs until a queue is closed: the messages
received and queued lie between the sends that waited and all sends.
`NothingIsLost` is `Conserved` itself, that is equality as long as all that was sent fits into a queue. For
this a refused send must be shown to mean too many. If the queue was full, its
messages alone are as many as were sent (`NoRoom`; the volume by
`ShareOfAll`, a least-counterexample argument in place of induction). And a write that finds no queue is impossible after
CHECK has found one: `KeyInv` keeps a queue of the key ahead of its traversal,
while `list_add_tail` links others behind it (`AheadStays`). Its hypotheses are
one opener, because two can link over each other so that a queue with messages
drops out of the list, and `StrayReads = {}`, because with a wrong `vol` a send is
refused by a queue that has room.

`SimpleRcu_proofs`. `NoUseAfterFree` is not inductive. `RcuInv` adds that
`my_lock` has one holder (`LockInv`), that readers and writers are at their own
labels (`RoleInv`), that the published number, a writer's new one and its old one
are different cells and there are no others in use (`CellInv`), and the
argument of RCU itself (`ReaderInv`): if a reader between its two looks holds the
number a writer is about to free, the writer's `synchronize_rcu` has not seen
that reader yet. When the grace period ends, no such reader is left. Theorems:
`RcuTypeCorrect`, `GraceProtects`, `NothingLeaks`; and `RcuIsRegister`, the
refinement of `SharedRegister`, where `Publish` is the abstract write,
`Dereference` and `PrintAgain` begin and end the abstract read, `ExitFree` is
its removal, and every other step a stutter.

`SimpleRwlock_proofs`. `RwInv` says who holds the lock by the labels of the
processes (`LockInv`) and that the published number, a writer's new one and
the one it has replaced are different cells in use (`CellInv`). From it
`RwTypeCorrect`, `ReadsCurrent` (no read is stale), `LockProtects` (no use
after free) and `RwlockIsRegister`, the refinement of `SharedRegister`.

`SimpleRcuList_proofs`. The links go both ways and the records are numbered
without a gap (`LinkInv`); nothing is in use outside the list but what the holder of
`my_lock` has in its hands, and a node it has taken out still leads back into
the list (`HandsInv`). A reader is in the list or on a node whose grace
period has not seen it (`ReaderInv`), it has not passed the number it looks for,
and the data of that number only grow (`FreshInv`). Theorems: `ListTypeCorrect`,
`WalksAreSafe` (`NoUseAfterFree`), `ListStaysWhole` and `FreshReads`.

`KuSnA_proofs`. `Follows` and `OneCoil` show, for all eight phases, that the
table makes the rotor follow and switches one coil at a time; `Eighths` that
k notes take k eighths of a turn, for every `ONEROUND`. `TurnInv` ties shaft,
`left`, `note`, `melody` and `state` together at each place of the handler.
Theorems: `SnATypeCorrect`, `PhaseCorrect`, `DoorCorrect`, `MelodyCorrect`,
`PinsRequested`, and the action property `TurnsOneWay`.

`SensorLabs_proofs` is about the composition `LabDrivers`. `DriverStays` and
`OnlySensors` reduce each step to those of the loaded driver. For sensor_proc
the place in the exit function decides (`ProcInv`): until the list is taken
apart it is the numbers of the detections in order, and by then entry, readers,
interrupt and handler are gone. `ShowInv` ties a reader's place to the list and
the spinlock, and what it has printed to both, when nobody else has run meanwhile
(`Printed`). That gives `ExitIsAlone` and `ShowsAreExact`. For simple_sensor,
opens that do not overlap are by one user at a time (`OneByOne`), who leaves the
interrupt disabled just once: `InterruptFollowsOpens`, and the action property
`HandlerNeedsOpen`. All hold for any number of users and of detections.

`LabDrivers_proofs` is about what the drivers of all labs have in common, and
about the programs and motors of some. `LoadInv` is one invariant for all
thirty-one. Each keeps the calls of its init or exit function that are still to
be made; `Has`, `Then`, `Once` and `Requested` say which of them there are and in which
order. While init runs and the module is used (`Up`) the pins are requested,
or `gpio_request` is ahead of every call that needs them, and what runs
beside the calls - handler, timer function - started after it. From exit on
(`Down`) everything under way still has the call ahead that ends it:
the interrupt `free_irq`, the handler `synchronize`, the timer `del_timer`, the
tasklet `unlock_wait`, the work `flush_workqueue`, the thread `wait_exit`, a
high pin `set_low`; a timer or a tasklet may have slipped through instead.
The lemmas from `CallMade` to `UnloadNext` show what each kind of call does to this
whatever the driver; `DeferredGood` to `FirstGood` check the call sequences of each
driver, once as a whole; one lemma per family puts them together. The order is
what matters: were `ch8_exit` to delete its timer before it frees its interrupt, the handler
could start the timer again; `ExitFits` says that no exit function does such a thing.
Theorems: `NothingIsLeft`, `OthersAreQuiet` (a driver with neither timer nor tasklet leaves
nothing, without exception), `PinsAreRequested` and the action
property `FaultsAreKnown`.

`PrintsAreExact` rests on one invariant per program. `CharInv` gives the number
that n calls of an application leave behind (`Stored`) and what it has printed
by then (`Prints`), as long as no other has come between; `CallDoes` checks each of their calls,
`AppStepKeeps` that another application's step either marks this one as disturbed
or changes nothing it relies on. `SpiInv` carries the sample through the two
bytes of the answer, `FirstInv` the number of mod1 through the visits of mod2.
`ShaftIsWhereMovesSay` rests on `MotorInv`: within a move the shaft is at the sum of the
moves before it plus the half steps made (`Turning`), and `simple_motor` stands one
half step behind on its way there and one ahead on its way back (`There`, `Back`).
`PhaseField` and `TurnsTo` show, for all eight phases, that the shaft turns to
the phase that is switched on from up to three half steps away; `StrayTurn`
bounds what index 8 can do.

Only model-checked: liveness and what is said under fairness, which is out of
the prover's reach.

## Plan

1. Done: KU_IPC (driver, library, abstract queue, proofs), `simple_rcu` (with
   proofs), `simple_rwlock`, `simple_rculist`, KU_SnA (with proofs), and the
   drivers of all labs, composed in `LabDrivers`.
2. Left to model: failing allocations, and the tickets of a spinlock that is
   initialised while it is held.
3. Proofs: done for every safety invariant and action property of the passing
   runs, and for the refinements.

## Not modelled, and why

The submitted KU_IPC and the first draft of KU_SnA do not compile: there is no
program whose behaviour a model could be compared with. `*.mod.c`, object
files, Makefiles and scripts are generated or carry no logic of their own. Of the
modelled parts, failing allocations, and delays as durations, are
left out as said above.
