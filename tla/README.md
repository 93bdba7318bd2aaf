# cryptodev-chat in TLA+

A model of the programs of this repository: a TCP chat whose messages may be
encrypted through `/dev/crypto`, and a virtual crypto device that forwards a
guest's `/dev/cryptodev` calls to the host over a virtqueue.

    tlasany M.tla                              parse a module
    tlc -workers 2 -config R.cfg MC....tla     one run (table below)
    tlapm VirtioCryptoProofs.tla               the proofs of a module

`PROJECT.json` lists the components, the runs, the source lines each definition
stands for, the mutations that break each property, the disagreements found and
the hazards that the properties are for.

## 1. The system

| part | source | state | operations | what makes it hard |
|---|---|---|---|---|
| guest driver, file operations | `virtio-crypto/guest/crypto-chrdev.c` | `crof` of each open file, `crdrvdata.lock`, the virtqueue | open, release, ioctl | one lock and one request at a time for all devices; busy wait; the token of `virtqueue_get_buf` and the error of `virtqueue_add_sgs` are ignored; open files shared by fork |
| guest module | `virtio-crypto/guest/crypto-module.c` | list of devices, `next_minor`, registration | init, fini, probe, remove | overlap of probes, removes, opens and rmmod; pointers kept over a remove |
| backend in QEMU | `virtio-crypto/qemu/hw/char/virtio-crypto.c` | none of its own | `vq_handle_output` | pops one element per notification |
| host cryptodev | outside the repository | descriptors and sessions | open, close, CIOCGSESSION, CIOCFSESSION, CIOCCRYPT | a close ends its sessions |
| virtio-pci | `virtio-crypto/qemu/hw/virtio/virtio-pci.c` | `ioeventfd_*`, host and guest notifiers, `vector_irqfd`, bus master flag | register and PCI_COMMAND writes, mask and unmask, stop, migration, reset | kicks and signals arrive while notifiers change hands; roll-back of what was partly set up |
| users of the device | `encrypt`/`decrypt` in `socket-common.c`, `test_crypto.c`, `test_fork_crypto.c`, `cryptodev/crypto-test.c` | a descriptor, a session | open, session, crypt, finish, close | failure or `exit(1)` in the middle, with other threads in calls |
| chat for two | `socket-server.c`, `socket-client.c`, `socket-common.c` | `newsd`, the stream | select, write a line, read a message, accept the next | both may block writing; frames are read in parts; a client may go at any moment |
| chat for many | `socket-server-irc.c` | `newsd_serve`, `locks`, `no_client`, `client_id` | accept, one thread per client, forward to all | races of main with its threads and of the threads with each other |

How they interact: a chat process in encrypted mode calls `encrypt()`, which
opens `/dev/crypto`, gets a session, runs one CIOCCRYPT, finishes the session and
closes. In a guest these calls reach `crypto-chrdev.c`, which puts a request on
the virtqueue and kicks; QEMU runs `vq_handle_output`, which does the same call
on the host's `/dev/crypto` and pushes the element back; the handler that spins
on `virtqueue_get_buf` returns to its caller. A chat message is a frame on a TCP
stream, a size and a text, or `DATA_SIZE` encrypted bytes.

What makes each part correct:

- driver and backend: a call takes effect on the host exactly once and returns
  what the host answered; sessions and descriptors stay with their owners; no
  open file is used after it is freed; every call returns.
- programs: only open and CIOCGSESSION can be refused; whatever happens, nothing
  stays open on the host.
- module: the list holds the devices that are ready, with different minors; a
  handler finds its device; rmmod ends and leaves nothing behind.
- virtio-pci: no kick is lost while notifiers are set up, handed over or taken
  down, and no interrupt while they are set up, masked or polled (when a backend
  stops, what only a masked notifier holds is lost); what fails half-way leaves
  nothing; nobody serves the queues of a driver that is not ready.
- chat for two: not both ends stuck writing; reads start at a message; the server
  goes on with its next client.
- chat for many, as long as each thread serves a client of its own: each client
  gets whole messages of the others, once, in order; a distribution ends; what
  arrives is printed; the server does not end without a reason.

## 2. The modules

    HostCryptodev            what one request does to the host's /dev/crypto
      CryptoCalls            entering, serving and leaving a call: the data
        CryptoService        the same steps as an atomic service (abstract)
          CryptProgram       encrypt()/decrypt() and the test programs on it
        VirtioCrypto         ... with the driver's lock, virtqueue, backend
    CryptoModule             init, fini, probe, remove, lookups
    ProxySteps               a handler of virtio-pci.c as a list of steps
      HostNotifiers          the way of a kick: ioeventfd, a vhost backend
      GuestNotifiers         the way of an interrupt: MSI-X, irqfd, masking
        VirtioPci            the proxy with both: registers, machine
    Chat                     socket-server and socket-client
    IrcServer                main and the threads of socket-server-irc
    MC<module>               the module for TLC: symmetry sets
    CryptoCallsProofs        what the steps of a call do to the data: lemmas
      CryptoServiceProofs    theorems of the service
        CryptProgramProofs   ... of the programs on it
      VirtioCryptoProofs     ... of the driver; that it implements the service,
                             with what follows
    CryptoModuleProofs, IrcServerProofs, ChatProofs, VirtioPciProofs
                             theorems

Definitions called "Variant" in a comment belong to no specification. They are
what the code would be with a typical mistake in it, and show that a property
can fail.

**HostCryptodev.** A request is a record: the buffers of one call that guest and
host share. `HostOutcomes(h, r)` is the set of results of `vq_handle_output` for
a request `r` in host state `h`, by command. The host may refuse an open or a new
session for any reason; `-1` on an existing session means that the session is
not there. `OTHER` is every ioctl the code has no case for: nothing is done and
`host_return_val` stays the 0 of `kzalloc`.

**CryptoCalls.** Variables: `host`; `crof` (per open file, `host_fd` or not
allocated); per task its descriptor `fd`, the open file `cur` of the call it is
in, the buffers `req`, what its memory holds (`ses`, `key`, `out`), and `result`.
One operator for each way to enter a call (`EnterOpen`, `EnterIoctl`,
`EnterRelease`), to fail before the host is asked (`RefuseOpen`, `FaultIoctl`), to
be served (`Serve`) and to return (`LeaveOpen` ... `LeaveOther`), plus `Fork` and the
close of a descriptor that others share. A task names only a session it got
itself and has one at a time, as all programs of the repository do.

**VirtioCrypto.** `pc` follows a handler:

    user -> (lookup ->) spin -> submit -> poll -> unlock -> finish -> user

`SpinLock` is `spin_lock_irqsave`, `Submit` is `virtqueue_add_sgs` (whose error is
dropped when the ring is full) and `virtqueue_kick`, `GetBuf` an iteration of the
wait that finds something - anything: it takes the head of `used`, whosever it
is -, `Finish` the copies to the caller. `HandleOutput` runs once per notification
(`kicked`). The lookup of open waits for the lock too.

**CryptoService.** The same steps with no lock and no ring: a task is in user
space, has called, or has been served. `ImplementsService` maps `pc` and `used` to
these three; the moment of service is the push to `used`.

**CryptProgram.** `step` is the call a program makes next. `Fail` is what a refused
call does: `exit(1)` or the return from main, except in `crypto-test.c`. `Reap` is
the kernel closing what an ended process has open, after its other threads have
left their calls. `text` is the program's data: plain, encrypted with a session, or
garbage. No copy from or to the buffers, which are on the stack, faults.

**CryptoModule.** A device goes from present through `ProbeAlloc`, `ProbeFindVq`
and `ProbeList` to listed and through `RemoveUnlist` and `RemoveFree` to freed; a
replugged device is a new number. `mod` follows init and fini. A task opens a
node, looks the device up, and uses the pointer in calls with the lock held.
`hotUnplug` and `earlyOpen`, chosen by `Init`, say whether devices are removed while
the module stays and whether nodes are opened while init still runs: two
environments in which the code goes wrong (section 7).

**ProxySteps, HostNotifiers, GuestNotifiers, VirtioPci.** A handler of
`virtio-pci.c` runs under QEMU's global lock and is a list of steps, `todo`: an
action takes the first one and may put others (a call, the next round of a loop,
an error path) before the rest. Steps are as small as others can tell: between
them CPUs of the guest kick (`Kick`), KVM signals, and a backend with its own
thread reads and signals notifiers. What needs the lock waits for `Idle`.

- `HostNotifiers`: `hn[q]` is the host notifier of a queue with its reader and
  whether KVM signals it; a kick sets it or, on the slow path, leaves its CPU in
  `trapped` until QEMU has the lock. `work` are the kicks not answered yet.
  `AssignNext`, `AssignError` and `UnassignNext` are the loops of ioeventfd, `TakeNext`,
  `TakeOpen` and `GiveBack` those in which a vhost backend calls
  `virtio_pci_set_host_notifier`.
- `GuestNotifiers`: `gn[q]` is the guest notifier of a queue, the vector the queue
  has and `due`, whether there is an interrupt the guest has not had ("yes"), or one
  that it will not get ("lost": `OnlyMasked`, when the backend stops); `vec[v]` the mask and pending
  bits and both use counts of a vector. `SetGuestNext`, `VectorUseNext`,
  `SetVectorNotifiers` build up, `Failed`, `Undo`, `VectorReleaseNext` take down. A
  `SetVectorNotifiers` that fails at a queue first unmasks those before it and then
  masks them again (`UnmaskedBefore`, `MaskedAgain`).
- `VirtioPci`: the handlers, each an `Enter` of its steps, and the machine. The
  crypto device is served by QEMU and uses ioeventfd only. The file serves vhost
  devices too, so `Init` chooses whether there is a backend in the kernel, how
  interrupts travel (`intr`), whether the backend can mask (`canMask`) and
  whether ioeventfd is on. `Migrate` replaces the proxy by one that has loaded
  what was saved. msix.c, virtio.c, vhost, KVM and the main loop are external.

Of the guest the model assumes what drivers do: one CPU at a time kicks a queue
(`crypto-chrdev.c` holds its lock), vectors are written before DRIVER_OK, MSI-X is
switched on before the device is used. The kick before DRIVER_OK, which a probe
that lists its device early makes possible (crypto-module.c:70), is included.
CPUs may kick while a machine reset takes its steps, which is more than QEMU allows.

**Chat.** Both processes run the same loop, `Step`: select, at most one line
written (two pieces), at most one message read (two pieces). `inbox` are the
pieces on their way to an end of a connection, of which `arrived` can be read.
`Window` is how many pieces a direction holds before a write blocks. With `Delay`
pieces take time to arrive; without, both processes run on one host and a piece
can be read when it is written. Data for an end that was closed is answered with
a reset, and a process that ends with unread data resets too. A process may be
stopped by its user (`Quit`) or ended by `/dev/crypto`: `EncryptFails` before a line is
written, `DecryptFails` with a message that is read and not printed.

**IrcServer.** `mpc` is main's loop (`Accept`, `Spawn`, `Count`); `th[i]` the thread
that main started as number i, with the `id` it read from `client_id` (perhaps too
late: `Start`), the descriptor it uses and its place in `forward`. `tab` is the
descriptor table with the terminal at 0, since `CloseNext` closes the wrong entry.
A read in progress keeps its file (`ref`), as a blocked `read` does. `down` keeps
everything that was ever written to a client, of which `unread` pieces wait.

Two threads with one number read the same connection. From then on a piece may be
the wrong part, or half of one: `ReadTorn` takes it, the thread goes on with garbage
(`NoMessage`), prints it and forwards it, or leaves because a size was 0; a size that
is beyond memory or the buffer ends the process (`GarbageFails`). `ended` is why the
process ended: a read or write on a connection that was reset ("reset") or on a closed
descriptor ("closed"), garbage, or what `Failing` allows to fail: accept, malloc
(`OutOfMemory`), encrypt() and decrypt() (`CryptoFails`).

A client is one loop as in `Chat`: it does not read while it is in a write of its own
(`Receive` waits for `sending`), nor write between the two parts of a frame (`MidFrame`).
Clients and threads can therefore block each other: `Blocked(S)` is a set of clients
that are all in a write with nothing but full connections around them, whose threads
wait for clients of the same set.

## 3. The runs

States and times are of one run with two workers.

| run | what it asks | states | time |
|---|---|---|---|
| `virtio_safety` | two tasks, two open files, two host descriptors, two sessions, ring of 2: all safety invariants of the driver, and that it implements `CryptoService` | 693k | 45 s |
| `virtio_live` | two tasks on one open file: every call returns | small | 11 s |
| `program` | two tasks, each of the four programs: what may fail, what is left, that all end | 32k | 10 s |
| `module` | two tasks, three plugs, two minors, with and without unplugging and early opens | 390k | 32 s |
| `irc_safety` | three clients, two messages in all, `--encrypted`, nobody leaves, until two threads serve one client | 426k | 30 s |
| `irc_live` | two clients of which one may leave, two messages, `--encrypted`, one piece of room, accept, malloc and `/dev/crypto` may fail: types, locks, what arrives is printed, a distribution ends | 262k | 130 s |
| `chat_pair` | one client, six lines each way, three messages of room | 3.7M | 41 s |
| `chat_live` | two clients of which one may quit, one line each, one piece of room, slow delivery, `/dev/crypto` of a client and the server may fail: liveness | 19k | 4 s |
| `pci` | three queues, two vectors, with and without backend, masking and ioeventfd, INTx, MSI-X and irqfd, any set-up step may fail: kicks (with INTx), interrupts, ownership, roll-back | 5.8M | 90 s |
| `doc_open` | violated: crypto-chrdev.c:127 "If host failed to open() return -ENODEV." | | |
| `irc_broken` | violated: socket-server-irc.c:177 "Make sure a broken connection doesn't kill us": a client leaves with unread data, its thread's read fails, exit(1) at :84 | | |
| `irc_leak` | violated: socket-server-irc.c:156 "Make sure we don't leak open files" | | |

What may differ from one environment to another and stays the same within a
behaviour is chosen by `Init` where one run can cover it: `program` in
`CryptProgram`, `hotUnplug` and `earlyOpen` in `CryptoModule`.

**Why these bounds.** In the driver the lock admits one handler, so two tasks give
every overlap of one task's critical section with another's entry, exit, fork or
release; two files, descriptors and sessions are what it takes to confuse one with
another. A ring of 1 or 2 is shorter than the real 128: a property that holds
because requests are never queued must hold on the short one. In the server two
threads race for a client's semaphore, and a third client is needed to receive.
`irc_safety` has two messages in all, so that both may come from one sender (order)
or from two (interleaving). Three plugs with two minors are one more than the
region holds. With three clients a message has two receivers, which get it under one
and two encryptions (`CopiesLayered`). The two clients of `irc_live` are enough for a
thread to block on a client that leaves. With the two messages of that run, and until
two threads share a number, `Stuck` needs a client that no thread serves yet or any
more. That two clients and their threads block each other takes two messages of each,
one in the client's write and one in its thread's hands: with `MaxSends` = 4, nobody
leaving or failing and the constraint `NoSharedId` (189k states), they do, and
`DistributionEnds` holds there as well.

`irc_safety` has the constraint `NoSharedId`: once two threads serve one client they
always do, and then `WholeOnce`, `SenderOrder`, `EndsForReason`, `CopiesLayered` and
`DistributionComplete` claim nothing more. What the server does beyond that is explored
by `irc_live`, which has no constraint: do types and locks stand it, and does the
distribution of what was torn end?

With the three queues of `pci` a set-up fails at the first, a middle or the last one,
and of two vectors some queues share one and another has its own or none. The guest
kicks only in the behaviours with INTx: `work`, `trapped` and whether a host
notifier is set or clear matter to `KickPending` alone, and the other actions only
ask that `trapped` be empty, so every state of the rest is there; that kicks arrive
with MSI-X too, and for any number of queues, is proved (section 5).
Nothing else is bounded: the guest, the machine and the backend may go on for ever.

**Mutual blocking in the chat.** `NoMutualBlock` depends on the room in the
connection and on its speed. With room for three messages and no delay it holds
(an iteration writes at most one message and reads one that select has seen, so
neither end gets more than three ahead); with room for four or five pieces the same run finds
both ends in `insist_write`, and with `Delay` no fixed room is enough once enough
lines are typed. A real socket buffer holds many chat messages. `chat_live` runs
in the small, slow configuration and allows for the block explicitly.

**Stopping.** The driver and the proxy never stop; the `virtio_*` and `pci` runs check deadlock. The other
runs switch the check off where the system may stop: the bounded number of
messages, lines or plugs is used up, a process has ended or the module is gone.

## 4. Fairness

- `VirtioCrypto`: weak fairness of the backend (QEMU's main loop runs when
  notified) and of every handler's step (kernel code with interrupts off is not
  abandoned). Strong fairness of `SpinLock` and of the lookup: Linux spinlocks of
  this kernel are ticket locks, granted in order of arrival. Nothing is assumed of
  callers.
- `CryptProgram`: a program that has begun runs on. Nobody has to begin.
- `CryptoModule`: fini, a probe, a remove that rmmod has begun and the handlers run.
- `Chat`: processes run and data arrives; nobody has to type, connect, quit or fail.
- `IrcServer`: main and the threads run; a client that has not left and is in no
  write of its own reads what it gets, and goes on with a write once there is room.
  Strong fairness of `Acquire`: a waiter of a semaphore that is posted again and again
  gets in. Nothing has to fail, leave or be sent. That a blocked client reads is not
  assumed: `DistributionEnds` and `MessagePrinted` except a thread that is `Stuck`.

- `VirtioPci`: none; all its properties are safety.

## 5. What is proved

Every theorem holds for all values of the constants that satisfy the assumptions
the modules name: `HostFdsAssumption` (descriptors are numbers), `NoneAssumption`,
`CallersAssumption` and `NamesAssumption` (`None` and the like are no descriptors,
tasks, files or clients), `RingSizeAssumption` (the ring has room for one request),
`ClientsAssumption` (finitely many clients), and bounds that are numbers. Theorems
about a server whose clients do not leave say so: `ASSUME Leavers = {}`.

| module | theorem | property |
|---|---|---|
| `VirtioCryptoProofs` | `TypeCorrect` | `TypeOK` |
| | `Exclusion` | `LockInv`: mutual exclusion of the critical sections (no run of its own; without it `SingleOutstanding` fails) |
| | `OwnRequest` | `SingleOutstanding`: a handler gets its own buffer back, the ring never overflows |
| | `NoUseAfterFree` | `FilesOwned`: no open file is freed while in use |
| | `DriverImplementsService` | `ImplementsService`: the refinement |
| | `HostFdsStayOwned`, `CryptsSucceed`, `SessionsStayPrivate` | `HostFdsOwned`, `CryptSucceeds`, `SessionsPrivate` |
| | `DriverLeavesNothing` | nothing of a caller that has gone is open |
| `CryptoServiceProofs` | `ServiceInvariance` | the inductive invariant of the service |
| `CryptProgramProofs` | `ProgramTypes`, `FailuresAreEarly`, `ProgramsLeaveNothing` | `TypeOK`, `FailsEarly`, `NothingLeft` |
| `CryptoModuleProofs` | `ModuleTypes`, `ListStaysSound`, `NoFileOutlivesDevice`, `CleanUnload` | `TypeOK`, `ListSound`, `DeviceAlive`, `NothingBehind` |
| `IrcServerProofs` | `ServerTypes`, `LocksStayExclusive`, `EndsOnlyForReason` | `TypeOK`, `LocksExclusive`, `EndsForReason` |
| | `CopiesStayLayered` | `CopiesLayered` |
| | `WholeUntilOneLeaves`, `WholeWhereNobodyLeaves` | `WholeOnce` |
| | `DistributionIsComplete` | `DistributionComplete` |
| | `OrderUntilOneLeaves`, `OrderWhereNobodyLeaves` | `SenderOrder` |
| `ChatProofs` | `ChatInvariant` | the inductive invariant of the chat |
| | `ChatTypes`, `EndsStayInStep` | `TypeOK`, `InStep` |
| | `NeverMuchInFlight` | how far both ends together may be ahead, on one host |
| | `NeverBothStuck` | `NoMutualBlock`, for every `Window >= 6` |
| `VirtioPciProofs` | `KicksArrive` | `KickPending` |
| | `PciInvariant` | the inductive invariant of the host notifiers |
| | `NotifiersAllOrNone`, `OnlyServedWhenReady`, `BuggyGuestsKnown` | `HostAllOrNone`, `ServedWhenReady`, `BuggyGuestKnown` |
| | `GuestInvariant` | the inductive invariant of the guest notifiers |
| | `GuestNotifiersAllOrNone`, `InterruptsKept` | `GuestAllOrNone`, `InterruptKept` |
| | `StepsAreAllowed`, `TypeCorrect` | `StepsAllowed`, `TypeOK` |

**The driver.** None of the first four is inductive. `SingleOutstanding` needs
`LockInv` (only the holder of the lock submits or polls, so nothing is on the ring
when it submits) and `LockInv` needs nothing but itself and types; `FilesOwned` needs
`OneCall` (a task in user space is in no call, one in lookup is opening) and, for the
step of the backend, `SingleOutstanding` and the fact that serving a request keeps
its command. The inductive invariant is `DriverInv`, their conjunction. The proof has
a step for every action. What a step does to the data is proved once, in
`CryptoCallsProofs`, without any control: `StartsKeepInv` and `ContinuesKeepInv` say
that the entries, and the later steps of a call, keep `CallsTypeOK /\ FilesOwned`.

**The refinement.** Under `DriverInv` each step of a handler or of the backend is a
step of `CryptoService` or changes none of its variables: entries are calls, the push
to `used` is the service (`SingleOutstanding` makes it that of the task that polls),
the copies to the caller are the return, and lock, submission and polling stutter.
`ServiceInv` is inductive for the service: besides types and `FilesOwned` it says which
host descriptor each open file or unfinished open has, each its own (`FdsOwned`), that
a session is alive behind its open file (`SessionsOwned`), that a request stays what its
caller asked and what its answer means (`RequestKept`, `Answered`). The theorems about the service are instantiated
with the driver's status (`Promise`), so that `HostFdsOwned`, `CryptSucceeds` and
`SessionsPrivate` follow for the driver without a second look at lock or ring.

**The programs.** `ProgramInv` adds to `ServiceInv` that the call a task is in is the
one of its step (`CallOfStep`) and what its buffers hold at each step (`TextOfStep`).
`FailsEarly` follows from `CryptSucceeds`; `NothingLeft` from the service's
`NothingLost` and the kernel's close for processes that end in error.

**The module.** `ModuleInv` relates the list to the states of the devices, the minors
given to the devices that were probed (`next_minor` counts them, so that they
differ), the pointers of handlers and files to listed devices unless devices are
unplugged, and the registration to the phases of init and fini.

**The server.** `ServerInv` holds whatever clients do and whatever two threads have
read of one connection. It counts: the accepted connections are those main has counted
and the one it is about to count, each has one descriptor, so while one waits a
descriptor and a slot are free. It says which slots main has given to threads, and
where a thread can be with its semaphore and with how many encryptions of its buffer.
`ChatInv` adds what holds until a client leaves or two threads take the same number,
`TogetherInv` and `InOrder`: every slot has a client of its own and every thread reads
from its own; a message is in one place, waiting, in one thread's buffer or forwarded;
the clients that have got it are those before "to"; a client has half a message only
while the thread that holds its semaphore writes the rest; no buffer and no stream
holds garbage, as frames are complete in a client's stream and a thread resumes where
the frame goes on; the numbers of a sender rise from what its receivers have, through
what its thread carries, to what waits and what it will send; and a copy has one
encryption for each slot up to the receiver's but the sender's. From this come whole
messages, once each, in order, complete distributions, the layers of
`CopiesStayLayered`, and that no read and no write fails (`EndsOnlyForReason`).

Neither condition is for the proof's convenience. A thread of a client that left closes
`newsd_serve[no_client]`, which may be the terminal (section 7), and from then on
messages are printed into the middle of others. Two threads that read one connection
forward garbage.

**The chat of two.** `ChatInv` holds whoever quits or fails and however long pieces travel.
`LinkInv` says who has which descriptor open: a client is accepted once, in the order
of the backlog, and has nothing to read before, so that a connection starts with a
head (socket-server.c takes the next client with the same `newsd`). `CountInv` bounds
a stream by the terminal at its other end: printed, half read, waiting and owed
pieces are at most twice the lines read there. `StreamInv` is the alternation of
parts, for every end that is open; `InStep` is that with the reader's place. `PairInv`
looks at the last part instead of the first: while both ends are open, a message is
incomplete only while its writer is before the body.

`NoMutualBlock` does not follow from what is in the streams now. Each iteration writes
at most one message and reads one if select saw the socket readable; a process for
which nothing had arrived writes without reading. `Gain(p)` is what the rest of p's
iteration can add to the pieces of both directions. Writing and reading leave pieces
plus gains as they are; only a select that finds nothing raises the gain, by two, and
then p's direction was empty, so that both directions hold no more than one window.
`NearInv` therefore keeps pieces plus the gains of both ends at `Window + 4` or less.
Two blocked writers have filled both directions, with `2 * Window` pieces and gains of
-1 or more: too many for a window above six. At six the parts decide: with an even
window a blocked writer is before the head of a message (`PairInv`), where its gain is
not negative.
The theorem has two hypotheses, those of the property's own statement: pieces can be
read when they are written, and a direction has room for three messages. Without
the first a select may miss what is on its way, and `chat_live`, whose pieces take
time, does not claim it.

**virtio-pci.** `KickInv` adds to `KickPending` only the shape of `hn` and
`work \subseteq Queues`. The argument is local: `OpenNotifier` leaves the notifier
set, `Kick` leaves a CPU or the notifier, and `Flush` looks at what it closes; that
KVM has let go of the notifier before is what makes the other properties of the run
hold, not this one.

The other properties of the host side need to know what a handler still has to do.
`PciInv` says it of the list of steps. `TodoInv`: each step may be followed by the
next one, or be the last, as the relation `After` has it; the relation is about two
steps at a time, so that a step that replaces itself by others has to look at its own
list and at the one step behind it (`ThenKeepsTodo`). `ReadyInv`: where a step needs a
ready driver, it is ready and no `set_status` comes before the step, or the step just
before is the `set_status` that decides. `OpenInv`: nothing but a stopping ioeventfd
comes before a backend's `open`. `HeadInv` relates the first step to the notifiers: a
loop that opens has those of the earlier queues and no other, a loop that closes has
the later ones left or the earlier ones, and so on for each kind of step (`Span`,
`SpanBut`); with no step left all are QEMU's, all are the backend's or all are closed,
as `started` and `active` say (`Settled`), and they are served only when the driver is
ready. `FastInv` says that KVM signals only open notifiers, `StatusInv` types the
status. `HostAllOrNone` and
`ServedWhenReady` are `HeadInv` with an empty list. The steps of the guest notifiers
leave the host notifiers as they are, but their lists end in a backend that starts or
gives the notifiers back, so their control is part of this proof. `BuggyGuestKnown` is
proved with `BusInv`: a guest that is ready, or is about to be made so by the first
`set_status`, is known or will not stay ready; it needs that only the handlers that set
a status do (`Quiet` lists).

The guest half rests on `GuestInv`, which is inductive together with `PciInv`. None of
the four properties is inductive: in the middle of a set-up, of its undoing or of an
unmasking the notifiers are neither all there nor all gone, and what each step may do
depends on how far the loop has come. Five predicates read that off the first steps of
the list: `Assigned(q)` (the notifier is open: a set-up has passed q, or a taking down
has not), `RoutedNow(q)` (it holds its route), `Serving` and `Watched` (the set-up is
complete, and msix calls the proxy), and for an unmasking `Waits(q)`, `Tests(q)` and
`Fires(v)` (what `virtio_pci_vector_unmask` has left for the queue and the vector).
Then:

- `QueuesInv` gives each notifier's eventfd, handler, irqfd and `onMasked` (whether a
  signal reaches the masked notifier) by these predicates, with and without masking
  notifiers, with and without irqfd.
- `VectorsInv` counts: msix's `used` is the cardinality of the queues that share the
  vector, the proxy's `users` that of those with a route. A release therefore finds a
  user, and the counts stay between zero and the number of queues. `TypeOK` follows
  from this and not the other way round: `GuestShape` only says that they are integers.
- `FlagsInv` says when `vector_irqfd` is allocated and when msix has the proxy's
  functions, and that a taking down follows the way of the set-up. `UnmaskingInv` says
  that the list of an unmasking is about one vector, unmasked by the guest.
- `DueInv` says where a signal is that the guest has not heard of (`due` = "yes"): in an eventfd with a
  reader, pending in msix, or in the masked notifier or the eventfd without a reader,
  and in the last three cases the vector is masked or a step still to come looks there.

The proof has a lemma for each step (`VectorUseKeepsGuest`, `VectorUndoKeepsGuest`, ...). What
a step does to one notifier is told by `Steady`, `SetsPath`, `SetsDue` and the like, so
that records are looked at once; how it changes a count is a lemma about the
cardinality of a subset of the queues with one more or one less. `GuestAllOrNone` and
`InterruptKept` are `GuestInv` with an empty list; `StepsAllowed` is read off
`GuestInv` at each step, and for the host notifiers off `HeadInv`.

Only model-checked is all liveness (`virtio_live`, `program`, `module`, `irc_live`,
`chat_live`), which the
prover does not do. Every invariant of a passing run is a theorem.

## 6. Not modelled

- Of `virtio-pci.c`: reading registers and the ISR, the level of INTx (an interrupt
  is heard at once), features, the configuration vector, endianness, plugging and
  the device classes with their properties, most of the file's length. A failing
  `kvm_irqchip_update_msi_route` or an irqfd that cannot be added when the guest
  unmasks: msix.c asserts that it does not happen. Vectors of a running device do
  not change, though virtio-pci.c:339 would let a guest change them. In VirtioCrypto the way of a kick stays the flag `kicked`, which
  `KickPending` justifies.
- Memory: kernel buffers that early returns leak are not counted, and `kzalloc`
  without a check does not fail except for `crof` and `crypto_device`.
- `crypto_chrdev_read` (always -EINVAL), the empty callbacks of the backend.
- Failures of a live host session other than its absence.
- `socket`, `bind`, `listen` that fail, and `accept` in `socket-server.c` (the program
  ends at once), readline below the level of a line, end of input on the terminal.
- In `IrcServer` the descriptors that `encrypt()` opens for a moment; they would
  only make the descriptor that a next accept gets harder to tell. Bytes: a frame
  is two pieces, and a torn piece leaves one rest. Signals other than SIGPIPE.
- Lengths: a message fits its buffers.
- Build files and scripts.

## 7. Where the code differs from its comments

Three runs show one each: `doc_open` (open succeeds when the host's open failed, as
the pointer `host_fd` is tested and not the descriptor), `irc_broken` (a read from a
connection that its client reset ends the server for all), `irc_leak` (a thread closes
`newsd_serve[no_client]` and leaves the descriptor of its client open). The model shows more, which
has no run of its own:

- An ioctl that the driver does not know returns 0 (crypto-chrdev.c:309-312): the
  command `OTHER` changes nothing and leaves `host_return_val` at 0.
- CIOCGSESSION gives the caller its `session_op` back with the key pointer replaced
  by an address in QEMU (virtio-crypto.c:104, crypto-chrdev.c:335): `key`.
- `socket-server-irc.c:124` encrypts the same buffer again for every receiver, so the
  second one decrypts garbage: `CopiesLayered` says exactly how often.
- main may store the next number in `client_id` before a thread has read the last
  (`:220`, `:147`): two threads then serve one client, tear its frames and forward
  garbage, and another client has no thread: `SharedId`, `ReadTorn`.
- A client that is in a write does not read, and the thread that should read from it
  may wait to write to it, or for another thread in the same position: `Blocked`.
- After `CloseNext` has closed descriptor 0, accept gives it to a client, and
  `:110` sends it the bare text of the messages: pieces `raw`.
- The eleventh client is stored behind the arrays of MAX_CLIENTS (`:211`).
- A device that is unplugged is freed while open files point to it
  (crypto-module.c:97): `DeviceAlive` holds only without unplugging.
- The character device is live before its list and lock are initialised
  (crypto-module.c:131-138): label `oops`.
- A probe that finds no virtqueue keeps its allocation (`:59-62`): state `lost`.
- Minors are never given back (`:71`): with replugs they leave the region of
  `CRYPTO_NR_DEVICES`, and such a device has no node.
- `cryptodev/crypto-test.c:180` compares the 1 of a failed test with `< 0` and exits
  with 0: `Fail`.
- A set-up of guest notifiers that fails leaves `vector_irqfd` allocated and
  `nvqs_with_notifiers` set, though virtio-pci.c:863 says "Recover by undoing for VQs
  0 .. n": `irqfds` may be TRUE with no backend. Nothing else is left
  (`GuestAllOrNone`).
- When a backend stops, virtio-pci.c:813-821 unsets the vector notifiers without the
  poll that msix.c makes of masked vectors. A signal that only the masked notifier of
  a queue holds is then lost, also if the machine goes on later: `due` = "lost", the
  exception of `InterruptKept`.
- When `virtio_pci_set_host_notifier` fails for the first queue, no call gives it
  back and `ioeventfd_disabled` stays TRUE (virtio-pci.c:878): kicks arrive, but on
  the slow path until a backend starts and stops, or a migration.
- `socket-server.c` ends when its client resets the connection, like the other
  server: `NextServed` allows for it.

## 8. Plan

Done, in this order: `HostCryptodev`, `CryptoCalls`, `VirtioCrypto`,
`CryptoService` and the refinement, the proofs about them, `IrcServer`,
`CryptoModule`, `Chat`, `CryptProgram`, `VirtioPci` with its two parts and the
theorem about kicks; then the proof of the refinement and the theorems of the service,
the programs, the module, both chat servers and the host and guest notifiers of
virtio-pci.

What would extend the project: the ISR and the level of INTx in `VirtioPci`, with the
configuration vector, and the devices of `VirtioCrypto` on top of the proxy's notifiers
in place of the flag `kicked`.
