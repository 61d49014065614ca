# A TLA+ model of the MTX teaching kernel

The repository holds the labs of an operating systems course: eight programs, each a step further
than the last one, that grow a 16-bit real-mode kernel ("MTX") from a boot loader to a system with
processes, system calls, fork and exec, pipes, a clock, semaphores, serial ports and user programs.
Every lab has its own copy of the kernel. This directory models the kernel in TLA+, model-checks it
with TLC on small instances and proves what matters most with TLAPS for every instance.

## 1. The system

| Part | Source | State | Operations | Meets the others through |
| --- | --- | --- | --- | --- |
| process lists | `que.c` (same text in labs 2-7) | the `next` fields of PROCs | `get_proc`, `put_proc`, `enqueue`, `dequeue` | called by everything below |
| process switching | `2-tswitch/{t,kernel,wait}.c`, `ts.s` | `proc[]`, `running`, `freeList`, `readyQueue`, `sleepList`, `nproc`, `rflag` | the commands of `body`; `scheduler`, `ksleep`, `kwakeup`, `kexit`, `kwait`, `kfork`, `chpriority` | shared `proc[]` and lists; `tswitch` |
| system calls | `3-syscalls/{int,kernel}.c`, `ts.s` | user mode, the word of the user frame that takes the result | `int80h`, `kcinth`, `goUmode` | calls the kernel functions |
| fork and exec | `4-fork-exec/{kernel,int}.c`, later `forkexec.c` | segments, user stacks, frames, command lines | `fork`, `kexec`, `khop`, `copySegment` | creates PROCs through `kfork` |
| pipes | `pipe.c` (same text in labs 5-7) | `pipes[]`, `oft[]`, `PROC.fd[]` | `kpipe`, `kreadpipe`, `kwritepipe`, `kclosepipe`; `fork` shares descriptors | `ksleep`/`kwakeup` on `&pipe->data`, `&pipe->room`; `kexit` |
| midterm kernel | `5-midterm` | all of the above in one state | the console and every system call | a call that sleeps answers its program later |
| timer | `6-timer-interrupts/timer.c` | `tick`, the clock, the timer queue `tq`, `PROC.time` | `thandler` (interrupt), `kitimer` | `kwakeup` and `tswitch` from an interrupt |
| semaphores, serial ports | `7-semaphores-serial/{pv,serial}.c` | semaphore queues, `stty[]` buffers | `P`, `V`, receive and transmit interrupts, `ksin`, `ksout` | `readyQueue` from interrupts |
| video | `vid.c`, `draw_clock` of `timer.c` | video RAM, origin, row, column | `putc`, `scroll`, `set_VDC` | `unlock()` turns interrupts on; the clock is drawn from one |
| init, login, shell | `8-final/{init,login,sh}.c` | descriptors of user processes | redirections and pipelines, respawning logins | system calls of an external kernel |
| filters, library | `8-final/{cat,grep,more,ucode}.c` | none | reading lines | descriptors 0 and 1 |
| console i/o | `bio.c` | `BASE` | `printf` and friends, `gets`, `strcmp` | everything prints |
| boot loader | `1-booter` | the disk address packet | `getSector`, `main` | hands over to the kernel |

What is hard about it:

* **Sequences of legal calls.** The kernels of labs 2 to 5 are not preempted: a process keeps the machine from
  one `tswitch` to the next, so that the hazards there are long sequences of commands of several processes
  that lead to a state nobody thought of: a list that names a process twice, a zombie nobody waits for, a
  ready queue that runs empty under `scheduler`, a process that returns to user mode in another one's segment.
* **State kept over a sleep.** `kwait`, `kreadpipe` and `kwritepipe` go on after `ksleep` with what they
  knew before: `found`, a pointer to a pipe, how much was already transferred.
* **Reuse.** PROCs, segments, OFTs and PIPEs are used again, and neither `kexit` nor `kfork` clears them.
* **Interrupts** (labs 6 and 7): `thandler` and `do_rx` touch the lists that the interrupted kernel code
  is changing, and `unlock` turns interrupts on regardless of what they were.
* **Failures of one step among several** (lab 8): a `fork` or an `exec` that fails leaves its caller to go on with
  what was meant for a child.

Correctness, per part: a list holds each process at most once and in order of priority; every PROC is on
exactly the list its status says; somebody can always run; a process is always somebody's child, dies once
and is laid to rest once, by its parent of the time, who is woken for it; a process comes back to user mode in its own
image, with its own result, on its own stack; a pipe carries bytes in order and
loses none while it is held; a pipe is not given back under its users and wakes who can go on; a
timer of at least a second fires when it should, once; a semaphore's value counts its queue; what is typed on a serial line is
what is read; what is printed is what is shown; a pipeline joins neighbours and ends; each terminal has one session, always.

## 2. The modules

| Module | What it is |
| --- | --- |
| `Que` | `que.c` on sequences of PROCs, as operators. Recursion is by fold, so that proofs can use it. |
| `ProcKernel` | the kernel of lab 2: one variable per global and per PROC field that matters, one action per command |
| `ProcLife` | abstract: a process is forked by a living one, dies leaving its children to P1, is buried by its mother |
| `ProcKernelProofs` | what `enqueue`, `dequeue`, `put_proc` and a loop of `enqueue`s return; the inductive invariants of `ProcKernel`'s lists and statuses and of parents, children and waiters; that equals take turns, and that it implements `ProcLife` |
| `SyscallKernel` | user mode and system calls over `ProcKernel`: what labs 3 to 5 share |
| `ForkExec` | segments, frames, fork, exec and hop over `SyscallKernel`: the kernel of lab 4 |
| `UnixProcess` | abstract: a process has a program, a command line and a last result, and only its own calls change them |
| `ForkExecProofs` | lab 4 runs `ProcKernel`, frames stay own, stacks stay in their segments, how far those of lab 5's layout go, and lab 4 implements `UnixProcess` |
| `Pipe` | the PIPE object: a circular buffer and its counters |
| `PipeChannel` | abstract: a FIFO channel of bounded capacity that exists while somebody holds it |
| `PipeKernel` | pipes and shared descriptors on top of `ProcKernel`: the kernel of lab 7 without interrupts |
| `PipeProofs` | the counters and the rings of the pipes, who sleeps on them, and that `PipeKernel` implements `PipeChannel` |
| `Midterm` | the kernel of lab 5: `ForkExec` and `PipeKernel` in one state |
| `MidtermProofs` | in lab 5 pipes, sleepers, frames and stacks are as sound as apart, and it implements `UnixProcess` and `PipeChannel` |
| `TimerAlarm` | abstract: each process asks for seconds, each second counts for everybody who waits, and who asked for none wakes nobody and lets nobody be woken |
| `TimerKernel` | time slices and the timer queue on top of `ProcKernel`: the kernel of lab 6 with its clock interrupt |
| `TimerProofs` | the sums of the timer queue's differences, modes and slices, what may hold up the queue, and that `TimerKernel` implements `TimerAlarm` |
| `Semaphore` | a semaphore's value and queue, as operators |
| `SerialKernel` | reading lines from a serial port on top of `ProcKernel`: the receive interrupt of lab 7 and `ksin` |
| `SerialProofs` | semaphores, the reader of a line, and the characters in the buffer |
| `Screen` | abstract: lines of text and a cursor; when the cursor would leave the last line, the first line goes |
| `Terminal` | the video RAM, its window and the clock of lab 6: `putc` and `scroll` between their statements, `draw_clock`, and the prints of a tick inside them |
| `TerminalProofs` | where the writes may go, and that `Terminal` implements `Screen` until a tick prints inside a `putc`, for every size of both |
| `Session` | init, login and sh of lab 8 over an external kernel |
| `SessionProofs` | who is on each terminal and who holds which end of each pipe |
| `MC...` | values of the constants for TLC, one module per run or pair of runs |

Operators whose name carries a suffix after an underscore (`CanGoOn_never`, `Copies_none`) and whose comment
begins with "Slip" are not part of the model: each is a plausible mistake in the definition that follows it,
kept to show that the properties notice it. In six modules the type invariant is the first conjunct of a stronger one
(`InkmodeTellsMode`, `CharsCounted`, `CountsCover`, `FramesAreOwn`, `NobodyForgotten`, `InRam`), so that one run checks both.

### ProcKernel

State and source correspond one to one: `running`, `freeList`, `readyQueue`, `sleepList`, `nproc`, `rflag`
are the globals, and `status`, `ppid`, `parent`, `priority`, `event`, `exitCode` the PROC fields. The three
lists are sequences. `pc` stands for the saved kernel stack: where a process goes on when it is switched
in again. That is the prompt of `body` (where `tswitch` in a command returns to), the `ksleep` in `kwait`, or a
point of `main` for P0.

An action is what runs from one `tswitch` to the next. `scheduler` is an operator that a command applies
last, to the statuses and the ready queue it has prepared; the constant `Runs` is the status it tests, RUNNING in lab 2 and
after lab 3, READY in lab 3. The commands are `DoTswitch`, `DoKfork`, `DoStop`,
`DoContinue`, `DoSleep`, `DoWakeup`, `DoChpriority`, `DoWait` and `DoExit`; `WaitAgain` is the turn of `kwait`'s
loop after a sleep, `MainFork` and `MainSwitch` are `main`. Events and addresses are integers: `ksleep(running)`
sleeps on `Address(running)`, and the events a user types may collide with an address, as they may in the code.

An empty ready queue makes `running` NULL. The code would go on with whatever is at address 0; the model
stops there, and `SchedulerFindsAProcess` says that it never comes to this.

### SyscallKernel, ForkExec and UnixProcess

From lab 3 on a process begins in `body` and leaves it for good with the command `u`. `umode` records this, and `retval` the
word of the user frame into which `kcinth` writes the result of a call. The kernel is not interrupted, so a system call is one action up
to the `tswitch` it makes; `KwaitGoesOn` is what a `kwait` does when it is back, for the program or for `body`.

`ForkExec` adds what a process finds when it returns to user mode. `uss` and `usp` are the PROC's saved segment and stack pointer, and
`mem` says what a segment holds: a program, the command line it was given, how far its stack has got and the last frame pushed there, with
its segment registers. `int80h` pushes a frame where the program's stack is, in the segment the program runs in; `fork` copies the
parent's segment and patches the registers of the copy; `kexec` loads a file over the caller's segment and builds a frame at its end, below
the command line (`stkp`); `khop`, which came with lab 5, moves to another segment. Nothing in the model makes these agree: `FramesAreOwn` says that `uss` and `usp`
lead to a frame whose registers name the segment itself, and `UnixProcess` is what a program sees of it: its program, command line
and results as they are found *through* that frame.

`kexec` returns no value on success; `kcinth` stores whatever AX held into the new frame, modelled as 0 or -1. The layout of segments is given by
`SEGSIZE`, `SegShift` and `TopShift`, which differ between labs 4 and 5.

### PipeKernel

It extends `ProcKernel` because the process part of lab 7 is the same text: `que.c` is
identical, `scheduler`, `ksleep`, `kwakeup`, `kexit`, `kwait` and the list part of `kfork` differ in
printing and in `int_off`/`int_on` around them. What differs is modelled: P0 is its own parent, `kkexit` refuses P1
whatever `nproc` is, and processes start in user mode, from where any system call may come in any order
(`kcinth`). `call` records the pipe call in which a process sleeps; `ReadAgain` and `WriteAgain` are the turns of
the loops in `kreadpipe` and `kwritepipe` after a sleep. Bytes are moved a sequence at a time, as nobody
else runs in between. `&pipe->data` and `&pipe->room` are integers `DataOf(k)`, `RoomOf(k)`, also defined for the
NULL pipe whose members `kclosepipe` takes the address of.

Not in this model: `kexec`, `khop`, `kchname`, the console calls and `kitimer`, which have no effect on what it talks about;
a `kpipe` that finds a table full, which indexes with an undefined value; calls with a descriptor that is not open or of no bytes or less, which change nothing (`pipe.c:147`, `221`); serial interrupts.

### Midterm

Lab 5 has the console of lab 2, the segments of lab 4 and the pipes that lab 7 still has. `Midterm` extends `ForkExec` and
`PipeKernel`, both of which extend `ProcKernel` (the calls that both describe are named `...WithFds` in `PipeKernel`), and conjoins the two halves of an operation that both describe: `fork` shares
descriptors *and* copies a segment. A pipe call that can end at once answers its program; one that sleeps leaves the
result to the turn of the loop that ends it, when `running` is that process again (`Answers`). `UnixWithFds` is `UnixProcess` with the numbers of bytes
among the `Results` a call may give. What only exists here is a console that wakes processes in the
middle of a pipe call with a typed event, a broken pipe that kills a process with its image, and images reused by
processes that inherit the descriptors of the dead.

### TimerKernel

It extends `ProcKernel` for the same reason. What is new is that an interrupt can come between two
steps of a process, so that what was one action is cut where the kernel lets the clock in: a system call enters the kernel
(`Enter`, the INTH of `ts.s`), does its work, and returns by an action of its own (`ireturn`); `kitimer` is cut after
its `unlock` (`at = "kitimer"`), and `GoToSleep` is the rest. `thandler` is a tick that completes a second, with two alternatives:
`SliceEnds`, which switches and returns, and `SecondPasses`, which goes on to the timer queue. The 59 other ticks only count, and
the clock on the screen is in `Terminal`.

`inkmode` is the code's counter and `at` is where the process really is, so that `InkmodeTellsMode` can compare the two. The
timer queue is the sequence of its entries with the differences that the code keeps; `TimerAlarm` is what they add up to. Once
the last entry has expired `thandler` follows a NULL pointer into the kernel's instructions (`astray`), and the model stops.

`kitimer` takes any number, which `ucode.c:265` does not check: zero is due at once, and 32768 to 65535 are negative in the `int` of the entry (`timer.c:16`).
`thandler` decrements the head before it tests it for zero, so that such a head passes zero and holds up everybody on the queue; the code counts it on until the 16 bits wrap,
the model until `MaxLate` seconds past zero. `OnlyZeroHoldsUp` says that nothing else brings the queue there, and `TimerAlarm` what becomes of the others' seconds.

System calls are not cut elsewhere: a tick between two writes of a list operation, where the code leaves interrupts on, is the
subject of a later module. Pipes and exec, also in this lab, are modelled in `Midterm`; the calls that change nothing here are `OtherCall`.

### SerialKernel

`ksin` is cut where a receive interrupt can come in: after its `P(inmutex)`, and in `sgetc` between `P(inchars)` and
the `lock` under which the character is taken. `irq` tells whether interrupts are on there: `int80h` enters with interrupts
off and `int_on` puts them back off, `tswitch` turns them on for a moment when a process that had to wait is back, and `unlock` after the first
character leaves them on. Everywhere else a system call is one step, because an interrupt in its middle cannot be told from one
before or after it (in the middle of a list operation it can: see the plan). `do_rx` is one step: the interrupt controller lets no second one in
before `shandler` is done, even though `do_rx` prints and printing turns interrupts on.

`pending` is a history variable, the characters accepted and not yet taken; the code has only the two indices and `inchars`.
`CharsInOrder` shows both what is right and a slip of the code: `inchars` is counted down before the character leaves the buffer, so
that `do_rx` accepts one character more than the buffer holds, which overwrites the oldest one.

### Terminal and Screen

`vram` holds one cell per word of video RAM and of a line that follows it. The window that the 6845 shows (`VID_ORG`) moves down a line with each scroll, and when it
would leave the RAM the text is copied back to its beginning. The `unlock` in `set_VDC` leaves interrupts on, also in the kernel, so that a tick may come in the middle of the next
`putc`. `putc` and `scroll` are therefore cut between their statements; `at` says where they are, `c`, `place` and `i` are what they keep in locals, and `offset` is the global that `scroll` uses
(the `offset` of `putc` is a local of the same name, in `place`). Three cuts are left out: a test is one step with what it assigns first, the two statements that compute a place on the screen are one, and
`clear_clock` and `draw_clock` are one with what follows them.

`Tick` is a second in which `thandler` only draws the clock. `TickPrints` is one in which it also prints in the middle of a `putc`: it serves the timer queue whatever `inkmode` is (`timer.c:242-250`), and for a sleeper
that it wakes `kwakeup` prints (`wait.c:31`). `saved` keeps the interrupted `putc`, the printing runs as `putc`s like any others, and `TickReturns` goes on with the first. It may print any characters, new lines and returns, more than
"wakeup n" and its line end. No second tick comes in until the EOI at the end of `thandler`, and a tick that came in the kernel does not switch, so that one level is all there is. A tick that finds a
program in user mode interrupts no `putc`, and what it prints ("proc n: time = m") is like any other printing. Only programs print backspaces, with one call each, which is over before its `unlock`.

What a print inside a print does is a defect of the code. Its words land where `row`, `column` and `org` are by then, and two scrolls may share `offset` and move `org` twice. `inside` counts these ticks, so that the properties can
say what holds without them (`ShowsScreen`, and that no write leaves the RAM) and what holds of them all the same: `InRam` bounds the window, the row and the column, and lets the last line lie behind the RAM's end by at most a line.

`Screen` knows nothing of windows; `ShowsScreen` is the refinement, for the columns the clock does not pass through. What the clock shows is one
cell value, colours and the shape of the cursor are left out, and so is the wrap of the window by `vid_mask`, which `InRam` shows not to happen while no tick has printed inside a `putc`.

### Session

The kernel of lab 8 is not in the repository; `Fork`, `Bury`, `Exit` and the descriptors model what the three programs need of it: five
descriptors per process, pipes that end when no descriptor of the other side is left, orphans that go to init. The rest is init.c, login.c and
sh.c: `ForkLogin`, `InitWait` and `React` are init, with a failed `fork` kept as -1; `Command`, `ShellWait`, `do_pipe`,
`TakesEnd` and `do_command` are sh, whose recursion over the last `|` is the recursion of the code. A child whose `exec` failed goes on in the loop of `main`, with the descriptors it has: on the
terminal, or reading lines from the pipe or file that was meant for the program (`Input`; what such lines are is `Data`), for which it forks children that hold the same descriptors. `loose` is a history variable, the pipes
that such a shell was left with; they may get several readers or writers, so that `Joined` exempts them from having one, though not from being held as 0 and 1 only. A shell whose descriptor 0 is closed reads nothing
(`gets` of an external library): it stays at its prompt. `line` is what a process was forked to run,
a sequence of commands, each of them found or not and with a form of redirection. An action is what one process does between two calls
that others notice.

## 3. The runs

| Run | Instance | Checks |
| --- | --- | --- |
| `proc_kernel` | P0, P1 and three more; pids out of range, priorities 0 and 2, no typed events | `TypeOK`, `SchedulerFindsAProcess`, `ListsMatchStatus`, `ReadyQueueSorted`, `IdleMeansHalt`, `NprocCounts`, `WaitersAreWoken`, `ParentsLive`, `NoParentCycle`, `P1OutlivesAll`, `RoundRobin`, refinement `KeepsPromise` |
| `fork_exec` | P0, P1 and one more in the layout of lab 4; a segment to hop to, command lines of odd and even length and of a missing file; the address of P1 as typed event | `FramesAreOwn`, `StackInOwnSegment`, `WaitersAreWoken`, refinement `KeepsUnixPromise` |
| `midterm` | P0, P1 and one more in the layout of lab 5; one pipe of one byte, whose readers' event can be typed | `NoMissedWakeup`, refinement `KeepsUnixPromiseWithFds` |
| `pipe_data` | P1 and one more, one pipe of 2 slots, 2 bytes, calls of up to 3 bytes | `RingsSound`, refinement `CarriesBytes` |
| `pipe_crowd` | P1 and two more, one pipe of 1 slot, calls of up to 2 bytes | `PointerStaysGood`, `NoMissedWakeup` |
| `pipe_ends` | P1 and one more, 2 pipes, 4 OFTs, 2 descriptors each, nothing written | `CountsCover` |
| `timer_queue` | P1, P2, P3, timers of -1 to 3 seconds, followed to 2 seconds past zero, slices of 2 seconds | `InkmodeTellsMode`, `SliceInBounds`, `OnlyZeroHoldsUp`, refinement `KeepsTime` |
| `timer_slices` | P1, P2 and one more PROC, slices of 2 seconds, no timers, fairness | liveness: `EveryoneRuns`, `WaitersGoOn` |
| `sleeper_has_timer` | as `timer_queue`, no exits | violated: a timer fires before its owner sleeps |
| `serial` | P1 and two more readers, a buffer of 2, two letters and one line end | `SemaphoresSound`, `OneReader`, `CharsInOrder`, `CharsCounted` |
| `terminal` | a screen of 2 by 2, the clock in its first column, a video RAM of 9 words, one tick that prints inside a `putc` | `InRam`, refinement `ShowsScreen` |
| `session` | two terminals, five PROCs, pipelines of two and three commands with redirections and one misspelt command behind a pipe, plain commands read from pipes, fairness | `NoOwnWriter`, `Joined`, `OneSession`, `NobodyForgotten`, liveness `LinesEnd` |

What the properties say is in the comment above each of them. The bounds, and why they are enough:

* *Processes.* Five PROCs give an ordered list with equal and different priorities beside P0, a
  sleeper, a stopped process and somebody who acts on them, and a grandparent other than P1: only then can an exit hand P1 a
  child that is already dead while P1 waits for another. Typed events, which may be the address of a process that waits, are in `fork_exec`, which
  has the same commands. For the properties that are proved (section 5), every number of PROCs is covered, and
  likewise every number of pipes, OFTs and descriptors, every size of a pipe and of the serial buffer, every set of times and length of a slice, and every
  number of terminals.
* *Priorities* 0 and 2, the first of which `do_chpriority` lifts to 1, the priority of a new process.
* *Segments.* Two user processes, of which the second is forked, dies and is forked again in the same segment, and a third segment
  to hop to, to fork and execute from, and to die in. The offsets are those of the labs, so that the stack of each process is where the code puts it. Command lines are
  at most 31 characters long, with file names of at most 15: longer ones overflow the buffers on the stack of `kexec`, which the model leaves out.
* *Pipes.* `PSIZE` of 2 with calls of 3 wraps the buffer, cuts writes and leaves partial reads; two byte
  values tell orders apart. A third process (`pipe_crowd`) lets two processes sleep on the same
  event. In these two runs nobody exits of its own accord, to keep the instances small; a broken pipe still kills. Exits are
  in `pipe_ends`, where two pipes over two descriptors make stale descriptors meet reused tables, and in `midterm`.
* `MaxCount` bounds the users of an OFT (`fork` is not taken beyond it), `MaxBytes` the bytes of one call. A long-lived
  P1 could raise `refCount` without limit because exits never lower it; that nobody counts it is the
  difference named in section 4, and the overflow of a 16-bit counter after 32767 such forks is not modelled.
* *Timers.* Three timers of up to three seconds are enough for an insertion in front, between, behind and among equals, and for two
  that expire together; a behaviour ends when the queue runs empty, as above. Zero and -1 (65535 typed) are due when they are asked for; `MaxLate` of two seconds lets others queue up behind such
  a head, in front of it and among equals. Slices of two seconds can be entered at one. The width of the time fields is an assumption, `TimesFit`: times and `MaxLate` are such that no difference between them wraps.
* *Characters.* A buffer of two wraps and is overrun; three readers leave two behind the mutex while one reads.
* *The screen.* Two lines are the clock's line and the last one; two columns are the clock's and one of text. (Screens of 2 by 3, with text on either side of the clock, and of 3 by 2 pass as well, and so does this one with
  two ticks that print; they are not runs here because they have five to eleven million states.) The RAM holds four lines and a word, so that two scrolls move the window, the next one copies it back, and the remainder is smaller than a line, as in the 0x4000 bytes of the code.
  The word is needed: in a RAM of two screens exactly, `scroll`, whose bound leaves the last line of the RAM unused, copies back from a window that begins within the lines it copies to, and the user
  sees the first line overwritten. `TwoScreens` asks for a RAM of more than two screens; the code's holds four.
  One tick that prints (`MaxInside`) can do so at every statement of a `putc` or `scroll`, and print through two scrolls and more; a second such tick finds a screen that the first has left wrong in the ways that `InRam` describes,
  and the theorem `WritesInRam` is for any number of them.
* *Sessions.* Three commands have one in the middle that has a pipe on both sides. A last command that is not found leaves a shell on a pipe, whose children read it as well; when the first command of the line reads a file instead, its
  writer may be gone before. Users of the second terminal only log in and out; three pipes are as many as are ever asked for. With five PROCs a `fork` fails in every place where
  the three programs call it, `init` included, because orphans and nested shells use PROCs up.

`CHECK_DEADLOCK FALSE` is set where the system does stop: when P0 finds nobody ready in labs 2 to 5 it
spins for ever (`main` prints "system halts"), in the pipe runs also when the tables are full, in the timer runs with timers
when `thandler` goes astray, in `serial` and `session` when everybody waits for a user. In `timer_slices` and `terminal` deadlock is checked.

Fairness is assumed in two runs. Nothing in the kernels of labs 2 to 5 makes a process give the machine away, and
priorities starve there, so that no liveness holds of them. In lab 6 all processes have priority 1 and the clock preempts:

* weak fairness of the steps the kernel takes by itself (`ireturn`, `GoToSleep`, the turn of `kwait`'s loop, P0's `tswitch`):
  the machine executes instructions. This includes that a `getc` gets its key.
* strong fairness of a tick in user mode: the clock is hardware and never stops, and a process that comes back to user
  mode again and again is not in the kernel at every single second. A process that is in the kernel at each tick is indeed
  never switched by this kernel, as its documentation wants it.

Users need not do anything: neither property rests on a process calling the kernel. In `session` the external kernel is assumed to run
every process that can go on (weak fairness of init's two steps and of `Proceeds(p)` for each process), and again nobody has to type or log in.
It includes that a program whose input has ended ends, as `cat`, `more` and `grep` do. A program that reads no pipe is one that ends too.

## 4. Where the code differs from what is written about it

`sleeper_has_timer` is a run of its own: `README.md:47` of lab 6 says "The process becomes READY to run again when its sleep time expires".
`kitimer` turns interrupts on before it sleeps; if its timer expires there, nobody is woken and it sleeps for ever.

The models have these other differences, without a property that would ask for what the code does not do:

* lab 2: `wait.c:21` announces a FIFO sleep list; `enqueue` orders it by priority.
* lab 3: `scheduler` puts back only READY processes (`t.c:58`) while P0 is RUNNING, so that P0 is lost at the first switch and the ready queue can
  run dry. With `Runs = "READY"` `SchedulerFindsAProcess` fails at once. `kkfork` (`int.c:99-103`) is to "return child pid or -1 to Umode" and returns a pointer.
* lab 5: `kernel.c:32` is to "calculate offsets for start and end of user segment"; the end, `(pid + 1) * 0x800 + 0x2000`, is used as an offset into
  a segment of 0x8000 bytes, and with sixteen PROCs the stacks of P12 and later are in the next segment. `StackInOwnSegment` holds for fewer PROCs only, up to twelve in that
  layout (`StacksFit`); which stacks are outside with all sixteen is `MidStacksOfLab5` (section 5).
  `khop` copies over whatever segment is named, one in use included; the model hops to segments nobody is in.
* labs 5 to 7: a broken pipe kills P1, although `int.c:145` says "do NOT let P1 die" and `kkexit` sees to it: `kwritepipe` calls `kexit(13)` directly.
  A reader sleeps because "we still have a writer" (`pipe.c:262`); when that writer closes, the wakeup goes to an address computed from the
  pointer just cleared, and to the writers' event at that. `type.h:45` says that refCount is the "number of PROCs using this pipe end"; `kexit` closes no
  descriptor, so that it counts the dead as well.
* lab 6: a `kitimer` of zero seconds is due at once but never fires, nor does anything that is then on the queue or put there, until the `int` has wrapped (`OnlyZeroHoldsUp`). "wakeup all expired timers" (`timer.c:246`) loops on `tq->time` after `tq` has become NULL (`astray`): the word it reads lies in the far jump
  the kernel begins with, is zero, and is taken for an expired timer. `README.md:46` says "sleep for t
  seconds"; the second in which a slice ends does not reach the timer queue (`SliceEnds` leaves `tq` alone). `README.md:18` says "When a
  proc is scheduled to run, set its PROC.time to a time-slice value"; it is set when a slice expires (`Refilled`), so that a
  process that slept comes back with the rest of its slice.
* lab 6's display: a tick between `clear_clock` and the change of `org` in a scroll draws a clock that the scroll then moves up with the text and nobody wipes.
  A tick that wakes a sleeper in the middle of a `putc` prints there, on the same row, column and origin: what is shown then is no screen of text, and the second of two nested scrolls may open a line behind the video RAM (`Terminal`, section 2).
* lab 8: README.md:186 has INIT fork another login when sh dies; a `fork` that fails gives -1, which `init.c` keeps as the pid, and the terminal is dead
  from then on (`NobodyForgotten` says -1 or a child). When `exec` fails, the child returns from `do_command` into the loop of `main` and is a second shell on
  the terminal while the first waits for it (`Astray`, the exception in `LinesEnd`), or one that takes lines from the pipe that its program was to read, together with the children it forks (`loose`, the exception in `Joined`); `cd` is executed as a program after it was obeyed and so ends there too.
  When `<` and `>` come together `<` takes all that follows as its file.

## 5. The proofs

The first section of `ProcKernelProofs` shows, for sequences over any set and any priorities, that `enqueue` inserts its element once, at a
place that keeps an ordered list ordered; that a loop of `enqueue`s from one list to another, as in
`kwakeup` and `reschedule`, moves exactly the chosen elements, whatever the order of the list they come from; and the
same for `dequeue` and `put_proc`. The fold in `EnqueueAll` is unrolled with a function
from the number of turns to the list so far.

**Lists and statuses.** `ProcKernelProofs` proves, from `ProcKernelAssumption` (at least two PROCs; what is typed is an integer) and
`TestsRunning` (the scheduler of labs 2 and 4 to 7), `TypeCorrect`, `SomebodyToRun`, `NoProcLost`, `HighestPriorityFirst`, `IdleIsHalted`, `NprocIsRight`, that is
`Spec => []` of `TypeOK`, `SchedulerFindsAProcess`, `ListsMatchStatus`, `ReadyQueueSorted`, `IdleMeansHalt` and `NprocCounts`.

All six come from one inductive invariant, `IInv`: their conjunction and the fact that P0 is never at the prompt of `body`
or in `kwait`. None of them is inductive alone. That somebody is ready rests on P0 never sleeping, stopping or exiting, which
rests on where P0 is; that a list stays duplicate-free rests on the status telling on which list a process is; `nproc` can
be compared with the number of used PROCs only because `freeList` is exactly the set of free ones. `IInv` is `KInv` and `Halted`: that nobody is ready
when P0 has the machine back is true only where no interrupt makes somebody ready while P0 runs. `KInv` is inductive without it, and is what the kernels of
labs 6 and 7 keep; the lemma of each command is stated for `KInv` with its effect on `Halted` apart, so that `PipeProofs`, `TimerProofs` and
`SerialProofs` cite it for their own steps.
The argument has two halves, as each action has: what a command does to the lists and statuses, and then what
`scheduler` does with them. `SwitchKeeps` proves the second half once, for any statuses and ready queue a command may leave
(`MaySwitch`); `StayKeeps` is its counterpart for commands that do not switch. There is a lemma per command, and
`NextKeeps` puts them together.

**Turns.** `TurnsAreKept` is the action property `RoundRobin`: whoever comes to the ready queue comes behind everybody there of the same priority, and nobody is passed later.
`TakesTurns` states it between any two queues. `EnqueuePlaces` says where `enqueue` puts its element, behind the last of its equals if the queue is in order, and the rest is how turns compose: through a `dequeue`,
through the loops of `kwakeup` and `reschedule` (`EnqueueAllTurns`), and through a command's `enqueue`s followed by those of `tswitch` (`SchedulerTurns`). Two turns compose only if
nobody leaves in between and comes back, which is why the lists must be disjoint and free of duplicates, and each `enqueue` needs a queue in order: both are from `KInv`.

**Families.** Whatever a command does, it does one of four things to parents and children: somebody is forked, somebody dies, somebody is
laid to rest, or nothing of the kind (`Forks`, `Dies`, `Buries`, `Stays`; `NextKinds` sorts every step, given `IInv`). `FamilyNext` and the
lemmas before it prove the rest about these
four: `FamilyInv` is the conjunction of `ParentsLive`, `P1OutlivesAll`, `WaitersAreWoken`, `NoParentCycle` and two strengthenings. `P1First` says
that `main`'s `kfork` gets PROC 1, without which the first exit would hand children to a PROC that is not there. `WaitsInKwait` says that who waits sleeps on its own
address, without which the wakeup of an exit could miss it: `kexit` wakes whoever sleeps on the *parent's* address, and it is `ParentsLive` that makes this
the process `kwait` is called by. Each of the four properties needs another one in the step of a death: the adopted
children come to P1, who may be waiting, and is alive because it dies last, which `nproc` tells, which is `NprocCounts` of `IInv`. A
cycle of parents can only be closed by an adoption, and P1 is nobody's descendant but P0's.
The theorems are `NobodyIsOrphaned`, `ParentsLeadToP1`, `P1IsLast`, `NobodyWaitsInVain`, and `ImplementsProcLife`, in which each kind of step is one action of `ProcLife`.

**Fork and exec.** `ForkExecProofs` first shows that every step of lab 4 is one of `ProcKernel` or leaves its variables alone
(`RunsProcKernel`): what is typed or called in lab 4 is one of lab 2's commands with its guards, so that everything above holds of it, waiters included (`CallersAreWoken`). `FramesStayOwn`
proves `FramesAreOwn` for every layout of segments from `FrameInv`: each process is in its own segment or in one it hopped to,
no two are in the same, and each has its frame there. That the segments differ is what makes it inductive: a frame pushed
by one process is otherwise a frame destroyed for another. `ForkExecAsInUnix` proves the refinement of `UnixProcess`; by `FrameInv` what a program finds through its frame is what its segment
holds, and each step of lab 4 is then shown to be a yield, an answer, a spawn, a fork, an exec or a burial.
Two assumptions are added: `HopsElsewhere`, that no segment typed for hop is one that `kfork` may use (else the next process there would overwrite it, as
in the code), and `NoneIsNoFile`, that "none" is not a program.

`StacksStayInside` is about the invariant that arithmetic decides: `MemSpec => [](StacksFit => StackInOwnSegment)`. `StacksFit` is a condition on the constants
alone: the highest place where `kfork` or `kexec` puts a stack is within a segment's reach, every segment lies below the top of memory, and a segment has room for the
deepest stack, a frame and a command line. The layout of lab 4 fits with all its nine PROCs and that of lab 5 with up to twelve of its sixteen; without the
condition the statement is false, which is the difference named in section 4. `Stacks` is inductive, with or without the condition, because a stack pointer is always one of two
distances below the place where the stack of its segment starts (`SitsAt`), that place is one where `kfork` or an `exec` puts stacks (`Tops`), and `fork` and `khop` carry it along.

`MidStacksOfLab5` says what becomes of lab 5 with the sixteen PROCs it has, where the condition is false. From the same `Stacks` and the sizes of lab 5 (`Lab5`): no address of a stack wraps round; a stack that begins where `kfork` puts that of P12 to P15
lies outside its segment and stays outside, in every child and copy that inherits it; and a stack outside is one of these, or was put there by an `exec` in the segment of P13 to P15 or in one as high that somebody hopped to.

**Pipes.** `PipeProofs` proves `RingsSound`, `CountsCover`, `PointerStaysGood` and `NoMissedWakeup` from `PipeIInv`, and the refinement `CarriesBytes`.
What `Filled` and `Drained` do to a ring is settled first: they append to `Contents`, or take off its beginning, for any size, and keep head, tail, `data` and
`room` in step. The invariant has the tables (`Tables`: descriptors are covered by the counters of OFTs, the counters of a
pipe are those of its two ends, no two OFTs are the same end), the sleepers (`CallersWait`: who is in the middle of a call sleeps on the event of the pipe its
call keeps), their pointers (`PointerStaysGood`) and what they wait for (`NobodyMisses`). Each needs another in some step: a kept pointer is good because
the caller's own descriptor, through `Tables`, still counts; `Tables` survives a `kclosepipe` that gives a pipe back because nobody is left who sleeps on it; a sleeper
that is left out by a wakeup would be one on another event, which `CallersWait` excludes. `CallersWait` is disturbed by `kexit`, `kfork` and a broken
pipe, which is where `KInv` tells that they touch nobody who sleeps.

**The midterm kernel.** `MidtermProofs` proves of lab 5 what lab 4 and lab 7 were proved to keep apart: `MidSleepersAreWoken` (`NoMissedWakeup`), `MidPipesAreSound` (`RingsSound`, `CountsCover`,
`PointerStaysGood`), `MidPipesCarryBytes` (`CarriesBytes`), `MidFramesStayOwn` (`FramesAreOwn`), `MidStacksOfLab5` (as above) and `MidtermAsInUnix` (`KeepsUnixPromiseWithFds`). The invariant, `MidInv`, is
`PipeIInv` and `MemInv` together with what only the composition needs. `CallersAreOut` says that who sleeps in a pipe has been to user mode and is not at the prompt of
`body`: otherwise the console could take it out of its call, and the answer would be written into a frame it does not have. `CallsAreShort` bounds what a call still has
to move, so that its answer is one of `Results`. The console is what lab 7 does not have: it stops and continues processes, changes priorities and wakes sleepers on the events
of pipes. `NextUndisturbed` says that no command of it touches who is in the middle of a call, other than by waking it, and that a woken process still has its pipe and looks again.
Each step of `MidNext` is then sorted into four kinds (`Sorted4`): one that pipes have no part in (`Ordinary`), a fork that copies a segment and shares descriptors (`Forking`), a call or a turn of
a loop on a pipe (`FdCall`), which is a `PipeMove` of lab 7 and leaves every segment as it was but for the pushed frame and the answer, and nothing. For `PipeIInv` the lemmas
of `PipeProofs` take the first three; for `MemInv` and the refinement those of `ForkExecProofs` take the first two, and the third is an answer, a yield or nothing to `UnixProcess`.

**The timer.** `TimerProofs` proves `InkmodeTellsMode` and `SliceInBounds` from `TimerIInv`, and with it the action property `OnlyZeroHoldsUp` (`ZeroAloneHoldsUp`) and the refinement `KeepsTime`. `Modes` says where each
process is: P0 always in the kernel, `kitimer` never left by a switch before its `ksleep`. `Owners` says that whoever is on the timer queue is on its way to sleep
there or sleeps on its entry, and is there once: without it a process could be woken by the entry of another one, and `TimerAlarm`, which keeps one number per
process, would not know what the queue holds. The main lemmas are about the sums of differences (`Total`): `InsertedTimes`, that an insertion in front, between or behind
changes nobody else's sum, and `SecondTimes`, that a decrement of the head alone takes one from everybody's and removes exactly those whose last second it was.
These two are for any times, also those of zero and less: `TimerIInv` says that only the head may be negative, and that nobody behind it is due before it, so that an insertion in front of a late head takes the lateness along as a difference. That the queue is held up by a `kitimer` of zero or less
and nothing else, and for ever, rests on these lemmas: a head that was counted to zero is taken off at once, with everybody whose difference to it is zero.

**The serial port.** `SerialProofs` proves `SemaphoresSound`, `OneReader`, `CharsInOrder` and `CharsCounted` from `SerialIInv`. What makes it inductive are `QueuesHoldReaders`, that who
is stopped is in one of the two queues and at the `P` it belongs to, `MutexIsHeld`, that a value of `inmutex` below 1 means exactly one reader between its `P` and `V`, and
`CharsPromised`, that `inchars` is the number of characters in the buffer less the one that is promised to who is between `P(inchars)` and the `lock` after it.
That difference of one is the slip of `sgetc` named in section 2, and the bound of `CharsInOrder` on what is overwritten follows from it.

**Sessions.** `SessionProofs` proves `NobodyForgotten`, `OneSession`, `NoOwnWriter` and `Joined` from `SessionIInv`, for any number of processes, terminals and pipes and for pipelines
of any length. `InitKnows` relates `task` to the children of init with a session, except for the terminal that init is about to serve; `Descriptors` says what each process may hold where it is in its program;
`EndsOf` that a pipe has one reader and one writer, both of them between `do_pipe` and the end of their program, where no child of theirs inherits an end that both keep. It holds of every pipe but those in `loose`: a shell that an `exec` left with a pipe
forks children with it, and nothing is left of the one reader. What is proved of these pipes too is that programs have them as 0 or 1 and never both ends of one.

**The display.** `TerminalProofs` proves `InRam` (`WritesInRam`) and the refinement `ShowsScreen` (`DisplayIsScreen`) from `TermIInv`, for any size of the screen and the RAM. `TermIInv` has two halves.
`RamInv` holds whatever ticks print: it types the `putc` that runs and the one it interrupts, and bounds the window. Its core is `OffsetOK`, what either scroll still knows of the shared `offset` and `org`: between `scroll`'s test and
`org += 2*LINE_WIDTH` the nested scroll may have moved `org` too, but only after a test of its own, so that the window is still inside when the outer one moves it by another line. `Calm` holds until a tick has printed inside a `putc`: the registers of the 6845 agree with
`org`, `row` and `column` except at the end of a scroll; and, while `scroll` copies, the window begins behind
all that is copied to and the words copied so far (`Copied`) are those of the window, a line further up. The first of these comes from the test of `scroll` (`RoomBefore`) and is where the size of the RAM is
needed (section 3). A tick may draw between any two statements: in columns where no text is, in the window and not where the copy goes (`ClockAside`). Places and words
correspond one to one (`WordUnique`, `WordTells`), by which a write is seen at one place only. Each of `putc`'s ways is then a character, a return, a backspace or a new line of
`Screen`; the end of a scroll is a line feed, or the wrap after the last place of the screen, whichever began it; and everything else is invisible.

**What the proofs assume** of the constants are the named assumptions of the modules: at least two PROCs, typed input of the right type, ends and events of pipes at
different addresses, which `type.h` gives, a screen of at least two lines and columns in a RAM of more than two screens, visible characters other than NUL, `TestsRunning` where the scheduler is used, `HopsElsewhere` and `NoneIsNoFile`. `TimesFit`, that no time of the queue wraps, is what makes the integers of `TimerKernel` those of the code; the proofs need of it only that times are integers. TLC evaluates each of them in the runs.

Every safety property of the passing runs is proved, `StackInOwnSegment` under `StacksFit`. Only model-checked: that a sleeper has its timer (which is violated), and liveness (`EveryoneRuns`, `WaitersGoOn`, `LinesEnd`). Liveness under fairness and what recursive definitions compute for every input are out of the prover's reach altogether.

## 6. The plan

Done in this order: lists, process switching and its proofs, pipes, the timer, the serial port; then system calls, fork and exec, the midterm kernel, the
display, sessions; families and the refinement of `ProcLife`, the refinement of `UnixProcess`; the proofs about sessions, the serial port, pipes, the timer, turns and the display, and last those about stacks and the midterm kernel. To come, the most important first:

1. **Interrupts on linked lists** (labs 6, 7): `que.c` and the timer queue on `next` fields, shown to implement `Que` when it is not
   interrupted, and interrupted by `kwakeup` and `V` where the code leaves interrupts on.
2. **Algorithms**: the printing functions of `bio.c` and the line filters, against reference definitions.

## 7. Not modelled

The boot loader (straight-line BIOS calls), disk images, scripts and the external library; output and its wording, `bio.c` with it; what the filters of lab 8
do to their lines (that `cat` goes on for ever when `read` gives -1 included) and the parsing of `sh` (its 24-character buffers included); names of processes, of which there are nine for sixteen PROCs;
the timer of lab 7, which no vector leads to; `ready()` of
`wait.c` and the `do_` functions of lab 7's kernel, which are never called; `sgetline`, `sputline`, `sputc` and `do_tx` of `serial.c`, which nothing
reaches; minutes and hours of the clock; the receive interrupts of lab 7 that print in the middle of a `putc`, as the ticks of lab 6 do in `Terminal`; and, until the plan gets there, the parts it lists.
