# Jaculus-machine in TLA+

Jaculus-machine embeds the QuickJS JavaScript engine in C++ programs, down to
microcontrollers. A *Machine* is a stack of class templates (MFeatures) over
`MachineBase`; the embedder composes it, calls `initialize()`, evaluates code and
runs the event loop. This directory holds a TLA+ model of the parts of it where
threads, callbacks and lifetimes meet, the TLC configurations that check the model,
and machine-checked proofs of its main properties.

Paths below are relative to the repository (`src/` in `PROJECT.json`).

## Inventory

| component | source (`src/jac/...`) | state | operations | hard part |
|---|---|---|---|---|
| Event queue | `features/eventQueueFeature.h` | `_scheduledFunctions`, its mutex and condition variable | `scheduleEvent`, `getEvent(wait)`, `notifyEventLoop` | signals outside of the mutex, one wait without a predicate |
| Event loop | `features/eventLoopFeature.h`, `eventLoopTerminal.h` | `_shouldExit`, `_exitCode`, `_error`, the local `didJob` | `runEventLoop`, `evalModuleWithEventLoop`, `kill`, `exit`, `getExitCode` | events against jobs, exceptions against exit, kill from other threads |
| Timers | `features/timersFeature.h` | heap `_timers`, table `_timersById`, `_stop`, the timer thread | set, clear, sleep, the thread's loop, the event of a timer, the destructor | two threads, shared ownership of a timer, deadlines, join |
| Machine core | `machine/machine.h`, `machine.cpp` | `_interrupt`, watchdog deadline, timeout and handler | `initialize`, `eval`, `interruptRuntime`, `resetWatchdog`, interrupt handler | flags raised on one thread and consumed on another, latched interrupts |
| Native modules | `machine/machine.h`, `machine.cpp` | `_modules`, the exports of each | `newModule`, `addExport`, the init callback, `findModule` | values looted by the first import, names added twice or late, the order of destruction |
| Module loader | `features/moduleLoaderFeature.h` | the loader function | import callback, `evalFile`, `evalFileWithEventLoop` | nested loads, and loads that fail |
| Plugins | `machine/plugins.h` | plugins held, groups of constructors | `addPlugin`, `initialize`, `getPlugin` | handles as offsets, constructors that throw |
| Class registry | `machine/class.h` | class id and definition of the process, per context prototype and constructor | `init`, `initContext`, `getProto`, `createInstance`, finalizer | statics shared by machines, opaque pointers, constructors that throw |
| Values | `machine/values.h`, `atom.h`, `stringView.h`, `context.*` | one reference count per wrapper | copy, move, assign, `loot`, destruct, conversions | ownership |
| Native calls | `machine/functionFactory.h`, `funcUtil.h`, `traits.h`, `noal_func.h` | the captured function | call, argument conversion, exceptions both ways | exceptions crossing the C boundary |
| Filesystem | `features/filesystemFeature.h`, `types/file.h` | open files | open, read, write, close, directory functions | modes, short reads |
| Streams, stdio | `features/basicStreamFeature.h`, `stdioFeature.h`, `types/streams.h`, `util/ostreamjs.h` | none of their own | forward characters | none: pure I/O |

How they interact: JavaScript runs on one thread, inside `eval` or inside a *task* of
`runEventLoop` (an event closure, or a pending QuickJS job). Other threads (the timer
thread, host threads) reach it through `scheduleEvent` alone, or through `kill`,
`exit` and `interruptRuntime`. A timer is created by JavaScript, waited for by the
timer thread, put in the event queue as a closure, and rung by the loop. `kill`
writes the loop's flag, the engine's interrupt flag and the queue's condition
variable, in this order, with no lock around them. A machine's native modules and
plugins are made by C++ code before and while JavaScript runs; the engine calls back into
C++ when a module is imported: the loader for a file, the init callback for a native
module. The statics of a class are all that machines share.

What makes each component correct:

- queue and loop: no event stranded, lost, repeated or overtaken; pending jobs run
  before the next event and never wait; an exit is prompt, ends the loop, keeps its
  code and hides no error;
- timers: each live timer is in one place, the table of ids is exact, the thread never
  oversleeps, callbacks come in order of deadlines, never early, never after a clear,
  intervals keep their spacing, the destructor returns, JavaScript objects are freed
  on the JavaScript thread only;
- machine core: an interrupt reaches the code it was meant for, the watchdog fires only
  when the timeout has passed since the last reset;
- modules: code runs with a value for each name it imports, and each value is
  given back once, whoever owns it; no code runs before its module is complete; a failed
  load is reported to the importer;
- classes and plugins: an object is of the class that its own runtime knows, a context has one
  prototype of the class, a group of plugins stays together and is found by its handle;
- values and calls: every reference is given back once; an exception crosses
  each boundary once.

## Modules

- `EventQueue` - the operations of `EventQueueFeature`. A block under the mutex is
  one action; the `notify_one` of `scheduleEvent`, which comes after the unlock, is
  another; `notifyEventLoop` signals without locking. `waiter` is the thread inside
  `getEvent`: running, blocked on the condition variable, or woken.
- `EventLoop` (EXTENDS `EventQueue`) - the JavaScript thread in `eval` and
  `runEventLoop` (`lpc` is where it is), other threads that schedule, and threads that
  `kill` or `exit`. `kill()` is four steps, one per store. A task may schedule,
  enqueue jobs, call `exit`, reject the module's promise, return, throw, or be
  interrupted.
- `TaskLoop` - what the loop promises, without threads: one task at a time, events in
  order, all jobs between two events, at most one more task once told to stop.
  `EventLoop` implements it (`ImplementsTaskLoop`, checked and proved); the mapping
  hides the condition variable, `didJob`, the flags and the program counter.
- `Timers` - `TimersFeature` above the interface of `TaskLoop`: the events it schedules
  are a FIFO, taken one at a time, each followed by its jobs. `tpc` is where the timer
  thread is, `jpc` where the JavaScript thread is. Timer objects are functions of
  their id. The heap is a set and its root any timer with the least deadline, which
  is all `std::priority_queue` says about ties.
- `TimerService` - what timers promise to JavaScript, without threads, heap, queue or table:
  a set of deadlines, the timer whose callback runs, and whether the machine is being
  destroyed. `Timers` implements it (`ImplementsTimerService`, checked and proved). The
  mapping takes a timer as waiting wherever it is on its way from the heap to its callback,
  as long as nobody cleared it.
- `Machine` - `MachineBase` without the loop's details: `eval` and the tasks of the loop
  as the places where the watchdog is reset, the interrupt handler that QuickJS polls
  (it tests `_interrupt`, then clears it: two steps), the watchdog's deadline, timeout
  and callback, and a host that interrupts from any thread and configures the watchdog
  from the JavaScript thread, also while code runs or the callback does.
- `NativeCalls` - the stack of alternating C++ and JavaScript frames: the call hook of a
  wrapped function, `convertArgs`, `processCall*`, `propagateExceptions`, the accessors of
  `addPropMember`, `callThis` and `callConstructor`, the making of a `jac::Exception` from
  the runtime's current exception and the way back, `throwJS`. Code on either side may
  throw, catch, call and convert at any point.
- `ExceptionFlow` - what exceptions promise to a program of C++ and JavaScript frames: one
  value in flight, which the library hands from frame to frame, may replace by one of two
  errors of its own, and never drops. `NativeCalls` implements it
  (`ImplementsExceptionFlow`, checked and proved): the mapping takes the runtime's current
  exception, a C++ exception that wraps it and one that has only a type for the same value.
- `Ownership` - who holds references to an object: wrappers (`value`, at the places
  `built`), JSValues of C++ code between a `loot()` or a call of the engine and their next
  owner (`raw`), and the engine (`engine`), beside the count that the code keeps; and the
  life of the native instances of a `Class`, with `constructor_impl` as four steps that may
  throw in between.
- `Modules` - native modules (`newModule`, `addExport`, the init callback that loots the
  exports, `_modules.clear()` and `JS_FreeContext`) and the files of `ModuleLoaderFeature`:
  `evalFile` or a dynamic import makes the engine resolve the imports of a module, depth
  first, and `moduleLoaderCbk` is called for each unknown one, inside of which `JS_Eval`
  resolves the imports of that file. A load fails where the file cannot be opened or does
  not compile, and the exception unwinds the nested loads one by one (`pc = "abort"`).
  What is loaded is linked: a native module gets a variable for each name declared by then, and
  a name that an import does not find, or finds without a variable, ends the attempt
  (`LinkThrows`, `LinkCrashes`).
  Evaluation goes through the same graph again; native modules are initialised and files
  evaluated the first time they are met. The files may change between loads. Which native
  module an import finds, and what the engine does with a value, is modelled from the use.
- `ModuleGraph` - what imports promise to a program, without loader, recursion or exceptions:
  a module is there when all that it imports is there, its code runs once, after the code of
  all that it imports, and never when that failed. `Modules` implements it
  (`ImplementsModuleGraph`, checked, and proved for graphs without cycles); the mapping
  forgets the stack, the modules that are being resolved and the exports.
- `ClassRegistry` - `Class<Builder>`: its statics, and for each machine the registration of
  its id, the current prototype, and the objects made by `createInstance` and by JavaScript
  constructors, for any `new.target`, until the collector or the end of the machine takes them.
- `Plugins` - `PluginHolderFeature` and `PluginManager`: several managers, several calls of
  `initialize`, one constructor at a time, which may throw.
- `Setup` (EXTENDS `ClassRegistry` and `Plugins`) - machines that come and go, with plugins
  whose constructors use the class in the machine they are given.
- `EventLoopProofs`, `TimersProofs`, `TimerServiceProofs`, `MachineProofs`,
  `NativeCallsProofs`, `OwnershipProofs`, `ModulesProofs`, `SetupProofs` - the theorems.
- `MCEventLoop`, `MCTimers`, `MCMachine`, `MCNativeCalls`, `MCOwnership`, `MCModules`,
  `MCSetup` - the instances TLC checks.

### State and code

| TLA+ | code |
|---|---|
| `scheduledFunctions` | `_scheduledFunctions`; an event is the number of its `scheduleEvent` call in `EventLoop`, the id its closure captured in `Timers` |
| `sending[s]` | thread `s` is between lines 48 and 49 of `eventQueueFeature.h` |
| `lpc` | `check` line 50 of `eventLoopFeature.h`, `get` 53, `event` 56, `drain` 63, `exec` 65 about to run, `job` inside it, `catch` 76; `script` inside `eval`; `idle` outside |
| `killing[t]`, `request[t]` | the store of lines 90-100 thread `t` does next, and the argument of its `exit` |
| `jobs` | the pending jobs of the QuickJS runtime |
| `main` | the promise that `evalWithEventLoopCommon` attached `catch` to |
| `tpc` | `check` line 141 of `timersFeature.h`, `lock` 142, `wait` and `woken` 144, `waitUntil` and `roused` 153, `push` 165, `leave` 187 |
| `jpc` | `ring` line 167 of `timersFeature.h`, `callback` 174, `tail` 176; `jobs` the drain after the event; `stop`, `notify`, `join` lines 227-231 |
| `timer`, `event` | the `shared_ptr` locals of the timer thread and of the event closure |
| `pc`, `home` | where the JavaScript thread is: `compile` line 54 of `machine.cpp`, `running` inside JavaScript, `polled` between lines 34 and 35, `callback` inside line 43; and where the code returns to |
| `interrupt`, `watchdogTimeout`, `watchdogNext`, `hasHandler` | `_interrupt`, `_watchdogTimeout`, `_watchdogNext`, whether `_wathdogCallback` is set |
| `frame[i].at` | `entry` line 119 of `funcUtil.h`, `arguments` 123 (`argumentsConvert` while JavaScript runs for it), `body` in the wrapped function (`bodyConverts`), `push` line 558 of `values.h`, `call` 559, `result` 566 |
| `frame[i].vals`, `.refs` | the vector `vals` of `callThis`, and the references of it not yet freed |
| `mode`, `current`, `cpp` | how the top frame is entered again: normally, with `JS_EXCEPTION` and the runtime's current exception, or by a C++ exception |
| `uncatchable` | whether the engine lets JavaScript catch the current exception |
| `count[o]`, `state[o]` | `ref_count` in the header of a QuickJS object, and its life |
| `value[w]` | `_val` of the wrapper at `w`; `None` when it holds no object, as after a move or a `loot()` |
| `constructing` | where `constructor_impl` is: `opaque` line 317 of `class.h`, `post` 322, `posted` past its copy of `obj`; `Frame` is `obj` |
| `modules[d]`, `defs[d]` | the `Module` that the `d`-th `newModule` put in `_modules`, and its `JSModuleDef`; `held` of an export: its wrapper still has the value; `linked`, `slots`: whether the engine has linked the module, and the names that got a variable then; `bound[k]`: the export whose value the engine has for name `k` |
| `unit[f]` | the engine's module of file `f`: `resolving` inside `JS_Eval` line 27 of `moduleLoaderFeature.h` (or line 54 of `machine.cpp`), `loaded` once returned |
| `stack`, `pc` | (`Modules`) the recursion of the engine over imports; `abort` while loaders return `nullptr`; `crashed` once the engine used a variable it had not made |
| `className`, `registered[m]`, `proto[m]` | `classId` taken and `className` set; the class of that id in the runtime of `m`; the number of the prototype in the context of `m` |
| `instance[i]`, `home[i]`, `shape[i]` | the native instance, the machine of its object, and the number of the object's prototype, or `Other` for one that is none of the class |
| `group[g]`, `plugins[m]`, `calls` | `_plugins` of a manager and of a machine; the calls of `PluginManager::initialize` with their local `first` |
| `freed`, `given`, `mains`, `before`, `made`, `fresh`, `enqueued`, `scheduled`, `started`, `tasksAfterExit`, `thrown`, `rungAt`, `raised`, `interrupted`, `owed`, `since`, `granted`, `cause`, `replaced`, `throws`, `foreign`, `leaked` | history: read by properties (and by the bounds), never by a guard that stands for code |

## Runs

| run | instance | shows |
|---|---|---|
| `loop_threads` | 3 events, 2 senders, 1 killer, 2 jobs | the safety of queue and loop, and the refinement of `TaskLoop` |
| `loop_live` | 2 events, 2 senders, no killer, exit codes 0 and 2 | every event of a running loop is served; `exit()` from JavaScript never meets a sleeping loop, and ends it; its code stands |
| `loop_kill` | 1 event, 1 killer | **violated**: a `kill()` from another thread can be missed |
| `timers_safe` | 2 timers, delays 0 to 2, clock 0 to 2 | the safety of timers, the refinement of `TimerService`, and that a due timer is served |
| `timers_destructor` | 1 timer, clock 0 to 2 | **violated**: the destructor can wait for ever |
| `machine_safe` | timeouts 0 to 2, clock 0 to 5, 4 calls of the host, 2 tasks | no interrupt lost or spent twice; the watchdog waits its time, where that was not made longer after the reset, and stops code without end |
| `calls_safe` | 6 frames, 2 arguments, 2 throws, 3 thrown values, 3 types | exceptions arrive as what they are, arguments are freed once and leak only behind a foreign exception, and the refinement of `ExceptionFlow` |
| `calls_escape` | 4 frames, 1 throw | **violated**: a setter throws into C code |
| `ownership_safe` | 3 objects, 2 instances, 4 wrappers, 2 references | counts are exact, nothing dangles, instances live with their objects |
| `modules_safe` | 3 files, one imported by both others and those importing a native module; 2 native modules of 2 exports, 2 names, of which `main` and `lib` want one each | code has its native imports, values are given back once, `import.meta` comes before code, failures are reported, and the refinement of `ModuleGraph` |
| `setup_safe` | 2 machines, one with plugins; 2 instances, 2 prototypes, a group of 2, 2 calls, 3 plugins held | objects are of the class of their machine; plugins stand in order |
| `setup_handle` | 1 machine, 2 groups, 2 calls | **violated**: the handle of the second group is that of the first |

Every property of a passing run has a mutant in `PROJECT.json`: a plausible bug in one
definition (a lost signal, a dropped test, a wrong order of stores) that TLC finds
through that property. The mutated forms stand before the definitions they mutate.

### Bounds

All bounds are constants, declared as bounds. Two senders and one killer give every pair of
roles that interact (loop with sender, loop with killer, sender with killer): the queue has
one consumer, and the proofs cover any number. Three events distinguish "overtaken" from
"lost" with one in the loop's hand; two jobs, one of which enqueues the other, make the
drain loop turn twice. Two timers are a heap with a root, ties and an order to get wrong;
two ticks let an interval of one tick ring and restart, and timers of different delays be
created in either order; the safety of timers is proved for any clock. For `Machine`, five
ticks let the watchdog fire, be declined and fire again with a timeout of 2, and four calls
are enough to set the timeout and the handler, interrupt and reset, in any order. For
`NativeCalls`, six frames let an exception cross two wrapped functions and three pieces of
JavaScript, and two throws let one be thrown while another was replaced or caught; of the
three values that may be thrown one has a string, one may have none, and one is the error of
an interrupt, which may have none either. For `Ownership`, three places let a wrapper be
assigned from another while a third holds the same object, and a third object lets one be
made after one was freed; objects, instances and places are symmetric. For `Modules`, `main`
imports `lib` and `leaf`, and `lib` imports `leaf`, so that a load fails two loaders deep,
or after one that succeeded, and a file is imported that was evaluated for another; both
import the native module, so that one is imported when it was initialised; two native
modules may have the same name, and of two exports with two names, one may be repeated or
come late; `main` and `lib` want different names, so that one may be there and the other
missing. For `Setup`, two machines share the class, one may be gone when the other begins,
the second prototype replaces the first, and two calls of `initialize` for a group of two,
with plugins that the embedder adds between them, put a throwing constructor before and
after another group. A bound only disables the call that would exceed it, so the rest of the
behaviour is not cut; TLC's deadlock check stays on for the loop (the embedder can always
call it again) and is off for timers, modules and set-ups, where a destroyed machine has
nothing to do, for the wrappers, whose instances run out, and for calls, where an exception
in the C code of the engine is the end.

`DueIsServed` does not hold while an interval of 0 repeats: it is due again at once, and a
tie with another timer may always go to it (`Starving`). With any other timers a due one is
rung, or cleared and forgotten.

### Fairness

`EventLoop`: weak fairness of the loop's thread and of each thread inside a `kill` or a
`scheduleEvent`, because the operating system schedules them and nothing but the queue's
mutex, held for a few instructions, can stop them; strong fairness of the end of a task,
because a task that could always end but enqueues or schedules for ever is a program that
never ends, which the watchdog is for. Nothing is assumed of the embedder, nor of spurious
wakeups: a loop that is saved only by those is not live. `Timers`: weak fairness of the
timer thread, of `wait_until` at its deadline, of the event steps on the JavaScript thread,
and of a destructor that has begun. The clock is not assumed to advance: the property starts
from a timer that is already due. The fairness of the event steps includes that the embedder
enters the loop again after a callback that threw. `Machine`: weak fairness of the clock and
of the interrupt handler, which QuickJS calls every so many branches; none of the end of
code, which may run for ever.

## Disagreements found

1. `kill()` from another thread may be missed (`loop_kill`). `notifyEventLoop` signals
   without the queue's mutex and `getEvent` waits without looking at `_shouldExit`:
   loop tests the flag, killer stores it and signals, loop waits. The documentation
   says the loop runs until `exit` or `kill` is called (`docs/reference/event-loop.md:37`).
   `exit()` called by JavaScript is safe, since the loop is not between its test and its wait
   then: `ExitFindsLoopAwake`, proved for any loop without killers (`OwnExitIsSeen`).
2. `~TimersFeature` stores `_stop` and signals after it released the mutex
   (`timers_destructor`): the timer thread, past its test of `_stop`, may find the emptied
   heap and wait with nobody left to signal, while the destructor joins it.
3. The accessors made by `addPropMember` do not use `propagateExceptions`: a value that
   cannot be converted makes the setter throw into the C code of QuickJS
   (`calls_escape`), where the documentation has a JavaScript exception
   (`docs/reference/exceptions.md:8`).
4. `PluginManager::initialize` returns `pluginBegin()`, the first plugin of the machine, as
   the handle of its group (`setup_handle`): in a machine that holds plugins already, handle
   and offset find a plugin of another group, or of another type, where the documentation has
   "the handle of the first plugin in the group" (`docs/reference/plugins.md:71`). Only the
   handle is wrong: `HeldInOrder` says that the group stands where it should.

More was seen while modelling and has no run of its own: the first six are stated in the modules
as properties, which TLC refutes.

- `TimeoutIsCurrent` (`Machine`): `setWatchdogTimeout()` leaves the deadline as the last
  reset made it (`machine.h:208`). A timeout that native code makes longer under a running
  evaluation does not spare that evaluation, where the comment has the watchdog called "when
  the timeout has passed since the last reset" (`jac/machine/machine.h:202`).
  `WatchdogPatience` says what does hold, with this case as its exception.
- `NothingLeaks` (`NativeCalls`): `callThis` and `callConstructor` free their arguments in
  `catch (Exception&)` only (`values.h:567`). An argument whose conversion throws anything
  else leaks those before it (the action `CallAbandons`), which "will have to be freed
  manually" (`jac/machine/values.h:109`). On all other paths they are freed once:
  `ArgumentsFreedOnce`.
- `ExportsHaveVariables` (`Modules`): `addExport` has no condition, and the init callback
  passes on every export. C++ code called from the body of a module that is evaluated first
  may add a name to a native module that is linked and not yet initialised; the engine has
  made no variable for it and writes through a null pointer (`machine.cpp:12`, the action
  `InitCrashes`). A name that is added later still reaches nobody, and its value stays with
  the `Module`: `OwnedOnce`.
- `OnePrototype` (`ClassRegistry`): `initContext` makes a new prototype each time, where its
  comment says that it "does nothing" the second time (`jac/machine/class.h:393`): it looks
  for the class in the runtime and not for the prototype in the context.
- `ReleasedOnLoopThread` (`Timers`): the timer thread may be the last holder of a cleared
  timer, and then destroys the JavaScript `Function` in its callback, beside a running
  engine. TLC refutes that it does not with two timers and a clock of two ticks, where the
  documentation says that "the code is executed in a single thread"
  (`docs/reference/event-loop.md:3`). It never frees one whose callback is owed:
  `OwedOutlivesThread`, checked and proved.
- `ThrownValueArrives` (`NativeCalls`): what JavaScript throws inside a conversion to a
  number or a string (`valueOf`, `toString`) is dropped for a `TypeError`, also when it was
  the error of an interrupt. It is refuted with four frames, where the documentation says
  that the exception is "constructed from the thrown value"
  (`docs/reference/exceptions.md:14`).
- `addExport` does not look at the result of `JS_AddModuleExport`: a second export of a name
  leaves an exception in the runtime, and both values are set at the first import, of which
  the last stays.
- `createInstance` leaks its instance when `addProperties` throws (the action
  `CreateInstanceThrows`).
- `interruptRuntime()` is a latch: the code it was meant for may end before the next poll,
  and the next evaluation or task is ended instead, where the comment
  (`jac/machine/machine.h:186`) speaks of the running code.
- Copy assignment of a wrapper to itself (`values.h:73`) would free what it then duplicates;
  no code of the repository does it.

## Proofs

Everything is proved for any set of threads, events, jobs, timers, delays and ticks, from
the named assumptions `LoopAssumption` (events are positive numbers, the loop is a sender
and no killer, codes are numbers), `TimersAssumption` and `MachineAssumption` (the bounds,
delays and timeouts are natural numbers), `CallsAssumption` (values, types and `None` are
distinct, `TypeError` and `InternalError` are types, the error of an interrupt is a value),
`ModulesAssumption` (files, natives and the script are distinct, files import files and
natives, and names from natives that they import), `RegistryAssumption`, `PluginsAssumption`
and `SetupAssumption` (`None` is no name and no machine, the bounds are natural numbers, the
machines with plugins are machines), `OwnershipAssumption` (there are finitely many
wrappers, `Frame` is one, `None` is no object). Negative delays, which `setTimeout` accepts,
are left out.

`EventLoopProofs`. The inductive invariant is types plus: the counters of the queue agree
with its contents (`FifoOrder` is inductive by itself); who is blocked is in `getEvent` with
no job pending, and a blocked loop with a non-empty queue has a sender between its push and
its signal (`WaitInv`); a loop that did no job in its last turn has none pending at its test
and at `getEvent`, but on its first turn or after an exit (`JobsInv`); `_shouldExit` is set
whenever someone is past the first store of `kill`, an interrupt is latched, an error is
stored or a task was counted as late (`ExitInv`). From it: `EventsInOrder`,
`NoEventStranded`, `JobsNeverWait`, `ExitIsPrompt`, `InterruptIsSwallowed`,
`RunToCompletion`, `FailedModuleIsReported`, and `Refinement`, where each step is matched
with one step of `TaskLoop` or with none. For an instance without killers there is more to
say, with `Killers = {}` as the hypothesis of the theorem: `OwnCallsInv` says that between
two calls of `exit()` or `kill()` the code is that of the last one, and that the loop is at
`getEvent` only with the flag clear, since JavaScript runs on the loop's own thread. From it
`LastExitStands` and `OwnExitIsSeen`: the wakeup that `kill()` can lose is never needed.
`loop_kill` shows what goes wrong when the hypothesis does not hold.

`TimersProofs`. One place per timer is inductive once one knows that unused ids and
ids whose callback threw have no place (`HolderInv`). The table is exact by the same
case analysis. Order needs `DueInv`: what has left the heap for its callback was due
when it left, while what enters the heap is due now or later. Spacing needs
`RoundInv`: a timer that waits again after it rang is an interval restarted no earlier
than that ring. `NoOversleep` is inductive: whoever puts a timer in the heap also wakes
the thread. The lemmas `...Moves` say where each action moves timers; the cases that
move none are grouped in `Quiet`.

`TimerServiceProofs`. `KeptInv` says that the table keeps every timer that has yet to ring, or
repeats, and was not cleared, until the machine is gone; so the timer thread's own reference is
never the last one to a callback that is owed (`ExpectedSurvives`). For `TimersImplementService`
the mapping takes a timer as waiting while it is in the heap, the thread, the queue or the event
just taken, and drops it as soon as it is cleared. The service rings in the order of deadlines,
which `DeadlineOrder` does not give by itself: it compares what waits in the queue, and not the
event that was taken from it. `RingOrder` adds that.

`MachineProofs`. `InterruptKept` is inductive with the fact that only the handler clears
the flag; spending needs the count of interrupts raised to be ahead of those spent by
one while the flag stands. `WatchdogWaits` needs `DeadlineInv`: while code runs, the
deadline is what the last reset computed, whatever timeout was set since; so it says nothing of
a timeout that was made longer after that reset.

`NativeCallsProofs`. A stack of any depth: `Owes` says of one frame what it owes, and the
lemmas `TopMoves`, `GoesKeeps`, `PopKeeps` and `PushKeeps` what each kind of stack operation
keeps, so that a step is one of them. `Faithful` is inductive with the types of what is in
flight. `Leaks` says that an exception foreign to the library is in flight, and references
are lost, only where one was thrown. `CallsImplementFlow` maps the stack to its depth, the
kind of its last frame and the one value in flight, whichever form that has; every step is a
step of `ExceptionFlow` or a stutter. It needs `Alternates`, that C++ and JavaScript frames
take turns, so that the kind of the frame that is returned to follows from the one that is
left.

`OwnershipProofs`. The count of an object is a cardinality plus two numbers, so the lemmas
`HolderChanges` and `HolderMoves` say how the number of holders changes with one wrapper, and
`OneWrapper`, `TwoWrappers`, `RawKeeps` and `FrameLeft` that the invariant is kept when the
count follows; a step is one of these. `FreeThenDupKeeps` needs that what is freed was held,
which is the count again: `HeldIsLive`. Instances need that no two objects share one and that
a used instance is not made again (`InstanceInv`).

`ModulesProofs`. The invariant has a part for each of the questions. `ModulesInv` says of
every export who owns it (`OneOwner`: one of wrapper, engine and "given back") and of every
name which export the engine has; it is kept by the five actions that touch modules, each
with a lemma, and needs that `LastOf` depends on the keys alone (`LastByKeys`,
`LastOfPrefix`). `KnownInv` follows a native name through the recursion: known once it left
the `todo` of a resolution, initialised once it left that of an evaluation, known for all
that is finished; since the first module of a name stays the first (`NamedStay`), what was
initialised is what later imports find. `VariablesInv` says that a name with a variable has
a value once its module is initialised, and `WantedInv` that what is evaluated lies in a set
of files, closed under imports, whose names all have variables: that is what linking has
tested. So code that runs has a value for each name it imports. `MetaInv` says that what is
finished has its `import.meta` or was given to `evalFile`. `FramesStay` keeps the shape of
the stack. For these the graph of imports is arbitrary.

`ModulesImplementGraph` is about what the recursion is for: the abstract `ModuleGraph` has
no stack and no stages, only files that are there when their imports are, and run once,
after them. Its hypothesis is `NoCycles`, since with a cycle a file is evaluated before one
that it imports, and TLC then refutes the property. The invariant is `GraphInv`: the stack
is a path of imports, and the files at work are on it, all at one stage (`PathInv`); what is
finished has only finished imports, and what a file at work imports was finished, and
evaluated, when it left the `todo`, or is at work just above (`LinkInv`). `NoWayBack` draws
from `NoCycles` that no frame imports a file at or below it, so that a file found finished
or untouched is never one that waits below.

`SetupProofs`. The lemma `Parts` splits a step of the composition into one of the registry,
one of the plugins, or both for a machine's end. The registry's invariant is
`ObjectsOfTheClass` with: a machine that is not ready has no registration, no prototype and
no objects, and a prototype implies a registration by the one name (`ContextInv`,
`HomeInv`). Nothing is said of an object whose prototype is none of the class. For plugins,
`RunningInv` says that the plugins of the running call are the last of the machine, so that
what is pushed is next to them. `HandleIsOfFirstGroup` marks the boundary of the violation
in `setup_handle`: the handle of a group is right exactly when the machine held no plugin
before the call. It needs to know who made what is held (`MakersInv`): where something was
held before, the handle finds a plugin of another call.

Only model-checked: liveness (`EventServed`, `ExitEndsLoop`, `DueIsServed`,
`RunawayStopped`), which is beyond the prover, and the violations. Every safety property of a
passing run is a theorem.

## Abstractions and what is not modelled

- A closure or a job is whatever it does to the loop. Values, code and the engine are
  external: QuickJS appears as a count of pending jobs and an interrupt poll. An
  interrupted promise job may end normally, since the engine turns exceptions of
  reactions into rejections, or unwind; both are possible in `TaskInterrupted`.
- `_interrupt` and `_exitCode` are plain variables written from other threads. Their
  stores are taken in program order, which the sequentially consistent store of
  `_shouldExit` before them and the compilers in use give for `_interrupt`; for the exit
  code nothing is claimed across threads.
- One module per behaviour is evaluated with `evalModuleWithEventLoop`, as the
  repository does.
- `Timers` evaluates one script before the loop, then lets callbacks and jobs create and
  clear timers. A callback that throws ends `runEventLoop`; the embedder may then call it
  again, or destroy the machine. The queue's own destructor is part of
  `DestructorJoins`.
- The hook `runOnEventLoop` does nothing in this repository.
- The values that cross a call are not modelled, only whether converting them runs
  JavaScript, throws, or fails. Running out of memory is not modelled. A handler in C++ code
  drops the exception it caught; what it throws then is new. To ask a thrown value for its
  string (`values.h:296`) runs the program's own code in JavaScript; `GetException` takes
  that as one step, which may fail for the values in `Unprintable`. Whether the error of an
  interrupt that C++ code throws again by `JS_Throw` can be caught is the engine's: both are
  possible (`uncatchable`), while `EventLoop` and `Machine` take an interrupt as the end of
  its task. An exception that meets the C code of the engine ends the behaviour: no code of
  the repository handles it.
- `Ownership` takes copy assignment of a wrapper to itself as something that callers do not
  do, and leaves out cycles (which the engine's collector frees), what an object's
  properties hold, and the wrappers that a native instance may hold. One constructor runs at
  a time. `Atom` and `StringView` repeat the operations of `ValueWrapper` over other
  resources; a copy assigned to a moved-from `Atom` would need its null context
  (`atom.h:54`), which no code of the repository does.
- In `Modules` the engine's linking is modelled from its use, and from how QuickJS works:
  variables of a native module are made once, when it is first linked, and stay when the
  link fails on another module; a file always has the names that other files import from it;
  what `InitCrashes` had written before it met an export without variable is left out, since
  nothing comes after. `Modules` leaves out graphs of imports with cycles, `evalFile` of a
  file that is loaded already (the engine would have two modules of one name), and native
  modules named like files. A module's evaluation is synchronous: top-level `await` is a job
  of `EventLoop`. The values of exports are their numbers. Exceptions that `loadCode` may
  throw other than `jac::Exception`, which only a full memory makes, are not modelled.
- `ClassRegistry` is one class, since classes share nothing. A constructor gives its object
  the prototype of `new.target`, which may be one of the class or any other (`Other`);
  JavaScript that sets the prototype of an object afterwards is left out, and so are
  machines on several threads at once: `init` takes no lock (`class.h:346`), and no
  documentation or test has them.
- `noal_func.h` is type-erased forwarding of calls. `Path` and the directory functions wrap
  `std::filesystem`, `File` a `std::fstream`: after its constructor, which `Opens` stands
  for, it has no state but that of the stream, and how much a `readsome` returns is the
  library's. Streams and stdio forward characters.
- `EventLoop` keeps the watchdog as the exception it throws into a task; `Machine` keeps
  the loop as tasks with a reset before each.

## Plan

What is left, in this order:

1. Proofs that say where the other violations stop: when a `kill()` may be missed, and when the
   destructor of the timers may wait for ever.
2. `EventLoop` with several modules evaluated at once, and with top-level `await` as the
   jobs that `Modules` now leaves out; graphs of imports with cycles.
3. `Atom` and `StringView` as instances of `Ownership` over other resources.
