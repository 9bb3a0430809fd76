------------------------------ MODULE Devices ------------------------------
(***************************************************************************)
(* The keyboard's way into the guest, nemu/src/device/device.c with        *)
(* cpu_exec and the command loop around it: SDL's event queue, the one-shot *)
(* timer whose signal sets device_update_flag at any moment, device_update *)
(* that polls the events into the i8042's ring (Keyboard), and the guest   *)
(* that reads the ring.  Each command first throws away what SDL holds.    *)
(***************************************************************************)
EXTENDS Keyboard

CONSTANTS Keys,       \* SDL's scancodes, before the truncation to uint8_t
          Truncated,  \* [Keys -> Scancodes], that truncation: of the keys beyond
                      \* uint8_t each becomes some other key
          Quit,       \* SDL_QUIT
          MaxTyped    \* bound: how many events the user causes

ASSUME DevicesAssumption ==
  /\ Truncated \in [Keys -> Scancodes]
  /\ \A k \in Keys \cap Scancodes : Truncated[k] = k
  /\ MaxTyped \in Nat

VARIABLES
  device_update_flag,
  armed,               \* the ITIMER_VIRTUAL timer is set
  sdl,                 \* SDL's queue
  pc,                  \* where the main thread is
  command,             \* the command that sdl_clear_event_queue runs for
  typed, got, lost     \* history: what the user typed, before any truncation, the
                       \* words the guest read, and whether one was thrown away

i8042 == <<ring, port, aborted>>
history == <<typed, got, lost>>
board_vars == <<i8042, nemu_state, device_update_flag, armed, sdl, pc, command, history>>

KeyEvent(k, d, p) == [key |-> k, down |-> d, prompt |-> p]
KeyEvents == [key : Keys, down : BOOLEAN, prompt : BOOLEAN]
Strokes == [key : Keys, down : BOOLEAN]
ASSUME QuitAssumption == Quit \notin KeyEvents \cup Strokes

\* The word an event stands for; that the window is closed stands for none.
WordOf(e) == IF e = Quit THEN KEY_NONE ELSE Word(Truncated[e.key], e.down)
Mapped(e) == e # Quit /\ keymap[Truncated[e.key]] # KEY_NONE

BoardInit ==
  /\ Init
  /\ device_update_flag = FALSE
  /\ armed = TRUE
  /\ sdl = << >>
  /\ pc = "prompt" /\ command = "none"
  /\ typed = << >> /\ got = << >> /\ lost = FALSE

-----------------------------------------------------------------------------
(* The world outside: the user and the timer                               *)

TypeKey(k, d) ==
  /\ pc # "exit" /\ Len(typed) < MaxTyped /\ Len(sdl) < MaxTyped
  /\ sdl' = Added(sdl, KeyEvent(k, d, pc = "prompt"))
  /\ typed' = Added(typed, [key |-> k, down |-> d])
  /\ UNCHANGED <<i8042, nemu_state, device_update_flag, armed, pc, command, got, lost>>

CloseWindow ==
  /\ pc # "exit" /\ Len(sdl) < MaxTyped /\ Quit \notin Nodes(sdl)
  /\ sdl' = Added(sdl, Quit)
  /\ UNCHANGED <<i8042, nemu_state, device_update_flag, armed, pc, command, history>>

\* Variant: the timer is not set again, it is a one-shot timer.
TimerSignalOnce ==
  /\ armed /\ pc \notin {"prompt", "exit"}
  /\ device_update_flag' = TRUE /\ armed' = FALSE
  /\ UNCHANGED <<i8042, nemu_state, sdl, pc, command, history>>

\* timer_sig_handler, between any two steps of the thread it interrupts.  The
\* timer counts the time the process computes, so not while it waits for a
\* command; timer_intr reaches a dev_raise_intr that is empty.
TimerSignal ==
  /\ armed /\ pc \notin {"prompt", "exit"}
  /\ device_update_flag' = TRUE /\ armed' = TRUE
  /\ UNCHANGED <<i8042, nemu_state, sdl, pc, command, history>>

-----------------------------------------------------------------------------
(* Commands                                                                *)

Command(c) ==
  /\ pc = "prompt"
  /\ pc' = "clear" /\ command' = c
  /\ UNCHANGED <<i8042, nemu_state, device_update_flag, armed, sdl, history>>

\* Variant: one event is taken out, not all.
ClearOne ==
  /\ pc = "clear" /\ sdl # << >>
  /\ sdl' = Without(sdl, 1)
  /\ lost' = (lost \/ Mapped(sdl[1]))
  /\ pc' = "cleared"
  /\ UNCHANGED <<i8042, nemu_state, device_update_flag, armed, command, typed, got>>

\* sdl_clear_event_queue, one event that is not looked at
Clear ==
  /\ pc = "clear" /\ sdl # << >>
  /\ sdl' = Without(sdl, 1)
  /\ lost' = (lost \/ Mapped(sdl[1]))
  /\ UNCHANGED <<i8042, nemu_state, device_update_flag, armed, pc, command, typed, got>>

Cleared ==
  /\ pc = "clear" /\ sdl = << >>
  /\ pc' = "cleared"
  /\ UNCHANGED <<i8042, nemu_state, device_update_flag, armed, sdl, command, history>>

\* c or si enters cpu_exec, unless the program has ended.
RunCommand ==
  /\ pc = "cleared" /\ command = "run"
  /\ IF nemu_state = "END" THEN pc' = "prompt" /\ UNCHANGED nemu_state
     ELSE pc' = "exec" /\ nemu_state' = "RUNNING"
  /\ command' = "none"
  /\ UNCHANGED <<i8042, device_update_flag, armed, sdl, history>>

\* x or p with the address of the data register: a read like the guest's.
LookCommand ==
  /\ pc = "cleared" /\ command = "look"
  /\ ReadKey \/ ReadNothing
  /\ lost' = (lost \/ ReadKey)
  /\ pc' = "prompt" /\ command' = "none"
  /\ UNCHANGED <<device_update_flag, armed, sdl, typed, got>>

-----------------------------------------------------------------------------
(* cpu_exec and device_update                                              *)

\* The guest's in instruction, or a load from the data register's address
ExecRead ==
  /\ pc = "exec"
  /\ ReadKey \/ ReadNothing
  /\ got' = IF ReadKey THEN Added(got, port') ELSE got
  /\ pc' = "test"
  /\ UNCHANGED <<device_update_flag, armed, sdl, command, typed, lost>>

\* Any other: it may end the program, and a watchpoint may stop it.
ExecOther(state) ==
  /\ pc = "exec"
  /\ nemu_state' = state
  /\ pc' = "test"
  /\ UNCHANGED <<i8042, device_update_flag, armed, sdl, command, history>>

\* A write to the data register or an access beside it fails an assertion; a command only
\* reads, but at any address.
AccessFails ==
  /\ pc = "exec" \/ (pc = "cleared" /\ command = "look")
  /\ BadAccess
  /\ pc' = "exit"
  /\ UNCHANGED <<device_update_flag, armed, sdl, command, history>>

TestFlag ==
  /\ pc = "test"
  /\ pc' = IF device_update_flag THEN "flagged" ELSE "check"
  /\ UNCHANGED <<i8042, nemu_state, device_update_flag, armed, sdl, command, history>>

ClearFlag ==
  /\ pc = "flagged"
  /\ device_update_flag' = FALSE
  /\ pc' = "poll"
  /\ UNCHANGED <<i8042, nemu_state, armed, sdl, command, history>>

\* Variant: the newest event is taken first.
PollKeyNewest ==
  /\ pc = "poll" /\ sdl # << >> /\ sdl[Len(sdl)] # Quit
  /\ LET e == sdl[Len(sdl)] IN
       /\ SendKey(Truncated[e.key], e.down) \/ SendIgnored(Truncated[e.key])
       /\ lost' = (lost \/ (Mapped(e) /\ ~running))
  /\ sdl' = Without(sdl, Len(sdl))
  /\ pc' = IF aborted' = "no" THEN "poll" ELSE "exit"
  /\ UNCHANGED <<device_update_flag, armed, command, typed, got>>

\* Variant: a release is taken for a press.
PollKeyDown ==
  /\ pc = "poll" /\ sdl # << >> /\ sdl[1] # Quit
  /\ LET e == sdl[1] IN
       /\ SendKey(Truncated[e.key], TRUE) \/ SendIgnored(Truncated[e.key])
       /\ lost' = (lost \/ (Mapped(e) /\ ~running))
  /\ sdl' = Without(sdl, 1)
  /\ pc' = IF aborted' = "no" THEN "poll" ELSE "exit"
  /\ UNCHANGED <<device_update_flag, armed, command, typed, got>>

PollKey ==
  /\ pc = "poll" /\ sdl # << >> /\ sdl[1] # Quit
  /\ LET e == sdl[1] IN
       /\ SendKey(Truncated[e.key], e.down) \/ SendIgnored(Truncated[e.key])
       /\ lost' = (lost \/ (Mapped(e) /\ ~running))
  /\ sdl' = Without(sdl, 1)
  /\ pc' = IF aborted' = "no" THEN "poll" ELSE "exit"
  /\ UNCHANGED <<device_update_flag, armed, command, typed, got>>

PollQuit ==
  /\ pc = "poll" /\ sdl # << >> /\ sdl[1] = Quit
  /\ sdl' = Without(sdl, 1)
  /\ pc' = "exit"
  /\ UNCHANGED <<i8042, nemu_state, device_update_flag, armed, command, history>>

PollEnd ==
  /\ pc = "poll" /\ sdl = << >>
  /\ pc' = "check"
  /\ UNCHANGED <<i8042, nemu_state, device_update_flag, armed, sdl, command, history>>

\* The loop goes on, or is left: the break, or si's count is reached.
CheckState ==
  /\ pc = "check"
  /\ \/ running /\ pc' = "exec" /\ UNCHANGED nemu_state
     \/ pc' = "prompt" /\ nemu_state' = IF running THEN "STOP" ELSE nemu_state
  /\ UNCHANGED <<i8042, device_update_flag, armed, sdl, command, history>>

-----------------------------------------------------------------------------
MainStep ==
  \/ Clear \/ Cleared \/ RunCommand \/ LookCommand
  \/ ExecRead \/ \E state \in {"RUNNING", "STOP", "END"} : ExecOther(state)
  \/ AccessFails \/ TestFlag \/ ClearFlag \/ PollKey \/ PollQuit \/ PollEnd \/ CheckState

BoardNext ==
  \/ \E k \in Keys, d \in BOOLEAN : TypeKey(k, d)
  \/ CloseWindow
  \/ TimerSignal
  \/ \E c \in {"run", "look"} : Command(c)
  \/ MainStep

BoardSpec == BoardInit /\ [][BoardNext]_board_vars

\* The thread goes on unless it waits for a command, and time passes for it.
FairSpec == BoardSpec /\ WF_board_vars(MainStep) /\ WF_board_vars(TimerSignal)

-----------------------------------------------------------------------------
(* Properties                                                              *)

\* The words the code makes of events, without those it makes none of.
Mappings(events) == Filtered([i \in 1 .. Len(events) |-> WordOf(events[i])], Events)

\* Until one is thrown away, every key event is in exactly one place, as the word
\* the code maps it to, and the places are in the order in which the user typed.
NothingLost ==
  ~lost => got \o Pending \o Mappings(sdl) = Mappings(typed)

\* The guest is told of no key and no press or release but the user's, as long as no
\* key beyond uint8_t was typed: device.c:52 makes another key of such a one.
OnlyTyped ==
  (\A e \in Nodes(typed) : e.key \in Scancodes)
    => Nodes(got) \cup Nodes(Pending) \subseteq {Word(e.key, e.down) : e \in Nodes(typed)}

\* What is typed at the debugger's prompt stays there: the command clears it
\* before it runs the guest (ui.c:193-196).
PromptKeysStay ==
  [][pc = "poll" /\ ring' # ring => sdl # << >> /\ ~sdl[1].prompt]_board_vars

\* While the program runs, SDL's queue is emptied again and again.
Delivered ==
  (running /\ sdl # << >>) ~> (sdl = << >> \/ ~running \/ pc = "exit")
=============================================================================
