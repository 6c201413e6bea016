------------------------------ MODULE Devices ------------------------------
(***************************************************************************)
(* The devices of src/device with which the outside world acts on the      *)
(* emulator: the timer signal (device.c, timer.c) and the keyboard         *)
(* (device.c, keyboard.c).  SDL's event queue and the timer of the host    *)
(* are external; typed keys are numbered, so that no two are the same.     *)
(***************************************************************************)
EXTENDS Integers, Sequences, SequencesExt

CONSTANTS
    KEY_QUEUE_LEN,  \* 1024 in the code
    NrKeys,         \* so many keys are typed
    Unmapped        \* keys for which keymap[] has _KEY_NONE

ASSUME DeviceAssumption ==
    /\ KEY_QUEUE_LEN \in Nat \ {0}
    /\ NrKeys \in Nat
    /\ Unmapped \subseteq 1..NrKeys

Keys == 1..NrKeys
_KEY_NONE == 0
Quit == -1          \* SDL_QUIT

VARIABLES
    nemu_state,     \* "RUNNING", "STOP", "END" or "ABORT"
    INTR,           \* cpu.INTR
    device_update_flag,
    armed,          \* the host's timer runs
    events,         \* what SDL_PollEvent still has to return
    key_queue, key_f, key_r,
    typed,          \* how many keys have been typed
    stale,          \* those typed while the debugger waited for a command
    accepted,       \* those send_key stored, in order
    got,            \* those read from the data port, in order: by the
                    \* program, or by the debugger's commands p and x
    dead            \* "" or why the emulator has stopped

timerVars == <<INTR, device_update_flag, armed>>
ringVars == <<key_queue, key_f, key_r, accepted, dead>>
keyVars == <<ringVars, events, typed, stale, got>>
deviceVars == <<nemu_state, timerVars, keyVars>>

\* init_device
DeviceInit ==
    /\ nemu_state = "STOP"
    /\ INTR = FALSE /\ device_update_flag = FALSE /\ armed = TRUE
    /\ events = <<>>
    /\ key_queue = [i \in 0..(KEY_QUEUE_LEN - 1) |-> _KEY_NONE]
    /\ key_f = 0 /\ key_r = 0
    /\ typed = 0 /\ stale = {} /\ accepted = <<>> /\ got = <<>>
    /\ dead = ""

-----------------------------------------------------------------------------
(* The world. *)

\* The user presses or releases a key; not after closing the window, as the
\* emulator exits before it gets there.
Type(waiting) ==
    /\ typed < NrKeys
    /\ ~Contains(events, Quit)
    /\ typed' = typed + 1
    /\ events' = Append(events, typed + 1)
    /\ stale' = IF waiting THEN stale \cup {typed + 1} ELSE stale
    /\ UNCHANGED <<nemu_state, timerVars, ringVars, got>>

\* The user closes the window.
Close ==
    /\ ~Contains(events, Quit)
    /\ events' = Append(events, Quit)
    /\ UNCHANGED <<nemu_state, timerVars, ringVars, typed, stale, got>>

-----------------------------------------------------------------------------
(* The signal handler. *)

Rearms_never == FALSE
\* The interval of the timer is 0: it expires once, unless it is set again.
Rearms == TRUE

timer_sig_handler ==
    /\ armed
    /\ INTR' = (INTR \/ nemu_state = "RUNNING")
    /\ device_update_flag' = TRUE
    /\ armed' = Rearms
    /\ UNCHANGED <<nemu_state, keyVars>>

-----------------------------------------------------------------------------
(* The main program. *)

\* device_update before its loop, when it does not return.
UpdateFlag ==
    /\ device_update_flag
    /\ device_update_flag' = FALSE
    /\ UNCHANGED <<nemu_state, INTR, armed, keyVars>>

NextRear == (key_r + 1) % KEY_QUEUE_LEN

Overflows_late == NextRear = key_r
Overflows == NextRear = key_f

\* send_key: the key is stored, and key_r moved, before the assertion.
send_key(k) ==
    IF nemu_state = "RUNNING" /\ k \notin Unmapped
    THEN /\ key_queue' = [key_queue EXCEPT ![key_r] = k]
         /\ key_r' = NextRear
         /\ accepted' = Append(accepted, k)
         /\ dead' = IF Overflows THEN "assert" ELSE dead
         /\ UNCHANGED key_f
    ELSE UNCHANGED ringVars

\* One round of the loop of device_update.
PollEvent ==
    /\ events # <<>>
    /\ events' = Tail(events)
    /\ IF Head(events) = Quit
       THEN /\ dead' = "exit"
            /\ UNCHANGED <<key_queue, key_f, key_r, accepted>>
       ELSE send_key(Head(events))
    /\ UNCHANGED <<nemu_state, timerVars, typed, stale, got>>

ClearEvents_none == events
ClearEvents == <<>>
sdl_clear_event_queue ==
    /\ events' = ClearEvents
    /\ UNCHANGED <<nemu_state, timerVars, ringVars, typed, stale, got>>

\* i8042_data_io_handler: the data port is read, by the program or the
\* debugger.
ReadKey ==
    /\ IF key_f # key_r
       THEN /\ got' = Append(got, key_queue[key_f])
            /\ key_f' = (key_f + 1) % KEY_QUEUE_LEN
       ELSE UNCHANGED <<got, key_f>>
    /\ UNCHANGED <<events, key_queue, key_r, typed, stale, accepted, dead>>

-----------------------------------------------------------------------------

QueueLen == (key_r - key_f + KEY_QUEUE_LEN) % KEY_QUEUE_LEN
InQueue == [i \in 1..QueueLen |->
                key_queue[(key_f + i - 1) % KEY_QUEUE_LEN]]

\* The keys send_key accepted are those the data port has given out, to the
\* program or to the debugger, followed by those in the ring, whatever the
\* indices wrapped around, unless the assertion has already stopped the
\* emulator.
KeysExact == dead = "assert" \/ accepted = got \o InQueue
=============================================================================
