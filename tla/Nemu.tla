-------------------------------- MODULE Nemu --------------------------------
(***************************************************************************)
(* The monitor of the emulator: the command loop of ui.c and cpu_exec of   *)
(* cpu-exec.c, composed with the watchpoints and the devices.  The signal  *)
(* of the timer and the keys of the user come in between any two steps.    *)
(*                                                                         *)
(* Of the program that is emulated only what the monitor sees is kept: the *)
(* values of a few registers (cells), the keys it reads and how it ends.   *)
(***************************************************************************)
EXTENDS Watchpoint, Devices

CONSTANTS
    DEBUG,      \* whether common.h defines it
    Names,      \* the registers that occur in expressions
    Word,       \* number of values of a register, 2^32 in the code
    SiCounts    \* arguments of si

ASSUME NemuAssumption ==
    /\ DEBUG \in BOOLEAN
    /\ Names \subseteq Chars
    /\ Word \in Nat \ {0} /\ Values = 0..(Word - 1)
    /\ SiCounts \subseteq Nat \ {0}

VARIABLES
    stage,      \* where the main program is
    n,          \* n of cpu_exec
    cells,
    atPrompt    \* the cells at the last prompt

loopVars == <<stage, n, cells, atPrompt>>
vars == <<watchVars, deviceVars, loopVars>>

Forever == -1       \* 2^64 - 1, of the command c

Alive == halted = "no" /\ dead = ""
Looping == stage \notin {"prompt", "command"}

\* expr, for sums of registers that are 0 or 1: Expr models it for all
\* operators.
Value(text, c) ==
    Cardinality({i \in DOMAIN text : text[i] \in Names /\ c[text[i]] = 1}) % Word

\* init_monitor
Init ==
    /\ WatchInit /\ DeviceInit
    /\ stage = "prompt" /\ n = 0
    /\ cells = [r \in Names |-> 0]
    /\ atPrompt = cells

-----------------------------------------------------------------------------
(* ui_mainloop *)

\* A command line was read; what was typed into the window until then goes.
ReadCommand ==
    /\ stage = "prompt" /\ stage' = "command"
    /\ sdl_clear_event_queue
    /\ UNCHANGED <<watchVars, n, cells, atPrompt>>

AtCommand == stage = "command" /\ stage' = "prompt"

Ended == nemu_state \in {"END", "ABORT"}

\* cmd_c and cmd_si up to the loop of cpu_exec.
Go(count) ==
    /\ stage = "command"
    /\ IF Ended
       THEN /\ stage' = "prompt"
            /\ UNCHANGED <<nemu_state, n>>
       ELSE /\ stage' = "exec"
            /\ nemu_state' = "RUNNING"
            /\ n' = count
    /\ UNCHANGED <<watchVars, timerVars, keyVars, cells, atPrompt>>

SetWatch ==
    /\ AtCommand
    /\ \E text \in Texts : CmdW(text, Value(text, cells))
    /\ UNCHANGED <<deviceVars, n, cells, atPrompt>>

DeleteWatch ==
    /\ AtCommand
    /\ \E num \in Numbers : CmdD(num)
    /\ UNCHANGED <<deviceVars, n, cells, atPrompt>>

\* cmd_p returns the value, as an int, and ui_mainloop ends when a command
\* returns less than 0; cmd_q returns -1.
Quits(value) == 2 * value >= Word
PrintValue ==
    /\ AtCommand
    /\ \E text \in Texts :
         dead' = IF Quits(Value(text, cells)) THEN "exit" ELSE dead
    /\ UNCHANGED <<watchVars, nemu_state, timerVars, key_queue, key_f, key_r,
                   accepted, events, typed, stale, got, n, cells, atPrompt>>

\* cmd_x and cmd_p may read the memory of a device, as a program does.
ExamineDevice ==
    /\ AtCommand
    /\ ReadKey
    /\ UNCHANGED <<watchVars, nemu_state, timerVars, n, cells, atPrompt>>

-----------------------------------------------------------------------------
(* One round of the loop of cpu_exec. *)

AfterInstr == IF DEBUG THEN "watch" ELSE "flag"

\* exec_once: an ordinary instruction, one that reads the keyboard, nemu_trap,
\* or one with an invalid opcode.  Then isa_query_intr takes an interrupt, if
\* there is one and the flag of the program, left open here, allows it.
Execute ==
    /\ stage = "exec" /\ stage' = AfterInstr
    /\ cells' \in [Names -> 0..1]
    /\ \/ UNCHANGED <<nemu_state, keyVars>>
       \/ ReadKey /\ UNCHANGED nemu_state
       \/ nemu_state' \in {"END", "ABORT"} /\ UNCHANGED keyVars
    /\ INTR' \in {INTR, FALSE}
    /\ UNCHANGED <<watchVars, device_update_flag, armed, n, atPrompt>>

\* STOP takes the place of END or ABORT, too.
StateAfterWatch(changed) == IF changed THEN "STOP" ELSE nemu_state

Watch ==
    /\ stage = "watch" /\ stage' = "flag"
    /\ LET val == [i \in Numbers |-> Value(content[i], cells)] IN
         /\ UpdateAll(val)
         /\ nemu_state' = StateAfterWatch(Whether(val))
    /\ UNCHANGED <<timerVars, keyVars, n, cells, atPrompt>>

UpdateDevices ==
    /\ stage = "flag"
    /\ IF device_update_flag
       THEN UpdateFlag /\ stage' = "poll"
       ELSE UNCHANGED deviceVars /\ stage' = "check"
    /\ UNCHANGED <<watchVars, n, cells, atPrompt>>

Poll ==
    /\ stage = "poll"
    /\ IF events # <<>>
       THEN PollEvent /\ UNCHANGED stage
       ELSE UNCHANGED deviceVars /\ stage' = "check"
    /\ UNCHANGED <<watchVars, n, cells, atPrompt>>

Breaks_atEnd == Ended
Breaks == nemu_state # "RUNNING"

\* The end of the loop's body, and of cpu_exec when the loop ends.
Check ==
    /\ stage = "check"
    /\ IF Breaks \/ n = 1
       THEN /\ stage' = "prompt"
            /\ nemu_state' = IF nemu_state = "RUNNING" THEN "STOP" ELSE nemu_state
            /\ atPrompt' = cells
            /\ n' = 0
       ELSE /\ stage' = "exec"
            /\ n' = IF n = Forever THEN n ELSE n - 1
            /\ UNCHANGED <<nemu_state, atPrompt>>
    /\ UNCHANGED <<watchVars, timerVars, keyVars, cells>>

-----------------------------------------------------------------------------

Ui ==
    \/ ReadCommand
    \/ \E count \in SiCounts \cup {Forever} : Go(count)
    \/ SetWatch
    \/ DeleteWatch
    \/ PrintValue
    \/ ExamineDevice

Loop ==
    \/ Execute
    \/ Watch
    \/ UpdateDevices
    \/ Poll
    \/ Check

World ==
    \/ Type(stage = "prompt")
    \/ Close
    \/ timer_sig_handler

Next ==
    /\ Alive
    /\ \/ Ui
       \/ Loop
       \/ World /\ UNCHANGED <<watchVars, loopVars>>

Spec == Init /\ [][Next]_vars

\* A loop of the emulator that runs goes on; its timer counts the time it runs
\* and expires again and again.
FairSpec ==
    /\ Spec
    /\ WF_vars(Alive /\ Loop)
    /\ WF_vars(Alive /\ Looping /\ timer_sig_handler
                 /\ UNCHANGED <<watchVars, loopVars>>)

-----------------------------------------------------------------------------

\* The loop never goes on to a next instruction while an expression the user
\* asked to watch has another value than when the command was given: a change
\* between two looks at the watchpoints stops the program at the next look.
\* An entry that holds another text than was asked for, as cmd_w left the end
\* of a longer one there, is not spoken of.
StopsAtChange ==
    DEBUG /\ stage = "exec" =>
        \A i \in Range(Used) : content[i] = asked[i] =>
            Value(asked[i], cells) = Value(asked[i], atPrompt)


\* No key that was typed while the debugger waited for a command reaches the
\* program that runs on after it.
StaleKeysDropped == Range(accepted) \cap stale = {}

\* The loop empties the event queue again and again, as every expiry of the
\* timer sets it again: a key that is typed while the program runs is polled,
\* unless the program stops first.
KeyHandled ==
    (Looping /\ events # <<>>) ~> (~Looping \/ ~Alive \/ events = <<>>)
=============================================================================
