----------------------------- MODULE SessionTurns -----------------------------
(***************************************************************************)
(* What a session promises its clients, without locks, files or events:    *)
(* messages are taken one at a time, each is worked on to the end before   *)
(* the next one is taken, a closed session takes no more of them, and a    *)
(* session that is lost with its daemon never comes back.                  *)
(***************************************************************************)
CONSTANTS Commands,  (* ids of commands; those accepted as messages matter  *)
          Nobody     (* the turn between two messages                       *)

VARIABLES phase,     (* "absent", "open", "closed" or "lost"                *)
          turn,      (* the message being worked on                         *)
          said,      (* messages taken                                      *)
          answered   (* messages worked on to the end                       *)

turnVars == <<phase, turn, said, answered>>

TurnsInit ==
    /\ phase = "absent"
    /\ turn = Nobody
    /\ said = {}
    /\ answered = {}

Open ==
    /\ phase = "absent"
    /\ phase' = "open"
    /\ UNCHANGED <<turn, said, answered>>

Say(c) ==
    /\ phase = "open"
    /\ turn = Nobody
    /\ c \notin said
    /\ turn' = c
    /\ said' = said \cup {c}
    /\ UNCHANGED <<phase, answered>>

(* The last answer of a one-shot session closes it.                        *)
Answer ==
    /\ turn # Nobody
    /\ answered' = answered \cup {turn}
    /\ turn' = Nobody
    /\ phase' \in {phase, "closed"}
    /\ UNCHANGED said

GiveUp ==
    /\ turn # Nobody
    /\ turn' = Nobody
    /\ UNCHANGED <<phase, said, answered>>

Close ==
    /\ phase = "open"
    /\ turn = Nobody
    /\ phase' = "closed"
    /\ UNCHANGED <<turn, said, answered>>

Lose ==
    /\ phase \in {"open", "closed"}
    /\ phase' = "lost"
    /\ turn' = Nobody
    /\ UNCHANGED <<said, answered>>

TurnsNext ==
    \/ Open
    \/ \E c \in Commands : Say(c)
    \/ Answer
    \/ GiveUp
    \/ Close
    \/ Lose

TurnsSpec == TurnsInit /\ [][TurnsNext]_turnVars
=============================================================================
