------------------------------- MODULE TncSysop -------------------------------
(***************************************************************************)
(* Remote control of the TNC (aprsd.cpp, TCPSessionThread): a telnet user  *)
(* hits <Esc>, gives a name and a password of the tnc group, and from then *)
(* on talks to the TNC.  Two variables shared by all threads and protected *)
(* by no lock say so: TncSysopMode, which makes ReadCom divert what the    *)
(* TNC says from the users to charQueue, and tncMute, which keeps DeQueue  *)
(* from writing packets to the TNC.                                        *)
(*                                                                         *)
(* A step ends where a thread has read or written one of the two.  State   *)
(* is the session's own.  The messages that follow a change of state are   *)
(* sent with SendSessionStr; when that fails the thread calls endSession   *)
(* at once and so skips the assignments behind its main loop.              *)
(*                                                                         *)
(* Whoever ends a session or hits <Esc> clears the two variables, also     *)
(* when another user has the TNC; meddled and dropped, which no action     *)
(* reads, remember that for the properties.                                *)
(*                                                                         *)
(* SerialPort has the other side.  SerialPort_proofs extends both; hence   *)
(* the names that start with Sysop.                                        *)
(***************************************************************************)
EXTENDS TncMode, Naturals, FiniteSets

CONSTANT Threads  \* session threads; a name may be used again after the end

VARIABLES
    State,         \* "none" before and after the session
    place,         \* between two accesses to the shared variables, or idle
    tncMute,
    meddled,       \* a step of another user took the TNC from a sysop who
                   \* still thinks he has it
    dropped        \* a sysop was gone before he knew that he had the TNC

sysopVars == <<State, place, TncSysopMode, tncMute, meddled, dropped>>
shared == <<TncSysopMode, tncMute>>

SysopInit ==
    /\ State = [t \in Threads |-> "none"]
    /\ place = [t \in Threads |-> "idle"]
    /\ TncSysopMode = FALSE
    /\ tncMute = FALSE
    /\ meddled = FALSE
    /\ dropped = FALSE

GoOn(t, l) == place' = [place EXCEPT ![t] = l]

\* The session goes on in state s if its user could be told, else it ends.
Tell(t, s) == \E r \in {s, "none"} : State' = [State EXCEPT ![t] = r]

Idle(t, s) == State[t] = s /\ place[t] = "idle"

Connect(t) ==
    /\ Idle(t, "none")
    /\ State' = [State EXCEPT ![t] = "BASE"]
    /\ UNCHANGED <<place, shared>>

\* <Esc> in BASE: "Remote TNC control mode"
EscEnter(t) ==
    /\ Idle(t, "BASE")
    /\ Tell(t, "USER")
    /\ UNCHANGED <<place, shared>>

UserName(t) ==
    /\ Idle(t, "USER")
    /\ Tell(t, "PASS")
    /\ UNCHANGED <<place, shared>>

PasswordWrong(t) ==
    /\ Idle(t, "PASS")
    /\ Tell(t, "BASE")
    /\ UNCHANGED <<place, shared>>

\* "Login failed, TNC is busy".  The statement after it reads State == BASE;
\* so the next line of this user is taken for a password again.
PasswordBusy(t) ==
    /\ Idle(t, "PASS")
    /\ TncSysopMode
    /\ Tell(t, "PASS")
    /\ UNCHANGED <<place, shared>>

\* if(TncSysopMode == FALSE)
PasswordGood(t) ==
    /\ Idle(t, "PASS")
    /\ ~TncSysopMode
    /\ GoOn(t, "take")
    /\ UNCHANGED <<State, shared>>

\* { TncSysopMode = TRUE; State = REMOTE;
Take(t) ==
    /\ place[t] = "take"
    /\ TncSysopMode' = TRUE
    /\ State' = [State EXCEPT ![t] = "REMOTE"]
    /\ GoOn(t, "mute")
    /\ UNCHANGED tncMute

\* A bug to look for: a comparison where an assignment was meant.
MuteCompared(t) ==
    /\ place[t] = "mute"
    /\ Tell(t, "REMOTE")
    /\ GoOn(t, "idle")
    /\ UNCHANGED shared

\* tncMute = TRUE; "Login successful"
Mute(t) ==
    /\ place[t] = "mute"
    /\ tncMute' = TRUE
    /\ Tell(t, "REMOTE")
    /\ GoOn(t, "idle")
    /\ UNCHANGED TncSysopMode

\* <Esc> in any other state than BASE: tncMute = FALSE;
EscLeave(t) ==
    /\ \E s \in {"USER", "PASS", "REMOTE"} : Idle(t, s)
    /\ tncMute' = FALSE
    /\ GoOn(t, "free")
    /\ UNCHANGED <<State, TncSysopMode>>

\* TncSysopMode = FALSE; State = BASE; "Exit remote mode successfull"
Free(t) ==
    /\ place[t] = "free"
    /\ TncSysopMode' = FALSE
    /\ Tell(t, "BASE")
    /\ GoOn(t, "idle")
    /\ UNCHANGED tncMute

\* Bugs to look for: the diversion outlives its session, or the thread can be
\* ended between two assignments.
DisconnectStillDiverted(t) ==
    /\ State[t] # "none" /\ place[t] = "idle"
    /\ State' = [State EXCEPT ![t] = "none"]
    /\ UNCHANGED <<place, TncSysopMode, tncMute>>

DisconnectAnywhere(t) ==
    /\ State[t] # "none"
    /\ TncSysopMode' = FALSE
    /\ State' = [State EXCEPT ![t] = "none"]
    /\ UNCHANGED <<place, tncMute>>

\* Ctrl-D, or the connection ends: the thread leaves its main loop.
\* if(State == REMOTE) tncMute == FALSE; TncSysopMode = FALSE;
\* The comparison has no effect, and the if does not reach the assignment.
Disconnect(t) ==
    /\ State[t] # "none" /\ place[t] = "idle"
    /\ TncSysopMode' = FALSE
    /\ State' = [State EXCEPT ![t] = "none"]
    /\ UNCHANGED <<place, tncMute>>

Enters(t) ==
    \/ Connect(t)
    \/ EscEnter(t)
    \/ UserName(t)
    \/ PasswordWrong(t)
    \/ PasswordBusy(t)
    \/ PasswordGood(t)
    \/ Take(t)
    \/ Mute(t)

Leaves(t) ==
    \/ EscLeave(t)
    \/ Free(t)
    \/ Disconnect(t)

Remote == {t \in Threads : State[t] = "REMOTE"}

\* What the properties need to know of the past.
Remembered(t) ==
    /\ meddled' = (Remote' # {} /\ (meddled \/ (Leaves(t) /\ Remote \ {t} # {})))
    /\ dropped' = (TncSysopMode' /\ (dropped \/ (place[t] = "mute" /\ State'[t] = "none")))

SysopNext == \E t \in Threads : (Enters(t) \/ Leaves(t)) /\ Remembered(t)

SysopSpec == SysopInit /\ [][SysopNext]_sysopVars
------------------------------------------------------------------------------
SysopTypeOK ==
    /\ State \in [Threads -> {"none", "BASE", "USER", "PASS", "REMOTE"}]
    /\ place \in [Threads -> {"idle", "take", "mute", "free"}]
    /\ TncSysopMode \in BOOLEAN
    /\ tncMute \in BOOLEAN
    /\ meddled \in BOOLEAN
    /\ dropped \in BOOLEAN
    /\ \A t \in Threads :
          /\ place[t] # "idle" => State[t] # "none"
          /\ place[t] = "mute" => State[t] = "REMOTE"

\* No thread is between setting one of the two variables and the other.
Settled == \A t \in Threads : place[t] \notin {"mute", "free"}

\* While a session is in REMOTE state it has the TNC - what the TNC says is
\* diverted to it and DeQueue writes no packets in between - however logins,
\* exits and broken connections of several users interleave, with one
\* exception: another user hit <Esc> at a prompt or in his own remote session,
\* or ended any session at all, in the meantime (aprsd.cpp 1337-1338,
\* 1724-1730, 1788).
SysopHasTheTnc ==
    Remote # {} /\ Settled /\ ~meddled => TncSysopMode /\ tncMute

\* What the TNC says never goes where nobody reads it: while it is diverted
\* there is a session in REMOTE state, unless a sysop's connection broke
\* right when he was told that he had the TNC and nobody has cleared the
\* variable since (aprsd.cpp 1259, 1725-1730, 1788).
DivertedToSomeone == TncSysopMode => Remote # {} \/ dropped
==============================================================================
