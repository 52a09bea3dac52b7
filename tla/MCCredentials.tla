---------------------------- MODULE MCCredentials ----------------------------
(***************************************************************************)
(* The credentials of a session's tasks: the grants of the keychain, the     *)
(* asks for a new one, the tokens of a connector and the logins that a       *)
(* command leaves on the sandbox. A behaviour is of one part, and the others *)
(* stay as they start.                                                       *)
(***************************************************************************)
EXTENDS KeychainGrants

CONSTANTS c1, c2, c3, d1, d2, g1, g2, p1, r1, t1, t2, u1, u2

VARIABLES
    part,      \* the component a behaviour is of; the others stay as they start
    ask, gone, granted, late, lock, creator, decider, sweep, delivered, away, faults,
    cred, issued, valid, flight, caller, clock, calls, expiries, outages, owner,
    home, noted, record, versions, turn, events, failures

OneProcess == [c \in {c1, c2, c3} |-> p1]

asksVars ==
    <<ask, gone, granted, late, lock, creator, decider, sweep, delivered, away, faults>>

tokensVars ==
    <<cred, issued, valid, flight, caller, clock, calls, expiries, outages, owner>>

loginsVars ==
    <<home, noted, record, versions, turn, events, failures>>

\* Two callers that ask, one of them a triggered turn, two that answer, and a fault.
Asks == INSTANCE KeychainAsks WITH
    MaxAsks <- 2, Creators <- {c1, c2}, Triggered <- {c2}, Deciders <- {d1, d2}, MaxFaults <- 1

\* Three callers of one process, three expiries and two outages of the provider.
Tokens == INSTANCE ConnectorTokens WITH
    Processes <- {p1}, Callers <- {c1, c2, c3}, ProcessOf <- OneProcess, MaxExpiries <- 3,
    MaxOutages <- 2, MaxOwner <- 0, MaxCalls <- 6

\* The same without an outage.
Steady == INSTANCE ConnectorTokens WITH
    Processes <- {p1}, Callers <- {c1, c2, c3}, ProcessOf <- OneProcess, MaxExpiries <- 3,
    MaxOutages <- 0, MaxOwner <- 0, MaxCalls <- 6

\* Two turns of one session, and two events.
Logins == INSTANCE DeviceLogins WITH
    Turns <- {t1, t2}, MaxVersions <- 2, MaxEvents <- 2, MaxFailures <- 0, Builtin <- FALSE,
    Oversized <- {}

\* One turn, three events and two failures, with a service whose path is swept for everyone; the
\* second version of its login is over the caps.
Login == INSTANCE DeviceLogins WITH
    Turns <- {t1}, MaxVersions <- 4, MaxEvents <- 3, MaxFailures <- 2, Builtin <- TRUE,
    Oversized <- {2}

\* A behaviour is of one part.
InitParts ==
    /\ part \in {"grants", "asks", "tokens", "usable", "logins", "login"}
    /\ Init
    /\ Asks!Init
    /\ IF part = "usable" THEN Steady!Init ELSE Tokens!Init
    /\ IF part = "login" THEN Login!Init ELSE Logins!Init

\* Only its component takes steps.
NextParts ==
    \/ /\ part = "grants" /\ Next
       /\ UNCHANGED <<part, asksVars, tokensVars, loginsVars>>
    \/ /\ part = "asks" /\ Asks!Next
       /\ UNCHANGED <<part, vars, tokensVars, loginsVars>>
    \/ /\ part = "tokens" /\ Tokens!Next
       /\ UNCHANGED <<part, vars, asksVars, loginsVars>>
    \/ /\ part = "usable" /\ Steady!Next
       /\ UNCHANGED <<part, vars, asksVars, loginsVars>>
    \/ /\ part = "logins" /\ Logins!Next
       /\ UNCHANGED <<part, vars, asksVars, tokensVars>>
    \/ /\ part = "login" /\ Login!Next
       /\ UNCHANGED <<part, vars, asksVars, tokensVars>>

allVars ==
    <<part, vars, asksVars, tokensVars, loginsVars>>

SpecParts == InitParts /\ [][NextParts]_allVars

\* An ask is answered one way, and one noted as told was told how it ended unless its task had
\* gone; the stored token of a connector can be used, and one whose refresh failed is due; a
\* login within the size caps whose hash is noted is the one that was saved.
AnswersHold ==
    /\ part = "asks" => Asks!TypeOK /\ Asks!OneAnswer /\ Asks!NotedIsTold
    /\ part = "tokens" => Tokens!TypeOK /\ Tokens!FailedIsDue
    /\ part = "usable" => Steady!TypeOK /\ Steady!StoredIsUsable
    /\ part = "login" => Login!TypeOK /\ Login!NotedIsSaved

\* A triggered turn does not ask again after a refusal, a newer refresh token is not replaced by
\* an older one, a restore does not replace a login made meanwhile, nor a capture what the owner
\* saved.
NewestStays ==
    /\ Asks!NoNagging
    /\ Tokens!NewerStays
    /\ Logins!LiveLoginWins
    /\ Logins!OperatorStays
=============================================================================
