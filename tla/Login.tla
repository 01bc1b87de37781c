-------------------------------- MODULE Login --------------------------------
(***************************************************************************)
(* The console's optional login (auth.go): the two counters that limit     *)
(* login attempts, the reservations that concurrent requests hold in them  *)
(* while a password is being checked, and the sessions a login creates.    *)
(*                                                                         *)
(* Each handler takes the mutex several times: attempt, settle and create  *)
(* are separate steps, and the password check runs between the first two.  *)
(* Time is relative: a record carries its age and what is left of its      *)
(* lockout, a session what is left of its life, and Tick advances all.     *)
(***************************************************************************)
EXTENDS Integers, FiniteSets, TLC

CONSTANTS
    None,                 \* absent entry of a map
    Addresses,            \* remote addresses
    Names,                \* usernames submitted, known or not
    LongNames,            \* those over maxUsernameBytes: no record of their own
    Admins,               \* names of administrators; the others are trustees
    Requests,             \* login requests in flight
    Tokens,               \* session tokens
    maxLoginFailures, maxIPLoginFailures,    \* 5 and 50
    loginLockout, loginFailWindow,           \* 30 s and 5 min, in ticks
    sessionTTL                               \* 12 h, in ticks

ASSUME LoginAssumption ==
    /\ maxLoginFailures \in Nat \ {0} /\ maxIPLoginFailures \in Nat \ {0}
    /\ loginLockout \in Nat \ {0} /\ loginFailWindow \in Nat /\ sessionTTL \in Nat
    /\ loginLockout <= loginFailWindow
    /\ LongNames \subseteq Names /\ Admins \subseteq Names
    /\ IsFiniteSet(Requests)
    /\ None \notin [count : Nat, age : Nat, lock : Nat]

VARIABLES
    ipFails,     \* per address
    userFails,   \* per address and name
    request,     \* what each login request is doing
    sessions,    \* the live sessions by token
    ipWrong,     \* history, per address: the wrong passwords let through less than
                 \* t ticks ago, for every t up to a lockout
    userWrong,   \* the same per address and name, since a login of that name
    anyWrong     \* whether a wrong password was ever submitted

loginVars == <<ipFails, userFails, request, sessions, ipWrong, userWrong, anyWrong>>
ghosts == <<ipWrong, userWrong, anyWrong>>

Keys == Addresses \X Names
Within == 0..loginLockout
NoGuess == [t \in Within |-> 0]
Guessed(log) == [t \in Within |-> IF t = 0 THEN 0 ELSE log[t] + 1]
Fresh == [count |-> 0, age |-> 0, lock |-> 0]
Waiting == [step |-> "none"]

-----------------------------------------------------------------------------
(* The failure records.                                                    *)

lapsed(rec) == rec.lock = 0 /\ rec.age > loginFailWindow

blocked_LockOnly(rec, limit) == rec.lock > 0
blocked(rec, limit) == rec.lock > 0 \/ rec.count >= limit

\* prune, with the caller holding the mutex.
Current(fails) ==
    [k \in DOMAIN fails |->
        IF fails[k] # None /\ lapsed(fails[k]) THEN None ELSE fails[k]]
LiveSessions_Unpruned == sessions
LiveSessions ==
    [t \in Tokens |-> IF sessions[t] # None /\ sessions[t].left = 0
                      THEN None ELSE sessions[t]]

RecordOf(fails, k) == IF fails[k] = None THEN Fresh ELSE fails[k]

\* lockAt: a record at its limit starts over, locked.
lockAt(rec, limit) ==
    IF rec # None /\ rec.count >= limit
    THEN [Fresh EXCEPT !.lock = loginLockout] ELSE rec

\* attempt: both counters take the reservation before the password is checked.
\* The address is looked at first; a record it made stays when it refuses.
attempt(r, a, n, good) ==
    LET ip    == RecordOf(Current(ipFails), a)
        user  == RecordOf(Current(userFails), <<a, n>>)
        short == n \notin LongNames
        admitted == ~blocked(ip, maxIPLoginFailures)
                    /\ (short => ~blocked(user, maxLoginFailures))
    IN  /\ sessions' = LiveSessions
        /\ ipFails' = [Current(ipFails) EXCEPT ![a] =
                IF admitted THEN [ip EXCEPT !.count = @ + 1] ELSE ip]
        /\ userFails' =
                IF short /\ ~blocked(ip, maxIPLoginFailures)
                THEN [Current(userFails) EXCEPT ![<<a, n>>] =
                        IF admitted THEN [user EXCEPT !.count = @ + 1] ELSE user]
                ELSE Current(userFails)
        /\ IF admitted
           THEN /\ request' = [request EXCEPT ![r] =
                        [step |-> "check", addr |-> a, name |-> n, good |-> good, age |-> 0]]
                /\ ipWrong' = IF good THEN ipWrong
                              ELSE [ipWrong EXCEPT ![a] = Guessed(@)]
                /\ userWrong' = IF good THEN userWrong
                                ELSE [userWrong EXCEPT ![<<a, n>>] = Guessed(@)]
           ELSE UNCHANGED <<request, ipWrong, userWrong>>
        /\ anyWrong' = (anyWrong \/ ~good)

\* A login request arrives; only a known name has a good password.
LoginArrives(r) ==
    /\ request[r] = Waiting
    /\ \E a \in Addresses, n \in Names, good \in BOOLEAN :
            (good => n \notin LongNames) /\ attempt(r, a, n, good)

\* settle after a wrong password: whichever counter reached its limit locks.
SettleFailure(r) ==
    LET a == request[r].addr  n == request[r].name
    IN  /\ request[r].step = "check" /\ ~request[r].good
        /\ ipFails' = [ipFails EXCEPT ![a] = lockAt(@, maxIPLoginFailures)]
        /\ userFails' = IF n \in LongNames THEN userFails
                        ELSE [userFails EXCEPT ![<<a, n>>] = lockAt(@, maxLoginFailures)]
        /\ request' = [request EXCEPT ![r] = Waiting]
        /\ UNCHANGED <<sessions, ghosts>>

SettleSuccess_ClearsAddress(r) ==
    LET a == request[r].addr  n == request[r].name
    IN  /\ request[r].step = "check" /\ request[r].good
        /\ ipFails' = [ipFails EXCEPT ![a] = None]
        /\ userFails' = [userFails EXCEPT ![<<a, n>>] = None]
        /\ userWrong' = [userWrong EXCEPT ![<<a, n>>] = NoGuess]
        /\ request' = [request EXCEPT ![r].step = "create"]
        /\ UNCHANGED <<sessions, ipWrong, anyWrong>>
SettleSuccess_KeepsReservation(r) ==
    LET a == request[r].addr  n == request[r].name
    IN  /\ request[r].step = "check" /\ request[r].good
        /\ userFails' = [userFails EXCEPT ![<<a, n>>] = None]
        /\ userWrong' = [userWrong EXCEPT ![<<a, n>>] = NoGuess]
        /\ request' = [request EXCEPT ![r].step = "create"]
        /\ UNCHANGED <<ipFails, sessions, ipWrong, anyWrong>>

\* settle after a login: its own record goes, its reservation on the address's
\* counter is handed back, and earlier failures of the address stand.
SettleSuccess(r) ==
    LET a == request[r].addr  n == request[r].name
    IN  /\ request[r].step = "check" /\ request[r].good
        /\ ipFails' = IF ipFails[a] # None /\ ipFails[a].count > 0
                      THEN [ipFails EXCEPT ![a].count = @ - 1] ELSE ipFails
        /\ userFails' = [userFails EXCEPT ![<<a, n>>] = None]
        /\ userWrong' = [userWrong EXCEPT ![<<a, n>>] = NoGuess]
        /\ request' = [request EXCEPT ![r].step = "create"]
        /\ UNCHANGED <<sessions, ipWrong, anyWrong>>

-----------------------------------------------------------------------------
(* Sessions.                                                               *)

\* create: a fresh token for the user who logged in.  Tokens are random and
\* never meet; a login beyond the tokens of the instance is not followed.
create(r) ==
    /\ request[r].step = "create"
    /\ request' = [request EXCEPT ![r] = Waiting]
    /\ userFails' = Current(userFails) /\ ipFails' = Current(ipFails)
    /\ \/ \E t \in Tokens :
            /\ LiveSessions[t] = None
            /\ sessions' = [LiveSessions EXCEPT ![t] =
                                [name |-> request[r].name, left |-> sessionTTL]]
       \/ sessions' = LiveSessions
    /\ UNCHANGED ghosts

\* end: /api/logout.
Logout(t) ==
    /\ sessions[t] # None
    /\ sessions' = [sessions EXCEPT ![t] = None]
    /\ UNCHANGED <<ipFails, userFails, request, ghosts>>

\* What a route asks of a session; None is a caller without one.
denial(access, sess) ==
    CASE access = "public" -> FALSE
      [] access = "signed-in" -> sess = None
      [] access = "trustee" -> IF sess = None THEN TRUE ELSE sess.name \in Admins
      [] access = "admin" -> IF sess = None THEN TRUE ELSE sess.name \notin Admins

\* authorize, of a call from outside with the login on: lookup, then the route's
\* requirement.  The console's calls to itself touch no session.
Authorize(t, access) ==
    LET sess == LiveSessions[t]
    IN  /\ ~denial(access, sess)
        /\ sessions' = LiveSessions
        /\ userFails' = Current(userFails) /\ ipFails' = Current(ipFails)
        /\ UNCHANGED <<request, ghosts>>

-----------------------------------------------------------------------------
(* Time.  A password check is a single bcrypt comparison and takes less than *)
(* a lockout; nothing else is assumed of the order of requests.             *)

Older(fails) ==
    [k \in DOMAIN fails |->
        IF fails[k] = None THEN None
        ELSE [fails[k] EXCEPT !.age = IF @ > loginFailWindow THEN @ ELSE @ + 1,
                              !.lock = IF @ = 0 THEN 0 ELSE @ - 1]]
Shift(log) == [t \in Within |-> IF t = 0 THEN 0 ELSE log[t - 1]]

Tick ==
    /\ \A r \in Requests : request[r].step = "check" => request[r].age + 1 < loginLockout
    /\ ipFails' = Older(ipFails) /\ userFails' = Older(userFails)
    /\ request' = [r \in Requests |->
            IF request[r].step = "check"
            THEN [request[r] EXCEPT !.age = @ + 1] ELSE request[r]]
    /\ sessions' = [t \in Tokens |->
            IF sessions[t] = None \/ (sessions[t] # None /\ sessions[t].left = 0)
            THEN sessions[t] ELSE [sessions[t] EXCEPT !.left = @ - 1]]
    /\ ipWrong' = [a \in Addresses |-> Shift(ipWrong[a])]
    /\ userWrong' = [k \in Keys |-> Shift(userWrong[k])]
    /\ UNCHANGED anyWrong

LoginInit ==
    /\ ipFails = [a \in Addresses |-> None]
    /\ userFails = [k \in Keys |-> None]
    /\ request = [r \in Requests |-> Waiting]
    /\ sessions = [t \in Tokens |-> None]
    /\ ipWrong = [a \in Addresses |-> NoGuess]
    /\ userWrong = [k \in Keys |-> NoGuess]
    /\ anyWrong = FALSE

LoginNext ==
    \/ \E r \in Requests :
            LoginArrives(r) \/ SettleFailure(r) \/ SettleSuccess(r) \/ create(r)
    \/ \E t \in Tokens : Logout(t)
    \/ \E t \in Tokens, access \in {"public", "signed-in", "trustee", "admin"} :
            Authorize(t, access)
    \/ Tick

LoginSpec == LoginInit /\ [][LoginNext]_loginVars

-----------------------------------------------------------------------------
(* Properties.                                                             *)

Record == [count : Nat, age : 0..(loginFailWindow + 1), lock : 0..loginLockout]

\* Every variable has its type.
LoginTypeOK ==
    /\ \A a \in Addresses : ipFails[a] # None =>
            ipFails[a] \in Record /\ ipFails[a].count <= maxIPLoginFailures
    /\ \A k \in Keys : userFails[k] # None =>
            userFails[k] \in Record /\ userFails[k].count <= maxLoginFailures
    /\ \A r \in Requests : request[r].step \in {"none", "check", "create"}
    /\ \A t \in Tokens : sessions[t] # None => sessions[t].left \in 0..sessionTTL

\* Within the time of one lockout, and with no login of that name in between, an
\* address gets at most two limits' worth of wrong passwords for one name checked,
\* however its requests overlap: one before its record lapses, one after.
GuessesPerNameBounded ==
    \A a \in Addresses, n \in Names \ LongNames :
        userWrong[<<a, n>>][loginLockout] <= 2 * maxLoginFailures

\* The same for an address over all names, and whatever logins succeed meanwhile:
\* earlier failures stand.  A login whose check outlives the record it reserved in
\* hands back a reservation of the next record instead, so the bound gives way by
\* the requests in flight, never by the logins that succeed.
GuessesPerAddressBounded ==
    \A a \in Addresses :
        ipWrong[a][loginLockout] <= 2 * maxIPLoginFailures + Cardinality(Requests)

\* A request from outside behind a role is served, with the login on, only under a
\* session that is still live: not ended by a logout and not past its time, though
\* nothing but a request prunes.
ServedUnderLiveSession ==
    \A t \in Tokens, access \in {"signed-in", "trustee", "admin"} :
        ~denial(access, LiveSessions[t]) => sessions[t] # None /\ sessions[t].left > 0

\* Overlapping requests cannot guess past either limit by more than that, and a request
\* from outside behind a role is answered only while its session lives; with the type
\* invariant.
LimitsHold ==
    /\ LoginTypeOK
    /\ GuessesPerNameBounded
    /\ GuessesPerAddressBounded
    /\ ServedUnderLiveSession

\* The logins being checked from an address, and those of one name among them.
Checking(a) == {r \in Requests : request[r].step = "check" /\ request[r].addr = a}
CheckingName(a, n) == {r \in Checking(a) : request[r].name = n}

\* Right passwords alone never lock anybody out: the counters hold at most the
\* reservations of requests still being checked, and no lock is set.
HonestNeverLocked ==
    ~anyWrong =>
        /\ \A a \in Addresses : ipFails[a] # None =>
                ipFails[a].lock = 0 /\ ipFails[a].count <= Cardinality(Checking(a))
        /\ \A a \in Addresses, n \in Names : userFails[<<a, n>>] # None =>
                /\ userFails[<<a, n>>].lock = 0
                /\ userFails[<<a, n>>].count <= Cardinality(CheckingName(a, n))

Symmetry == Permutations(Requests)
=============================================================================
