---------------------------- MODULE ClientProofs ----------------------------
(***************************************************************************)
(* HistoryReplays and PlaybackRestores of Client for any number of         *)
(* clients, any faults of the calls, any versions of the server and any    *)
(* size of the history, and FatalStays.                                    *)
(*                                                                         *)
(* PlaybackRestores speaks of the end of a playback only.  IInv follows it *)
(* call by call: the new session holds what the first n inputs of the      *)
(* history make, and nobody but this client changes it, since no two       *)
(* clients have the same session and no session id is given out twice.     *)
(***************************************************************************)
EXTENDS Client, WellFoundedInduction, TLAPS

\* Nearly every leaf is first-order reasoning about named facts; the ones with
\* arithmetic, sequences or records to compute cite SMT.
USE ZenonT(30)

-----------------------------------------------------------------------------
(***************************************************************************)
(* The inductive invariant.                                                *)
(***************************************************************************)
PC == {"idle", "ensure", "create", "failed", "shutdown", "terminate",
       "relaunch", "first", "playback", "second", "gone"}

Control == [pc : PC, next : {"none", "first", "playback", "check"},
            input : Inputs \cup {"none"}, n : Nat]

TypeInv ==
    /\ id \in [Clients -> Nat]
    /\ server_status \in [Clients -> ServerStatus]
    /\ DOMAIN seen = Clients
    /\ history_inputs \in [Clients -> Seq(Inputs)]
    /\ ctl \in [Clients -> Control]
    /\ DOMAIN shown = Clients
    /\ DOMAIN server = {"up", "version", "disk", "sessions"}
    /\ last_id \in Nat

\* Session ids are given out in order, to one client each.  Only a server of
\* the clients' own protocol has sessions.
SessionsInv ==
    /\ DOMAIN server.sessions \subseteq 1..last_id
    /\ \A c \in Clients : id[c] <= last_id
    /\ \A c, d \in Clients : c # d /\ id[c] = id[d] => id[c] = 0
    /\ server.version.proto # "same" => DOMAIN server.sessions = {}

\* What EnsureCallCommand knows of the status of a client, step by step.
ControlInv(c) ==
    LET k == ctl[c]
    IN  /\ k.pc \notin {"idle", "gone"} => k.next # "none"
        /\ k.next \in {"first", "playback"} => k.input \in Inputs
        /\ k.pc = "ensure" => k.next # "check"
        /\ k.pc = "first" => k.next = "first" /\ server_status[c] = "OK"
        /\ k.pc \in {"playback", "second"} => k.next = "playback"
        /\ k.pc = "playback" => server_status[c] = "OK"
        /\ k.pc = "ensure" /\ k.next = "playback" =>
              server_status[c] \in {"INVALID_SESSION", "SHUTDOWN"}

HistoryInv(c) ==
    Len(history_inputs[c]) < kMaxPlayBackSize =>
        Replay(history_inputs[c]) = shown[c]

\* The first n inputs of the history have been played back.
PlaybackInv(c) ==
    ctl[c].pc = "playback" =>
        /\ ctl[c].n <= Len(history_inputs[c])
        /\ Len(history_inputs[c]) >= kMaxPlayBackSize => ctl[c].n = 0
        /\ id[c] \in DOMAIN server.sessions =>
              server.sessions[id[c]] = After(history_inputs[c])[ctl[c].n]

\* PlaybackRestores of one client.
Restored(c) ==
    (/\ ctl[c].pc = "second" /\ server_status[c] = "OK"
     /\ id[c] \in DOMAIN server.sessions)
        => server.sessions[id[c]] = shown[c]

ClientInv(c) == ControlInv(c) /\ HistoryInv(c) /\ PlaybackInv(c) /\ Restored(c)

IInv == TypeInv /\ SessionsInv /\ \A c \in Clients : ClientInv(c)

-----------------------------------------------------------------------------
(***************************************************************************)
(* Replaying a history.                                                    *)
(***************************************************************************)
\* A set of naturals that is not empty has a least element.
LEMMA LeastNatural ==
    ASSUME NEW T, T \subseteq Nat, T # {}
    PROVE  \E n \in T : \A m \in T : n <= m
<1> DEFINE R == OpToRel(<, Nat)
<1>1. IsWellFoundedOn(R, Nat)
  BY NatLessThanWellFounded
<1>2. \A n, m \in Nat : n < m => <<n, m>> \in R
  BY DEF OpToRel
<1> HIDE DEF R
<1>3. PICK n \in T : \A m \in T : <<m, n>> \notin R
  BY <1>1, WFMin
<1>4. \A m \in T : ~(m < n)
  BY <1>2, <1>3
<1>5. QED
  BY SMT, <1>4

\* Induction up to k, for the set of the numbers a property holds of.
LEMMA InductionUpTo ==
    ASSUME NEW k \in Nat, NEW S, 0 \in S,
           \A n \in 1..k : n - 1 \in S => n \in S
    PROVE  \A n \in 0..k : n \in S
<1> DEFINE T == (0..k) \ S
<1>1. SUFFICES ASSUME T # {} PROVE FALSE
  OBVIOUS
<1>2. T \subseteq Nat
  BY SMT
<1>3. PICK n \in T : \A m \in T : n <= m
  BY <1>1, <1>2, LeastNatural
<1>4. n \in 1..k /\ n \notin S
  BY SMT
<1>5. n - 1 \in S
  BY SMT, <1>3, <1>4
<1>6. QED
  BY <1>4, <1>5

\* The equation of the function After computes by.
Replays(after, s) ==
    after = [n \in 0..Len(s) |-> IF n = 0 THEN <<>> ELSE Apply(after[n - 1], s[n])]

\* The equation has a solution, for every prefix of the inputs.
LEMMA ReplaysExist ==
    ASSUME NEW s, Len(s) \in Nat
    PROVE  \E after : Replays(after, s)
<1> DEFINE UpTo(after, k) ==
             after = [n \in 0..k |-> IF n = 0 THEN <<>> ELSE Apply(after[n - 1], s[n])]
           S == {k \in 0..Len(s) : \E after : UpTo(after, k)}
<1>1. 0 \in S
  <2> DEFINE none == [n \in 0..0 |-> <<>>]
  <2>1. UpTo(none, 0)
    <3>1. \A n \in 0..0 : n = 0
      BY SMT
    <3>2. QED
      BY <3>1
  <2>2. 0 \in 0..Len(s)
    BY SMT
  <2> HIDE DEF UpTo, none
  <2>3. QED
    BY <2>1, <2>2
<1>2. ASSUME NEW k \in 1..Len(s), k - 1 \in S
      PROVE  k \in S
  <2>1. PICK after : UpTo(after, k - 1)
    BY <1>2
  <2> DEFINE longer == [n \in 0..k |-> IF n = k THEN Apply(after[k - 1], s[k])
                                                ELSE after[n]]
  <2>2. /\ k \in 1..Len(s) /\ k \in 0..Len(s) /\ k # 0
        /\ \A n \in 0..k : n # k => n \in 0..(k - 1)
        /\ \A n \in 0..k : n # 0 => n - 1 \in 0..k /\ n - 1 # k
        /\ k - 1 \in 0..k /\ k - 1 # k
    BY SMT
  <2>3. \A n \in 0..(k - 1) :
           after[n] = IF n = 0 THEN <<>> ELSE Apply(after[n - 1], s[n])
    BY <2>1
  <2>4. \A n \in 0..k : longer[n] = IF n = k THEN Apply(after[k - 1], s[k]) ELSE after[n]
    OBVIOUS
  <2>5. \A n \in 0..k :
           longer[n] = IF n = 0 THEN <<>> ELSE Apply(longer[n - 1], s[n])
    <3> HIDE DEF longer
    <3> SUFFICES ASSUME NEW n \in 0..k
                 PROVE  longer[n] = IF n = 0 THEN <<>> ELSE Apply(longer[n - 1], s[n])
      OBVIOUS
    <3>1. CASE n = k
      BY <2>2, <2>4, <3>1
    <3>2. CASE n # k
      BY <2>2, <2>3, <2>4, <3>2
    <3>3. QED
      BY <3>1, <3>2
  <2>6. longer = [n \in 0..k |-> longer[n]]
    OBVIOUS
  <2>7. UpTo(longer, k)
    <3> HIDE DEF longer
    <3>1. QED
      BY <2>5, <2>6
  <2> HIDE DEF UpTo, longer
  <2>8. QED
    BY <2>2, <2>7
<1> HIDE DEF S
<1>3. \A k \in 0..Len(s) : k \in S
  BY <1>1, <1>2, InductionUpTo
<1>4. Len(s) \in S
  BY SMT, <1>3
<1>5. QED
  BY <1>4 DEF S, Replays

\* After starts from an empty composition and applies one input after another.
LEMMA AfterStep ==
    ASSUME NEW s, Len(s) \in Nat
    PROVE  /\ After(s)[0] = <<>>
           /\ \A n \in 1..Len(s) : After(s)[n] = Apply(After(s)[n - 1], s[n])
<1> DEFINE after == CHOOSE f : Replays(f, s)
<1>1. After(s) = after
  BY DEF After, Replays
<1>2. Replays(after, s)
  BY ReplaysExist
<1>3. /\ 0 \in 0..Len(s)
      /\ \A n \in 1..Len(s) : n \in 0..Len(s) /\ n # 0
  BY SMT
<1> HIDE DEF after
<1>4. QED
  BY <1>1, <1>2, <1>3 DEF Replays

\* What PushHistory adds to a history is replayed after the rest.
LEMMA ReplayAppend ==
    ASSUME NEW s \in Seq(Inputs), NEW in \in Inputs
    PROVE  /\ Append(s, in) \in Seq(Inputs)
           /\ Len(Append(s, in)) = Len(s) + 1
           /\ Replay(Append(s, in)) = Apply(Replay(s), in)
<1> DEFINE t == Append(s, in)
<1>1. /\ t \in Seq(Inputs)
      /\ Len(s) \in Nat
      /\ Len(t) = Len(s) + 1
      /\ t[Len(s) + 1] = in
      /\ \A n \in 1..Len(s) : t[n] = s[n]
  BY SMT
<1>2. Len(t) \in Nat
  BY SMT, <1>1
<1> HIDE DEF t
<1>3. \A n \in 0..Len(s) : After(t)[n] = After(s)[n]
  <2> DEFINE S == {n \in 0..Len(s) : After(t)[n] = After(s)[n]}
  <2>1. 0 \in S
    <3>1. 0 \in 0..Len(s)
      BY SMT, <1>1
    <3>2. QED
      BY <1>1, <1>2, <3>1, AfterStep
  <2>2. ASSUME NEW n \in 1..Len(s), n - 1 \in S PROVE n \in S
    <3>1. n \in 0..Len(s) /\ n \in 1..Len(t)
      BY SMT, <1>1
    <3>2. After(t)[n] = Apply(After(t)[n - 1], t[n])
      BY <1>2, <3>1, AfterStep
    <3>3. After(s)[n] = Apply(After(s)[n - 1], s[n])
      BY <1>1, AfterStep
    <3>4. QED
      BY <1>1, <2>2, <3>1, <3>2, <3>3
  <2> HIDE DEF S
  <2>3. \A n \in 0..Len(s) : n \in S
    BY <1>1, <2>1, <2>2, InductionUpTo
  <2>4. QED
    BY <2>3 DEF S
<1>4. Len(t) \in 1..Len(t) /\ Len(t) - 1 = Len(s) /\ Len(s) \in 0..Len(s)
  BY SMT, <1>1
<1>5. After(t)[Len(t)] = Apply(After(t)[Len(s)], in)
  BY <1>1, <1>2, <1>4, AfterStep
<1>6. QED
  BY <1>1, <1>3, <1>4, <1>5 DEF Replay, t

-----------------------------------------------------------------------------
(***************************************************************************)
(* What a call leaves of the server.                                       *)
(***************************************************************************)
\* s is the server after a step that changes no session but i, drops sessions
\* and gives out at most one new id.
Changed(s, i) ==
    /\ DOMAIN s = {"up", "version", "disk", "sessions"}
    /\ DOMAIN s.sessions \subseteq DOMAIN server.sessions \cup {last_id + 1}
    /\ \A k \in DOMAIN s.sessions \ {i, last_id + 1} :
          s.sessions[k] = server.sessions[k]
    /\ s.version.proto # "same" => DOMAIN s.sessions = {}

LEMMA EmptyDomain == DOMAIN <<>> = {}
BY SMT

LEMMA RestartChanges ==
    ASSUME TypeInv, SessionsInv, NEW i
    PROVE  Changed(server, i) /\ Changed(Down, i) /\ Changed(Fresh, i)
           /\ DOMAIN Down.sessions = {} /\ DOMAIN Fresh.sessions = {}
<1>1. DOMAIN server = {"up", "version", "disk", "sessions"}
  BY DEF TypeInv
<1>2. server.version.proto # "same" => DOMAIN server.sessions = {}
  BY DEF SessionsInv
<1>3. /\ DOMAIN Fresh = DOMAIN server
      /\ Fresh.sessions = <<>>
  BY SMT, <1>1 DEF Fresh
<1>4. /\ DOMAIN Down = DOMAIN server
      /\ Down.sessions = <<>>
  BY SMT, <1>1, <1>3 DEF Down
<1>5. QED
  BY <1>1, <1>2, <1>3, <1>4, EmptyDomain DEF Changed

\* CREATE_SESSION fails or adds an empty session.
LEMMA CreateFacts ==
    ASSUME TypeInv, SessionsInv, server.version.proto = "same",
           NEW i, NEW r \in EvalCommand("CREATE_SESSION", i)
    PROVE  /\ Changed(r.server, 0)
           /\ \/ r.out.error
              \/ /\ ~r.out.error /\ r.out.id = last_id + 1
                 /\ last_id + 1 \in DOMAIN r.server.sessions
                 /\ r.server.sessions[last_id + 1] = <<>>
<1> DEFINE new == [k \in DOMAIN server.sessions \cup {last_id + 1} |->
                      IF k = last_id + 1 THEN <<>> ELSE server.sessions[k]]
<1>1. \/ r = [server |-> server, out |-> Failure]
      \/ r = [server |-> [server EXCEPT !.sessions = new],
              out |-> [Empty EXCEPT !.id = last_id + 1]]
  BY DEF EvalCommand
<1>2. DOMAIN server = {"up", "version", "disk", "sessions"}
  BY DEF TypeInv
<1> HIDE DEF new
<1>3. CASE r = [server |-> server, out |-> Failure]
  <2>1. r.server = server /\ r.out.error
    BY SMT, <1>3 DEF Failure, Empty
  <2>2. QED
    BY <2>1, RestartChanges
<1>4. CASE r = [server |-> [server EXCEPT !.sessions = new],
                out |-> [Empty EXCEPT !.id = last_id + 1]]
  <2>1. /\ DOMAIN r.server = {"up", "version", "disk", "sessions"}
        /\ r.server.sessions = new
        /\ r.server.version = server.version
        /\ ~r.out.error /\ r.out.id = last_id + 1
    BY SMT, <1>2, <1>4 DEF Empty
  <2>2. /\ DOMAIN new = DOMAIN server.sessions \cup {last_id + 1}
        /\ new[last_id + 1] = <<>>
        /\ \A k \in DOMAIN server.sessions :
              k # last_id + 1 => new[k] = server.sessions[k]
    BY DEF new
  <2>3. QED
    BY <2>1, <2>2 DEF Changed
<1>5. QED
  BY <1>1, <1>3, <1>4

\* DELETE_SESSION, SHUTDOWN and the others change no session.
LEMMA OtherFacts ==
    ASSUME TypeInv, SessionsInv, server.version.proto = "same",
           NEW type \in {"DELETE_SESSION", "SHUTDOWN", "OTHER"},
           NEW i, NEW r \in EvalCommand(type, i)
    PROVE  /\ Changed(r.server, 0)
           /\ DOMAIN r.server.sessions \subseteq DOMAIN server.sessions
<1>1. DOMAIN server = {"up", "version", "disk", "sessions"}
  BY DEF TypeInv
<1>2. CASE type = "DELETE_SESSION"
  <2> DEFINE left == [k \in DOMAIN server.sessions \ {i} |-> server.sessions[k]]
  <2>1. r = [server |-> [server EXCEPT !.sessions = left],
             out |-> [Empty EXCEPT !.id = i]]
    BY <1>2 DEF EvalCommand
  <2>2. /\ DOMAIN left = DOMAIN server.sessions \ {i}
        /\ \A k \in DOMAIN left : left[k] = server.sessions[k]
    OBVIOUS
  <2> HIDE DEF left
  <2>3. /\ DOMAIN r.server = {"up", "version", "disk", "sessions"}
        /\ r.server.sessions = left
        /\ r.server.version = server.version
    BY SMT, <1>1, <2>1
  <2>4. QED
    BY <2>2, <2>3 DEF Changed
<1>3. CASE type = "SHUTDOWN"
  <2>1. r = [server |-> Down, out |-> Empty]
    BY <1>3 DEF EvalCommand
  <2>2. r.server = Down
    BY <2>1
  <2>3. QED
    BY <2>2, RestartChanges
<1>4. CASE type = "OTHER"
  <2>1. r = [server |-> server, out |-> [Empty EXCEPT !.id = i]]
    BY <1>4 DEF EvalCommand
  <2>2. r.server = server
    BY <2>1
  <2>3. QED
    BY <2>2, RestartChanges
<1>5. QED
  BY <1>2, <1>3, <1>4

\* Inputs are not mistaken for other types of calls.
LEMMA InputsAreKeys ==
    ASSUME NEW in \in Inputs
    PROVE  /\ in \notin CallTypes
           /\ in \in Commits => in \in {"enter", "submit", "partial"} /\ in \notin Char
           /\ in \notin Commits => in \in Char
BY ClientAssumptions DEF Inputs, CallTypes

\* What PushHistory relies on: only an input that commits has a result, and it is
\* consumed; and Enter is consumed only with a result.
Sensible(in, out) ==
    /\ out.result => out.consumed /\ in \in Commits
    /\ in = "enter" /\ out.consumed => out.result

LEMMA EmptySensible ==
    ASSUME NEW in PROVE Sensible(in, Empty)
BY SMT DEF Sensible, Empty

\* SEND_KEY and SEND_COMMAND apply the input to the session, if it is there.
LEMMA InputFacts ==
    ASSUME TypeInv, SessionsInv, server.version.proto = "same",
           NEW in \in Inputs, NEW i, NEW r \in EvalCommand(in, i)
    PROVE  /\ Changed(r.server, i)
           /\ DOMAIN r.server.sessions = DOMAIN server.sessions
           /\ i \in DOMAIN server.sessions =>
                 r.server.sessions[i] = Apply(server.sessions[i], in)
           /\ Sensible(in, r.out)
<1>0. in \notin CallTypes /\ (in \in Commits => in \notin Char)
      /\ (in \in Char => in # "enter") /\ in \in Char \cup Commits
  BY InputsAreKeys, ClientAssumptions DEF Inputs
<1>1. DOMAIN server = {"up", "version", "disk", "sessions"}
  BY DEF TypeInv
<1>2. CASE i \notin DOMAIN server.sessions
  <2>1. r = [server |-> server, out |-> Failure]
    BY <1>0, <1>2 DEF EvalCommand, CallTypes
  <2>2. r.server = server /\ ~r.out.consumed /\ ~r.out.result
    BY SMT, <2>1 DEF Failure, Empty
  <2>3. QED
    BY <1>2, <2>2, RestartChanges DEF Sensible
<1>3. CASE i \in DOMAIN server.sessions
  <2> DEFINE typed == server.sessions[i]
             consumed == in \in Char \/ typed # <<>>
             result == in \in Commits /\ typed # <<>>
             out == [id |-> i, error |-> FALSE,
                     consumed |-> consumed, result |-> result]
  <2>1. r = [server |-> [server EXCEPT !.sessions[i] = Apply(typed, in)], out |-> out]
    BY <1>0, <1>3 DEF EvalCommand, CallTypes
  <2> DEFINE new == [server.sessions EXCEPT ![i] = Apply(typed, in)]
  <2>2. /\ DOMAIN new = DOMAIN server.sessions
        /\ new[i] = Apply(typed, in)
        /\ \A k \in DOMAIN server.sessions : k # i => new[k] = server.sessions[k]
    BY <1>3
  <2> HIDE DEF new, typed
  <2>3. r.server = [server EXCEPT !.sessions = new] /\ r.out = out
    BY <2>1 DEF new
  <2>4. /\ DOMAIN r.server = {"up", "version", "disk", "sessions"}
        /\ r.server.sessions = new
        /\ r.server.version = server.version
    BY SMT, <1>1, <2>3
  <2> HIDE DEF consumed, result
  <2>5. (r.out.consumed <=> consumed) /\ (r.out.result <=> result)
    BY SMT, <2>3
  <2>6. Changed(r.server, i)
    BY <2>2, <2>4 DEF Changed
  <2>7. QED
    BY <1>0, <1>3, <2>2, <2>4, <2>5, <2>6 DEF typed, consumed, result, Sensible
<1>4. QED
  BY <1>2, <1>3

\* A call that returned was served, or the server died and closed the
\* connection; one that failed may have been served.
Answered(o, type, i) ==
    \/ o.server = Down /\ o.out = Empty
    \/ \E r \in EvalCommand(type, i) : o.server = r.server /\ o.out = r.out
MayBeServed(o, type, i) ==
    \/ o.server \in {server, Down}
    \/ \E r \in EvalCommand(type, i) : o.server = r.server

\* The ends of a call, one by one.
LEMMA CallEnds ==
    ASSUME NEW c \in Clients, NEW type, NEW i, NEW o \in Call(c, type, i)
    PROVE  LET st == server_status[c]
           IN  \/ /\ st \in Blocked
                  /\ ~o.ok /\ o.status = st /\ o.server = server
               \/ /\ st \notin Blocked
                  /\ ~o.ok /\ o.server = server
                  /\ o.status = IF st = "UNKNOWN" THEN st ELSE "SHUTDOWN"
               \/ /\ st \notin Blocked /\ server.version.proto # "same"
                  /\ ~o.ok /\ o.status = st /\ o.server = server
                  /\ o.seen = server.version
               \/ /\ st \notin Blocked /\ server.version.proto = "same"
                  /\ \/ o.ok /\ o.status = st /\ Answered(o, type, i)
                     \/ /\ ~o.ok
                        /\ o.status \in {"SHUTDOWN", "TIMEOUT", "BROKEN_MESSAGE"}
                        /\ MayBeServed(o, type, i)
<1> DEFINE st == server_status[c]
           fail == [ok |-> FALSE, status |-> st, seen |-> seen[c],
                    server |-> server, out |-> Empty]
           met == [fail EXCEPT !.seen = server.version]
           mine == [proto |-> "same", old |-> FALSE]
           down == IF st = "UNKNOWN" THEN st ELSE "SHUTDOWN"
<1>0. /\ DOMAIN met = {"ok", "status", "seen", "server", "out"}
      /\ met.ok = FALSE /\ met.status = st /\ met.seen = server.version
      /\ met.server = server /\ met.out = Empty
  <2> HIDE DEF st
  <2>1. QED
    BY SMT
<1>1. CASE st \in Blocked
  <2>1. o = fail
    BY <1>1 DEF Call
  <2>2. QED
    BY <1>1, <2>1
<1>2. CASE st \notin Blocked /\ ~server.up
  <2>1. o = [fail EXCEPT !.seen = mine, !.status = down]
    BY <1>2 DEF Call
  <2> HIDE DEF mine, down
  <2>2. ~o.ok /\ o.server = server /\ o.status = down
    BY SMT, <2>1
  <2>3. QED
    BY <1>2, <2>2 DEF down
<1>3. CASE st \notin Blocked /\ server.up /\ server.version.proto # "same"
  <2>1. o = met
    BY <1>3 DEF Call
  <2> HIDE DEF met
  <2>2. ~o.ok /\ o.status = st /\ o.server = server /\ o.seen = server.version
    BY <1>0, <2>1
  <2>3. QED
    BY <1>3, <2>2
<1>4. CASE st \notin Blocked /\ server.up /\ server.version.proto = "same"
  <2>1. \/ \E r \in EvalCommand(type, i) :
              o = [met EXCEPT !.ok = TRUE, !.server = r.server, !.out = r.out]
        \/ o = [met EXCEPT !.status = "SHUTDOWN", !.server = Down]
        \/ o = [met EXCEPT !.ok = TRUE, !.server = Down]
        \/ \E s \in {server} \cup {r.server : r \in EvalCommand(type, i)} :
              o = [met EXCEPT !.status = "TIMEOUT", !.server = s]
        \/ \E r \in EvalCommand(type, i) :
              o = [met EXCEPT !.status = "BROKEN_MESSAGE", !.server = r.server]
    BY <1>4 DEF Call
  <2> HIDE DEF met, fail, st
  <2>2. ASSUME NEW r \in EvalCommand(type, i),
               o = [met EXCEPT !.ok = TRUE, !.server = r.server, !.out = r.out]
        PROVE  o.ok /\ o.status = st /\ o.server = r.server /\ o.out = r.out
    BY SMT, <1>0, <2>2
  <2>3. ASSUME o = [met EXCEPT !.status = "SHUTDOWN", !.server = Down]
        PROVE  ~o.ok /\ o.status = "SHUTDOWN" /\ o.server = Down
    BY SMT, <1>0, <2>3
  <2>4. ASSUME o = [met EXCEPT !.ok = TRUE, !.server = Down]
        PROVE  o.ok /\ o.status = st /\ o.server = Down /\ o.out = Empty
    BY SMT, <1>0, <2>4
  <2>5. ASSUME NEW s, o = [met EXCEPT !.status = "TIMEOUT", !.server = s]
        PROVE  ~o.ok /\ o.status = "TIMEOUT" /\ o.server = s
    BY SMT, <1>0, <2>5
  <2>6. ASSUME NEW r, o = [met EXCEPT !.status = "BROKEN_MESSAGE", !.server = r.server]
        PROVE  ~o.ok /\ o.status = "BROKEN_MESSAGE" /\ o.server = r.server
    BY SMT, <1>0, <2>6
  <2>7. \/ o.ok /\ o.status = st /\ Answered(o, type, i)
        \/ /\ ~o.ok
           /\ o.status \in {"SHUTDOWN", "TIMEOUT", "BROKEN_MESSAGE"}
           /\ MayBeServed(o, type, i)
    <3>1. CASE \E r \in EvalCommand(type, i) :
                 o = [met EXCEPT !.ok = TRUE, !.server = r.server, !.out = r.out]
      BY <2>2, <3>1 DEF Answered
    <3>2. CASE o = [met EXCEPT !.status = "SHUTDOWN", !.server = Down]
      BY <2>3, <3>2 DEF MayBeServed
    <3>3. CASE o = [met EXCEPT !.ok = TRUE, !.server = Down]
      BY <2>4, <3>3 DEF Answered
    <3>4. CASE \E s \in {server} \cup {r.server : r \in EvalCommand(type, i)} :
                 o = [met EXCEPT !.status = "TIMEOUT", !.server = s]
      <4>1. PICK s \in {server} \cup {r.server : r \in EvalCommand(type, i)} :
               o = [met EXCEPT !.status = "TIMEOUT", !.server = s]
        BY <3>4
      <4>2. ~o.ok /\ o.status = "TIMEOUT" /\ o.server = s
        BY <2>5, <4>1
      <4>3. MayBeServed(o, type, i)
        BY <4>2 DEF MayBeServed
      <4>4. QED
        BY <4>2, <4>3
    <3>5. CASE \E r \in EvalCommand(type, i) :
                 o = [met EXCEPT !.status = "BROKEN_MESSAGE", !.server = r.server]
      BY <2>6, <3>5 DEF MayBeServed
    <3>6. QED
      BY <2>1, <3>1, <3>2, <3>3, <3>4, <3>5
  <2>8. QED
    BY <1>4, <2>7 DEF st
<1>5. QED
  BY <1>1, <1>2, <1>3, <1>4

\* How a call ends that did not return: the status tells.
LEMMA CallFails ==
    ASSUME NEW c \in Clients, NEW type, NEW i, NEW o \in Call(c, type, i), ~o.ok
    PROVE  /\ o.status \in {server_status[c], "SHUTDOWN", "TIMEOUT", "BROKEN_MESSAGE"}
           /\ server_status[c] \in Blocked => o.status = server_status[c]
BY CallEnds

\* Only a server of another protocol leaves SERVER_OK as it was.
LEMMA WorkingCallFails ==
    ASSUME NEW c \in Clients, NEW type, NEW i, NEW o \in Call(c, type, i), ~o.ok,
           server_status[c] = "OK"
    PROVE  \/ o.status \in {"SHUTDOWN", "TIMEOUT", "BROKEN_MESSAGE"}
           \/ /\ server.version.proto # "same"
              /\ o.server = server /\ o.seen = server.version
<1>1. "OK" \notin Blocked /\ "UNKNOWN" # "OK"
  BY DEF Blocked
<1>2. QED
  BY <1>1, CallEnds

\* How a call ends that returned.
LEMMA CallReturns ==
    ASSUME NEW c \in Clients, NEW type, NEW i, NEW o \in Call(c, type, i), o.ok
    PROVE  /\ o.status = server_status[c] /\ server_status[c] \notin Blocked
           /\ server.version.proto = "same"
           /\ Answered(o, type, i)
BY CallEnds

\* What becomes of the server.
LEMMA CallServers ==
    ASSUME NEW c \in Clients, NEW type, NEW i, NEW o \in Call(c, type, i)
    PROVE  \/ o.server \in {server, Down}
           \/ /\ server.version.proto = "same"
              /\ \E r \in EvalCommand(type, i) : o.server = r.server
<1>1. Answered(o, type, i) => MayBeServed(o, type, i)
  BY DEF Answered, MayBeServed
<1>2. ASSUME o.server # server
      PROVE  server.version.proto = "same" /\ MayBeServed(o, type, i)
  BY <1>1, <1>2, CallEnds
<1>3. QED
  BY <1>2 DEF MayBeServed

\* A call of a client changes no session but its own.
LEMMA CallChanges ==
    ASSUME TypeInv, SessionsInv, NEW c \in Clients, NEW type \in CallTypes \cup Inputs,
           NEW i, NEW o \in Call(c, type, i)
    PROVE  /\ type \in Inputs => Changed(o.server, i)
           /\ type \in CallTypes => Changed(o.server, 0)
           /\ type # "CREATE_SESSION" =>
                 DOMAIN o.server.sessions \subseteq DOMAIN server.sessions
<1>1. CASE o.server = server
  BY <1>1, RestartChanges
<1>2. CASE o.server = Down
  <2>1. DOMAIN o.server.sessions = {}
    BY <1>2, RestartChanges
  <2>2. QED
    BY <1>2, <2>1, RestartChanges
<1>3. ASSUME server.version.proto = "same", NEW r \in EvalCommand(type, i),
             o.server = r.server
      PROVE  /\ type \in Inputs => Changed(o.server, i)
             /\ type \in CallTypes => Changed(o.server, 0)
             /\ type # "CREATE_SESSION" =>
                   DOMAIN o.server.sessions \subseteq DOMAIN server.sessions
  <2>1. CASE type \in Inputs
    <3>1. type \notin CallTypes
      BY <2>1, InputsAreKeys
    <3>2. /\ Changed(r.server, i)
          /\ DOMAIN r.server.sessions = DOMAIN server.sessions
      BY <1>3, <2>1, InputFacts
    <3>3. QED
      BY <1>3, <3>1, <3>2
  <2>2. CASE type = "CREATE_SESSION"
    <3>1. type \notin Inputs
      BY <2>2, InputsAreKeys DEF CallTypes
    <3>2. QED
      BY <1>3, <2>2, <3>1, CreateFacts
  <2>3. CASE type \in {"DELETE_SESSION", "SHUTDOWN", "OTHER"}
    <3>1. type \notin Inputs
      BY <2>3, InputsAreKeys DEF CallTypes
    <3>2. QED
      BY <1>3, <2>3, <3>1, OtherFacts
  <2>4. QED
    BY <2>1, <2>2, <2>3 DEF CallTypes
<1>4. QED
  BY <1>1, <1>2, <1>3, CallServers

\* EnsureConnection fails into SERVER_FATAL, and never leaves it.  StartServer
\* keeps a server or starts one.
LEMMA ConnectionEnds ==
    ASSUME NEW st, NEW o \in EnsureConnection(st)
    PROVE  /\ o.server \in {server, Fresh}
           /\ o.status \in {"OK", "INVALID_SESSION", "FATAL"}
           /\ o.ok <=> o.status # "FATAL"
           /\ o.status = "OK" => st = "OK"
           /\ st = "FATAL" => o.status = "FATAL"
<1>1. CASE st \in {"OK", "INVALID_SESSION"}
  <2>1. o = [ok |-> TRUE, status |-> st, server |-> server]
    BY <1>1 DEF EnsureConnection, Blocked
  <2>2. o.ok /\ o.status = st /\ o.server = server
    BY <2>1
  <2>3. QED
    BY SMT, <1>1, <2>2
<1>2. CASE st \in Blocked
  <2>1. o = [ok |-> FALSE, status |-> "FATAL", server |-> server]
    BY <1>2 DEF EnsureConnection, Blocked
  <2>2. QED
    BY <1>2, <2>1 DEF Blocked
<1>3. CASE st \notin {"OK", "INVALID_SESSION"} \cup Blocked
  <2>1. PICK r \in StartServer :
           o = [ok |-> r.ok, server |-> r.server,
                status |-> IF r.ok THEN "INVALID_SESSION" ELSE "FATAL"]
    BY <1>3 DEF EnsureConnection
  <2>2. /\ o.ok = r.ok /\ o.server = r.server
        /\ o.status = IF r.ok THEN "INVALID_SESSION" ELSE "FATAL"
    BY <2>1
  <2>3. \/ r = [ok |-> TRUE, server |-> server]
        \/ r = [ok |-> TRUE, server |-> Fresh]
        \/ r = [ok |-> FALSE, server |-> server]
    BY DEF StartServer
  <2>4. r.server \in {server, Fresh}
    <3>1. CASE r = [ok |-> TRUE, server |-> server]
      BY <3>1
    <3>2. CASE r = [ok |-> TRUE, server |-> Fresh]
      BY <3>2
    <3>3. CASE r = [ok |-> FALSE, server |-> server]
      BY <3>3
    <3>4. QED
      BY <2>3, <3>1, <3>2, <3>3
  <2>5. QED
    BY SMT, <1>3, <2>2, <2>4 DEF Blocked
<1>4. QED
  BY <1>1, <1>2, <1>3

\* No session is added, and none changed.
LEMMA ConnectionFacts ==
    ASSUME TypeInv, SessionsInv, NEW st, NEW o \in EnsureConnection(st)
    PROVE  /\ Changed(o.server, 0)
           /\ DOMAIN o.server.sessions \subseteq DOMAIN server.sessions
           /\ o.status \in {"OK", "INVALID_SESSION", "FATAL"}
           /\ o.status = "OK" => st = "OK"
<1>1. o.server \in {server, Fresh}
  BY ConnectionEnds
<1>2. /\ Changed(o.server, 0)
      /\ DOMAIN o.server.sessions \subseteq DOMAIN server.sessions
  BY <1>1, RestartChanges
<1>3. o.status \in {"OK", "INVALID_SESSION", "FATAL"} /\ (o.status = "OK" => st = "OK")
  BY ONLY ConnectionEnds
<1>4. QED
  BY <1>2, <1>3

-----------------------------------------------------------------------------
(***************************************************************************)
(* A step of one client.                                                   *)
(***************************************************************************)
\* The server goes on, and no session but i changes.
ServerStep(i) ==
    /\ Changed(server', i)
    /\ last_id' \in {last_id, last_id + 1}
    /\ last_id + 1 \in DOMAIN server'.sessions => last_id' = last_id + 1

\* The step is one of c.
OthersWait(c) ==
    \A d \in Clients \ {c} :
        /\ id'[d] = id[d] /\ server_status'[d] = server_status[d]
        /\ history_inputs'[d] = history_inputs[d]
        /\ ctl'[d] = ctl[d] /\ shown'[d] = shown[d]

LEMMA CallStep ==
    ASSUME TypeInv, SessionsInv, NEW i, NEW o, NEW type, Changed(o.server, i),
           ServerAfter(o, type)
    PROVE  ServerStep(i)
<1>1. last_id \in Nat /\ DOMAIN server.sessions \subseteq 1..last_id
  BY DEF TypeInv, SessionsInv
<1>2. server' = o.server
  BY DEF ServerAfter
<1>3. last_id' = IF \E k \in DOMAIN o.server.sessions : k > last_id
                 THEN last_id + 1 ELSE last_id
  BY DEF ServerAfter
<1>4. last_id + 1 > last_id
  BY SMT, <1>1
<1>5. QED
  BY <1>2, <1>3, <1>4 DEF ServerStep

LEMMA QuietServer ==
    ASSUME TypeInv, SessionsInv, NEW i, Changed(server', i), last_id' = last_id,
           DOMAIN server'.sessions \subseteq DOMAIN server.sessions
    PROVE  ServerStep(i)
<1>1. last_id \in Nat /\ DOMAIN server.sessions \subseteq 1..last_id
  BY DEF TypeInv, SessionsInv
<1>2. last_id + 1 \notin 1..last_id
  BY SMT, <1>1
<1>3. QED
  BY <1>1, <1>2 DEF ServerStep

LEMMA ServerStays ==
    ASSUME TypeInv, SessionsInv, UNCHANGED <<server, last_id>>
    PROVE  ServerStep(0)
<1>1. Changed(server', 0)
  BY RestartChanges DEF Changed
<1>2. QED
  BY <1>1, QuietServer

\* A session that a step leaves alone.
LEMMA SessionKept ==
    ASSUME TypeInv, SessionsInv, NEW i, ServerStep(i), NEW d \in Clients,
           id[d] # i, id[d] \in DOMAIN server'.sessions
    PROVE  /\ id[d] \in DOMAIN server.sessions
           /\ server'.sessions[id[d]] = server.sessions[id[d]]
<1>1. id[d] \in Nat /\ last_id \in Nat /\ id[d] <= last_id
  BY DEF TypeInv, SessionsInv
<1>2. id[d] # last_id + 1
  BY SMT, <1>1
<1>3. QED
  BY <1>2 DEF ServerStep, Changed

LEMMA ServerIds ==
    ASSUME TypeInv, SessionsInv, NEW i, ServerStep(i)
    PROVE  DOMAIN server'.sessions \subseteq 1..last_id'
<1>1. /\ last_id \in Nat /\ last_id' \in {last_id, last_id + 1}
      /\ DOMAIN server.sessions \subseteq 1..last_id
  BY DEF TypeInv, SessionsInv, ServerStep
<1>2. DOMAIN server'.sessions \subseteq DOMAIN server.sessions \cup {last_id + 1}
  BY DEF ServerStep, Changed
<1>3. last_id + 1 \in DOMAIN server'.sessions => last_id' = last_id + 1
  BY DEF ServerStep
<1>4. \A k \in 1..last_id : k \in 1..last_id'
  BY SMT, <1>1
<1>5. last_id' = last_id + 1 => last_id + 1 \in 1..last_id'
  BY SMT, <1>1
<1>6. QED
  BY <1>1, <1>2, <1>3, <1>4, <1>5

\* Ids stay within what was given out, and with one client each.
LEMMA SessionsNext ==
    ASSUME TypeInv, SessionsInv, NEW i, ServerStep(i), NEW c \in Clients,
           OthersWait(c),
           \/ id'[c] \in {0, id[c]}
           \/ id'[c] = last_id + 1 /\ last_id' = last_id + 1
    PROVE  SessionsInv'
<1>1. /\ last_id \in Nat /\ last_id' \in {last_id, last_id + 1}
      /\ DOMAIN server.sessions \subseteq 1..last_id
      /\ \A d \in Clients : id[d] \in Nat /\ id[d] <= last_id
      /\ \A d \in Clients : d # c => id'[d] = id[d]
      /\ \A d, e \in Clients : d # e /\ id[d] = id[e] => id[d] = 0
  BY DEF TypeInv, SessionsInv, ServerStep, OthersWait
<1>2. DOMAIN server'.sessions \subseteq 1..last_id'
  BY ServerIds
<1>3. \A d \in Clients : id'[d] <= last_id'
  BY SMT, <1>1
<1>4. \A d \in Clients : id[d] # last_id + 1
  BY SMT, <1>1
<1>5. \A d, e \in Clients : d # e /\ id'[d] = id'[e] => id'[d] = 0
  BY <1>1, <1>4
<1>6. server'.version.proto # "same" => DOMAIN server'.sessions = {}
  BY DEF ServerStep, Changed
<1>7. QED
  BY <1>2, <1>3, <1>5, <1>6 DEF SessionsInv

\* A client that takes no step does not notice one that leaves its session alone.
LEMMA ClientKept ==
    ASSUME IInv, NEW i, ServerStep(i), NEW d \in Clients, id[d] = i => i = 0,
           id'[d] = id[d], server_status'[d] = server_status[d],
           history_inputs'[d] = history_inputs[d], ctl'[d] = ctl[d],
           shown'[d] = shown[d]
    PROVE  ClientInv(d)'
<1>1. TypeInv /\ SessionsInv /\ ClientInv(d)
  BY DEF IInv
<1>2. ASSUME id[d] \in DOMAIN server'.sessions
      PROVE  /\ id[d] \in DOMAIN server.sessions
             /\ server'.sessions[id[d]] = server.sessions[id[d]]
  <2>1. id[d] # 0
    <3>1. DOMAIN server'.sessions \subseteq DOMAIN server.sessions \cup {last_id + 1}
      BY DEF ServerStep, Changed
    <3>2. DOMAIN server.sessions \subseteq 1..last_id /\ last_id \in Nat
      BY <1>1 DEF SessionsInv, TypeInv
    <3>3. 0 \notin 1..last_id /\ 0 # last_id + 1
      BY SMT, <3>2
    <3>4. QED
      BY <1>2, <3>1, <3>2, <3>3
  <2>2. id[d] # i
    BY <2>1
  <2>3. QED
    BY <1>1, <1>2, <2>2, SessionKept
<1>3. ControlInv(d)'
  BY <1>1 DEF ClientInv, ControlInv
<1>4. HistoryInv(d)'
  BY <1>1 DEF ClientInv, HistoryInv
<1>5. PlaybackInv(d)'
  BY <1>1, <1>2 DEF ClientInv, PlaybackInv
<1>6. Restored(d)'
  BY <1>1, <1>2 DEF ClientInv, Restored
<1>7. QED
  BY <1>3, <1>4, <1>5, <1>6 DEF ClientInv

\* The other clients do not notice a step of c.
LEMMA OthersKept ==
    ASSUME IInv, NEW i, ServerStep(i), NEW c \in Clients, i \in {0, id[c]},
           OthersWait(c), NEW d \in Clients, d # c
    PROVE  ClientInv(d)'
<1>1. id[d] = i => i = 0
  BY DEF IInv, SessionsInv
<1>2. QED
  BY <1>1, ClientKept DEF OthersWait

LEMMA ClientStep ==
    ASSUME IInv, NEW i, ServerStep(i), NEW c \in Clients, i \in {0, id[c]},
           OthersWait(c), TypeInv', ClientInv(c)',
           \/ id'[c] \in {0, id[c]}
           \/ id'[c] = last_id + 1 /\ last_id' = last_id + 1
    PROVE  IInv'
<1>1. SessionsInv'
  BY SessionsNext DEF IInv
<1>2. \A d \in Clients : ClientInv(d)'
  BY OthersKept
<1>3. QED
  BY <1>1, <1>2 DEF IInv

\* What Goto, Return and SetStatus assign.
LEMMA GotoFacts ==
    ASSUME TypeInv, NEW c \in Clients, NEW pc \in PC, Goto(c, pc)
    PROVE  /\ ctl' \in [Clients -> Control]
           /\ ctl'[c].pc = pc /\ ctl'[c].n = 0
           /\ ctl'[c].next = ctl[c].next /\ ctl'[c].input = ctl[c].input
           /\ \A d \in Clients \ {c} : ctl'[d] = ctl[d]
<1> DEFINE k == [ctl[c] EXCEPT !.pc = pc, !.n = 0]
<1>1. ctl[c] \in Control /\ ctl \in [Clients -> Control]
  BY DEF TypeInv
<1>2. /\ k.pc = pc /\ k.n = 0
      /\ k.next = ctl[c].next /\ k.input = ctl[c].input
  BY SMT, <1>1 DEF Control
<1>4. 0 \in Nat
  BY SMT
<1>5. k \in Control
  BY <1>1, <1>4 DEF Control
<1>3. ctl' = [ctl EXCEPT ![c] = k]
  BY DEF Goto
<1> HIDE DEF k
<1>6. QED
  BY <1>1, <1>2, <1>3, <1>5

LEMMA ReturnFacts ==
    ASSUME TypeInv, NEW c \in Clients, Return(c)
    PROVE  /\ ctl' \in [Clients -> Control]
           /\ ctl'[c].pc = "idle" /\ ctl'[c].next = "none"
           /\ \A d \in Clients \ {c} : ctl'[d] = ctl[d]
BY SMT DEF TypeInv, Return, Idle, Control, PC

LEMMA StatusFacts ==
    ASSUME TypeInv, NEW c \in Clients, NEW st \in ServerStatus, SetStatus(c, st)
    PROVE  /\ server_status' \in [Clients -> ServerStatus]
           /\ server_status'[c] = st
           /\ \A d \in Clients \ {c} : server_status'[d] = server_status[d]
BY DEF TypeInv, SetStatus

\* The history, and what the user sees, stay.
LEMMA HistoryStays ==
    ASSUME IInv, NEW c \in Clients, history_inputs'[c] = history_inputs[c],
           shown'[c] = shown[c]
    PROVE  HistoryInv(c)'
BY DEF IInv, ClientInv, HistoryInv

\* A step of c that does not lead into a call of EnsureCallCommand.
Quiet(c) ==
    /\ OthersWait(c)
    /\ history_inputs' = history_inputs /\ shown' = shown
    /\ DOMAIN seen' = Clients
    /\ server_status' \in [Clients -> ServerStatus]
    /\ ctl' \in [Clients -> Control]
    /\ id' \in [Clients -> Nat] /\ id'[c] \in {0, id[c]}
    /\ ctl'[c].pc \notin {"first", "playback", "second"}

LEMMA QuietStep ==
    ASSUME IInv, NEW i, ServerStep(i), NEW c \in Clients, i \in {0, id[c]}, Quiet(c),
           ctl'[c].pc \notin {"idle", "gone"} => ctl'[c].next # "none",
           ctl'[c].next \in {"first", "playback"} => ctl'[c].input \in Inputs,
           ctl'[c].pc = "ensure" =>
               /\ ctl'[c].next # "check"
               /\ ctl'[c].next = "playback" =>
                     server_status'[c] \in {"INVALID_SESSION", "SHUTDOWN"}
    PROVE  IInv'
<1>1. TypeInv'
  <2>1. DOMAIN server' = {"up", "version", "disk", "sessions"}
    BY DEF ServerStep, Changed
  <2>2. last_id' \in Nat
    BY SMT DEF IInv, TypeInv, ServerStep
  <2>3. QED
    BY <2>1, <2>2 DEF IInv, TypeInv, Quiet
<1>2. ControlInv(c)'
  BY DEF ControlInv, Quiet
<1>3. HistoryInv(c)'
  BY HistoryStays DEF Quiet
<1>4. PlaybackInv(c)' /\ Restored(c)'
  BY DEF PlaybackInv, Restored, Quiet
<1>5. ClientInv(c)'
  BY <1>2, <1>3, <1>4 DEF ClientInv
<1>6. QED
  BY <1>1, <1>5, ClientStep DEF Quiet

\* What IInv says of a client in the middle of an operation.
LEMMA ControlFacts ==
    ASSUME IInv, NEW c \in Clients
    PROVE  /\ TypeInv /\ SessionsInv /\ ClientInv(c)
           /\ ctl[c] \in Control /\ server_status[c] \in ServerStatus /\ id[c] \in Nat
           /\ ctl[c].pc \notin {"idle", "gone"} => ctl[c].next # "none"
           /\ ctl[c].next \in {"first", "playback"} => ctl[c].input \in Inputs
           /\ ctl[c].pc = "ensure" => ctl[c].next # "check"
           /\ ctl[c].pc = "ensure" /\ ctl[c].next = "playback" =>
                 server_status[c] \in {"INVALID_SESSION", "SHUTDOWN"}
<1>1. TypeInv /\ SessionsInv /\ ClientInv(c)
  BY DEF IInv
<1>2. QED
  BY <1>1 DEF TypeInv, ClientInv, ControlInv

\* A call of a type that no session sees, and one with an input.
LEMMA OtherCall ==
    ASSUME IInv, NEW c \in Clients, NEW type \in CallTypes, NEW i,
           NEW o \in Call(c, type, i), ServerAfter(o, type), SetSeen(c, o)
    PROVE  ServerStep(0) /\ o.status \in ServerStatus /\ DOMAIN seen' = Clients
<1>1. TypeInv /\ SessionsInv /\ server_status[c] \in ServerStatus
  BY ControlFacts
<1>2. Changed(o.server, 0)
  BY <1>1, CallChanges
<1>3. o.status \in {server_status[c], "SHUTDOWN", "TIMEOUT", "BROKEN_MESSAGE"}
  BY CallFails, CallReturns
<1>4. o.status \in ServerStatus
  BY <1>1, <1>3 DEF ServerStatus, Blocked
<1>5. DOMAIN seen' = Clients
  BY <1>1 DEF SetSeen, TypeInv
<1>6. QED
  BY <1>1, <1>2, <1>4, <1>5, CallStep

LEMMA InputCall ==
    ASSUME IInv, NEW c \in Clients, NEW in \in Inputs, NEW i,
           NEW o \in Call(c, in, i), ServerAfter(o, in), SetSeen(c, o)
    PROVE  ServerStep(i) /\ o.status \in ServerStatus /\ DOMAIN seen' = Clients
<1>1. TypeInv /\ SessionsInv /\ server_status[c] \in ServerStatus
  BY ControlFacts
<1>2. Changed(o.server, i)
  BY <1>1, CallChanges
<1>3. o.status \in {server_status[c], "SHUTDOWN", "TIMEOUT", "BROKEN_MESSAGE"}
  BY CallFails, CallReturns
<1>4. o.status \in ServerStatus
  BY <1>1, <1>3 DEF ServerStatus, Blocked
<1>5. DOMAIN seen' = Clients
  BY <1>1 DEF SetSeen, TypeInv
<1>6. QED
  BY <1>1, <1>2, <1>4, <1>5, CallStep

-----------------------------------------------------------------------------
(***************************************************************************)
(* The steps of the operations.                                            *)
(***************************************************************************)
LEMMA EnsureCallCommandStep ==
    ASSUME IInv, NEW c \in Clients, NEW in \in Inputs, EnsureCallCommand(c, in)
    PROVE  IInv'
<1>1. TypeInv /\ SessionsInv
  BY DEF IInv
<1>2. ServerStep(0)
  BY <1>1, ServerStays DEF EnsureCallCommand, serverVars
<1> DEFINE k == [pc |-> "ensure", next |-> "first", input |-> in, n |-> 0]
<1>3. k \in Control /\ k.pc = "ensure" /\ k.next = "first" /\ k.input = in
  BY SMT DEF Control, PC
<1>4. ctl' = [ctl EXCEPT ![c] = k]
  BY DEF EnsureCallCommand
<1> HIDE DEF k
<1>5. /\ ctl' \in [Clients -> Control] /\ ctl'[c] = k
      /\ \A d \in Clients \ {c} : ctl'[d] = ctl[d]
  BY <1>1, <1>3, <1>4 DEF TypeInv
<1>6. Quiet(c)
  BY <1>1, <1>3, <1>5 DEF TypeInv, EnsureCallCommand, Quiet, OthersWait
<1>7. QED
  BY <1>2, <1>3, <1>5, <1>6, QuietStep

LEMMA EnsureSessionStep ==
    ASSUME IInv, NEW c \in Clients, EnsureSession(c)
    PROVE  IInv'
<1>0. ctl[c].pc = "ensure"
  BY DEF EnsureSession
<1>1. /\ TypeInv /\ SessionsInv /\ server_status[c] \in ServerStatus
      /\ ctl[c].next \in {"first", "playback"} /\ ctl[c].input \in Inputs
      /\ ctl[c].next = "playback" => server_status[c] # "OK"
  BY SMT, <1>0, ControlFacts DEF Control
<1>2. PICK o \in EnsureConnection(server_status[c]) :
         /\ SetStatus(c, o.status)
         /\ Connect(o)
         /\ \/ ~o.ok /\ Return(c) /\ UNCHANGED id
            \/ o.ok /\ o.status = "OK" /\ Goto(c, ctl[c].next) /\ UNCHANGED id
            \/ /\ o.ok /\ o.status = "INVALID_SESSION"
               /\ Goto(c, "create")
               /\ id' = [id EXCEPT ![c] = 0]
  BY DEF EnsureSession
<1>3. /\ Changed(o.server, 0)
      /\ DOMAIN o.server.sessions \subseteq DOMAIN server.sessions
      /\ o.status \in {"OK", "INVALID_SESSION", "FATAL"}
      /\ o.status = "OK" => server_status[c] = "OK"
  BY <1>1, ConnectionFacts
<1>4. ServerStep(0)
  BY <1>1, <1>2, <1>3, QuietServer DEF Connect
<1>5. /\ server_status' \in [Clients -> ServerStatus]
      /\ server_status'[c] = o.status
      /\ \A d \in Clients \ {c} : server_status'[d] = server_status[d]
  <2>1. o.status \in ServerStatus
    BY <1>3 DEF ServerStatus, Blocked
  <2>2. QED
    BY <1>1, <1>2, <2>1, StatusFacts
<1>6. /\ history_inputs' = history_inputs /\ shown' = shown /\ DOMAIN seen' = Clients
  BY <1>1 DEF EnsureSession, TypeInv
<1>7. CASE ~o.ok /\ Return(c) /\ UNCHANGED id
  <2>1. Quiet(c) /\ ctl'[c].pc = "idle" /\ ctl'[c].next = "none"
    BY <1>1, <1>5, <1>6, <1>7, ReturnFacts DEF Quiet, OthersWait, TypeInv
  <2>2. QED
    BY <1>4, <2>1, QuietStep
<1>8. CASE o.ok /\ o.status = "INVALID_SESSION" /\ Goto(c, "create")
           /\ id' = [id EXCEPT ![c] = 0]
  <2>1. id' \in [Clients -> Nat] /\ id'[c] = 0 /\ \A d \in Clients \ {c} : id'[d] = id[d]
    BY SMT, <1>1, <1>8 DEF TypeInv
  <2>2. "create" \in PC
    BY DEF PC
  <2>3. /\ ctl' \in [Clients -> Control] /\ ctl'[c].pc = "create"
        /\ ctl'[c].next = ctl[c].next /\ ctl'[c].input = ctl[c].input
        /\ \A d \in Clients \ {c} : ctl'[d] = ctl[d]
    BY <1>1, <1>8, <2>2, GotoFacts
  <2>4. Quiet(c)
    BY <1>5, <1>6, <2>1, <2>3 DEF Quiet, OthersWait
  <2>5. QED
    BY <1>1, <1>4, <2>3, <2>4, QuietStep
<1>9. CASE o.ok /\ o.status = "OK" /\ Goto(c, ctl[c].next) /\ UNCHANGED id
  <2>1. ctl[c].next = "first" /\ "first" \in PC
    BY <1>1, <1>3, <1>9 DEF PC
  <2>2. /\ ctl' \in [Clients -> Control] /\ ctl'[c].pc = "first"
        /\ ctl'[c].next = "first" /\ ctl'[c].input = ctl[c].input
        /\ \A d \in Clients \ {c} : ctl'[d] = ctl[d]
    BY <1>1, <1>9, <2>1, GotoFacts
  <2>3. OthersWait(c)
    BY <1>5, <1>6, <1>9, <2>2 DEF OthersWait
  <2>4. TypeInv'
    BY <1>1, <1>2, <1>3, <1>5, <1>6, <1>9, <2>2 DEF TypeInv, Connect, Changed
  <2>5. ControlInv(c)'
    BY <1>1, <1>5, <1>9, <2>2 DEF ControlInv
  <2>6. HistoryInv(c)'
    BY <1>6, HistoryStays
  <2>7. PlaybackInv(c)' /\ Restored(c)'
    BY <2>2 DEF PlaybackInv, Restored
  <2>8. QED
    BY <1>4, <1>9, <2>3, <2>4, <2>5, <2>6, <2>7, ClientStep DEF ClientInv
<1>10. QED
  BY <1>2, <1>7, <1>8, <1>9

LEMMA FailedStep ==
    ASSUME IInv, NEW c \in Clients, Failed(c)
    PROVE  IInv'
<1>1. TypeInv /\ SessionsInv /\ server_status[c] \in ServerStatus
  BY ControlFacts
<1>2. PICK o \in EnsureConnection(server_status[c]) : SetStatus(c, o.status) /\ Connect(o)
  BY DEF Failed
<1>3. /\ Changed(o.server, 0)
      /\ DOMAIN o.server.sessions \subseteq DOMAIN server.sessions
      /\ o.status \in {"OK", "INVALID_SESSION", "FATAL"}
  BY <1>1, ConnectionFacts
<1>4. ServerStep(0)
  BY <1>1, <1>2, <1>3, QuietServer DEF Connect
<1>5. o.status \in ServerStatus
  BY <1>3 DEF ServerStatus, Blocked
<1>6. Return(c) /\ UNCHANGED <<id, seen, history_inputs, shown>>
  BY DEF Failed
<1>7. Quiet(c) /\ ctl'[c].pc = "idle" /\ ctl'[c].next = "none"
  BY <1>1, <1>2, <1>5, <1>6, StatusFacts, ReturnFacts DEF Quiet, OthersWait, TypeInv
<1>8. QED
  BY <1>4, <1>7, QuietStep

\* A step that goes on to pc without a call of EnsureCallCommand.
LEMMA GoesOn ==
    ASSUME IInv, NEW i, ServerStep(i), NEW c \in Clients, i \in {0, id[c]},
           ctl[c].pc \notin {"idle", "gone"},
           NEW pc \in {"create", "failed", "shutdown", "terminate", "relaunch"},
           Goto(c, pc), NEW st \in ServerStatus, SetStatus(c, st),
           DOMAIN seen' = Clients, UNCHANGED <<id, history_inputs, shown>>
    PROVE  IInv'
<1>1. /\ TypeInv /\ ctl[c].next # "none"
      /\ ctl[c].next \in {"first", "playback"} => ctl[c].input \in Inputs
  BY ControlFacts
<1>2. pc \in PC
  BY DEF PC
<1>3. /\ ctl' \in [Clients -> Control] /\ ctl'[c].pc = pc
      /\ ctl'[c].next = ctl[c].next /\ ctl'[c].input = ctl[c].input
      /\ \A d \in Clients \ {c} : ctl'[d] = ctl[d]
  BY <1>1, <1>2, GotoFacts
<1>4. /\ server_status' \in [Clients -> ServerStatus]
      /\ \A d \in Clients \ {c} : server_status'[d] = server_status[d]
  BY <1>1, StatusFacts
<1>5. Quiet(c)
  BY <1>1, <1>3, <1>4 DEF Quiet, OthersWait, TypeInv
<1>6. QED
  BY <1>1, <1>3, <1>5, QuietStep

LEMMA ShutdownServerStep ==
    ASSUME IInv, NEW c \in Clients, ShutdownServer(c)
    PROVE  IInv'
<1>1. PICK o \in Call(c, "SHUTDOWN", id[c]) :
         /\ SetSeen(c, o)
         /\ SetStatus(c, o.status)
         /\ ServerAfter(o, "SHUTDOWN")
         /\ Goto(c, IF o.server.up THEN "terminate" ELSE "relaunch")
  BY DEF ShutdownServer
<1>2. ServerStep(0) /\ o.status \in ServerStatus /\ DOMAIN seen' = Clients
  <2>1. "SHUTDOWN" \in CallTypes
    BY DEF CallTypes
  <2>2. QED
    BY <1>1, <2>1, OtherCall
<1>3. PICK pc \in {"terminate", "relaunch"} : Goto(c, pc)
  BY <1>1
<1>4. ctl[c].pc \notin {"idle", "gone"} /\ UNCHANGED <<id, history_inputs, shown>>
  BY DEF ShutdownServer
<1>5. QED
  BY <1>1, <1>2, <1>3, <1>4, GoesOn

LEMMA ForceTerminateServerStep ==
    ASSUME IInv, NEW c \in Clients, ForceTerminateServer(c)
    PROVE  IInv'
<1>1. TypeInv /\ SessionsInv /\ server_status[c] \in ServerStatus
  BY ControlFacts
<1>2. /\ ctl[c].pc \notin {"idle", "gone"} /\ UNCHANGED <<id, history_inputs, shown>>
      /\ DOMAIN seen' = Clients /\ last_id' = last_id
  BY <1>1 DEF ForceTerminateServer, TypeInv
<1>3. CASE server' = Down /\ Goto(c, "relaunch") /\ UNCHANGED server_status
  <2>1. ServerStep(0)
    BY <1>1, <1>2, <1>3, RestartChanges, QuietServer
  <2>2. SetStatus(c, server_status[c])
    BY <1>1, <1>3 DEF SetStatus, TypeInv
  <2>3. QED
    BY <1>1, <1>2, <1>3, <2>1, <2>2, GoesOn
<1>4. CASE SetStatus(c, "BROKEN_MESSAGE") /\ Goto(c, "failed") /\ UNCHANGED server
  <2>1. ServerStep(0)
    BY <1>1, <1>2, <1>4, ServerStays
  <2>2. "BROKEN_MESSAGE" \in ServerStatus
    BY DEF ServerStatus, Blocked
  <2>3. QED
    BY <1>2, <1>4, <2>1, <2>2, GoesOn
<1>5. QED
  BY <1>3, <1>4 DEF ForceTerminateServer

\* PushHistory keeps the history and the composition of the user together.
LEMMA PushHistoryFacts ==
    ASSUME IInv, "partial" \notin Commits, NEW c \in Clients, ctl[c].input \in Inputs,
           NEW out, Sensible(ctl[c].input, out), PushHistory(c, out)
    PROVE  /\ history_inputs' \in [Clients -> Seq(Inputs)]
           /\ DOMAIN shown' = Clients
           /\ \A d \in Clients \ {c} :
                 history_inputs'[d] = history_inputs[d] /\ shown'[d] = shown[d]
           /\ HistoryInv(c)'
<1> DEFINE in == ctl[c].input
           h == history_inputs[c]
           added == IF Remembers(h, in) THEN Append(h, in) ELSE h
           reset == in \in Char \cup {"enter", "partial"} /\ out.result
           new == IF ~out.consumed THEN h ELSE IF reset THEN <<>> ELSE added
           see == IF out.consumed THEN Apply(shown[c], in) ELSE shown[c]
<1>1. history_inputs \in [Clients -> Seq(Inputs)] /\ DOMAIN shown = Clients
  BY DEF IInv, TypeInv
<1>2. /\ history_inputs' = [history_inputs EXCEPT ![c] = new]
      /\ shown' = [shown EXCEPT ![c] = see]
  BY DEF PushHistory
<1>3. h \in Seq(Inputs) /\ in \in Inputs
  BY <1>1
<1>4. Len(h) < kMaxPlayBackSize => Replay(h) = shown[c]
  BY DEF IInv, ClientInv, HistoryInv
<1>5. /\ new \in Seq(Inputs)
      /\ Len(new) < kMaxPlayBackSize => Replay(new) = see
  <2> HIDE DEF h, in
  <2>1. CASE ~out.consumed
    BY <1>3, <1>4, <2>1
  <2>2. CASE out.consumed /\ reset
    <3>1. in \in Commits /\ in \notin Char
      BY <1>3, <2>2, InputsAreKeys DEF Sensible, in
    <3>2. in = "enter"
      BY <2>2, <3>1
    <3>3. see = <<>>
      BY <2>2, <3>1, <3>2 DEF Apply
    <3>4. new = <<>>
      BY <2>2
    <3>5. <<>> \in Seq(Inputs) /\ Len(<<>>) = 0 /\ 0 \in Nat
      BY SMT
    <3>6. Replay(<<>>) = <<>>
      BY <3>5, AfterStep DEF Replay
    <3>7. QED
      BY <3>3, <3>4, <3>5, <3>6
  <2>3. CASE out.consumed /\ ~reset
    <3>1. new = added /\ see = Apply(shown[c], in)
      BY <2>3
    <3>2. CASE Len(h) < kMaxPlayBackSize
      <4>1. added = Append(h, in)
        BY <3>2 DEF Remembers
      <4>2. QED
        BY <1>3, <1>4, <3>1, <3>2, <4>1, ReplayAppend
    <3>3. CASE ~(Len(h) < kMaxPlayBackSize)
      <4>1. added = h
        BY <3>3 DEF Remembers
      <4>2. QED
        BY <1>3, <3>1, <3>3, <4>1
    <3>4. QED
      BY <3>2, <3>3
  <2>4. QED
    BY <2>1, <2>2, <2>3
<1> HIDE DEF new, see
<1>6. history_inputs'[c] = new /\ shown'[c] = see
  BY <1>1, <1>2
<1>7. HistoryInv(c)'
  BY <1>5, <1>6 DEF HistoryInv
<1>8. QED
  BY <1>1, <1>2, <1>5, <1>7

\* A step that returns from EnsureCallCommand.
LEMMA Returns ==
    ASSUME IInv, NEW i, ServerStep(i), NEW c \in Clients, i \in {0, id[c]},
           Return(c), NEW st \in ServerStatus, SetStatus(c, st), DOMAIN seen' = Clients,
           history_inputs' \in [Clients -> Seq(Inputs)], DOMAIN shown' = Clients,
           \A d \in Clients \ {c} :
               history_inputs'[d] = history_inputs[d] /\ shown'[d] = shown[d],
           HistoryInv(c)', UNCHANGED id
    PROVE  IInv'
<1>1. TypeInv
  BY DEF IInv
<1>2. /\ ctl' \in [Clients -> Control] /\ ctl'[c].pc = "idle" /\ ctl'[c].next = "none"
      /\ \A d \in Clients \ {c} : ctl'[d] = ctl[d]
  BY <1>1, ReturnFacts
<1>3. /\ server_status' \in [Clients -> ServerStatus]
      /\ \A d \in Clients \ {c} : server_status'[d] = server_status[d]
  BY <1>1, StatusFacts
<1>4. OthersWait(c)
  BY <1>2, <1>3 DEF OthersWait
<1>5. TypeInv'
  <2>1. DOMAIN server' = {"up", "version", "disk", "sessions"}
    BY DEF ServerStep, Changed
  <2>2. last_id' \in Nat
    BY SMT, <1>1 DEF TypeInv, ServerStep
  <2>3. QED
    BY <1>1, <1>2, <1>3, <2>1, <2>2 DEF TypeInv
<1>6. ControlInv(c)' /\ PlaybackInv(c)' /\ Restored(c)'
  BY <1>2 DEF ControlInv, PlaybackInv, Restored
<1>7. QED
  BY <1>4, <1>5, <1>6, ClientStep DEF ClientInv

\* An answered input gives PushHistory an output to rely on.
LEMMA AnswerSensible ==
    ASSUME IInv, NEW c \in Clients, NEW in \in Inputs, NEW i,
           NEW o \in Call(c, in, i), o.ok
    PROVE  Sensible(in, o.out)
<1>1. TypeInv /\ SessionsInv
  BY DEF IInv
<1>2. server.version.proto = "same" /\ Answered(o, in, i)
  BY CallReturns
<1>3. CASE o.out = Empty
  BY <1>3, EmptySensible
<1>4. CASE \E r \in EvalCommand(in, i) : o.server = r.server /\ o.out = r.out
  BY <1>1, <1>2, <1>4, InputFacts
<1>5. QED
  BY <1>2, <1>3, <1>4 DEF Answered

LEMMA SecondCallStep ==
    ASSUME IInv, "partial" \notin Commits, NEW c \in Clients, SecondCall(c)
    PROVE  IInv'
<1>1. /\ TypeInv /\ ctl[c].next = "playback" /\ ctl[c].input \in Inputs
      /\ history_inputs \in [Clients -> Seq(Inputs)] /\ DOMAIN shown = Clients
  BY DEF SecondCall, IInv, ClientInv, ControlInv, TypeInv
<1>2. PICK o \in Call(c, ctl[c].input, id[c]) :
         /\ SetSeen(c, o)
         /\ ServerAfter(o, ctl[c].input)
         /\ \/ o.ok /\ SetStatus(c, o.status) /\ PushHistory(c, o.out)
            \/ /\ ~o.ok
               /\ SetStatus(c, IF o.seen.proto # "same" THEN "VERSION_MISMATCH"
                                                        ELSE o.status)
               /\ history_inputs' = [history_inputs EXCEPT ![c] = <<>>]
               /\ shown' = [shown EXCEPT ![c] = <<>>]
  BY DEF SecondCall
<1>3. ServerStep(id[c]) /\ o.status \in ServerStatus /\ DOMAIN seen' = Clients
  BY <1>1, <1>2, InputCall
<1>4. Return(c) /\ UNCHANGED id
  BY DEF SecondCall
<1>5. CASE o.ok /\ SetStatus(c, o.status) /\ PushHistory(c, o.out)
  <2>1. Sensible(ctl[c].input, o.out)
    BY <1>1, <1>2, <1>5, AnswerSensible
  <2>2. /\ history_inputs' \in [Clients -> Seq(Inputs)]
        /\ DOMAIN shown' = Clients
        /\ \A d \in Clients \ {c} :
              history_inputs'[d] = history_inputs[d] /\ shown'[d] = shown[d]
        /\ HistoryInv(c)'
    BY <1>1, <1>5, <2>1, PushHistoryFacts
  <2>3. QED
    BY <1>3, <1>4, <1>5, <2>2, Returns
<1>6. CASE /\ SetStatus(c, IF o.seen.proto # "same" THEN "VERSION_MISMATCH"
                                                    ELSE o.status)
           /\ history_inputs' = [history_inputs EXCEPT ![c] = <<>>]
           /\ shown' = [shown EXCEPT ![c] = <<>>]
  <2> DEFINE st == IF o.seen.proto # "same" THEN "VERSION_MISMATCH" ELSE o.status
  <2>1. st \in ServerStatus
    BY <1>3 DEF ServerStatus, Blocked
  <2>2. SetStatus(c, st)
    BY <1>6
  <2>3. <<>> \in Seq(Inputs) /\ Len(<<>>) = 0 /\ 0 \in Nat
    BY SMT
  <2>4. Replay(<<>>) = <<>>
    BY <2>3, AfterStep DEF Replay
  <2>5. history_inputs'[c] = <<>> /\ shown'[c] = <<>>
    BY <1>1, <1>6
  <2>6. HistoryInv(c)'
    BY <2>4, <2>5 DEF HistoryInv
  <2> HIDE DEF st
  <2>7. QED
    BY <1>1, <1>3, <1>4, <1>6, <2>1, <2>2, <2>3, <2>6, Returns
<1>7. QED
  BY <1>2, <1>5, <1>6

LEMMA FirstCallStep ==
    ASSUME IInv, "partial" \notin Commits, NEW c \in Clients, FirstCall(c)
    PROVE  IInv'
<1>1. /\ TypeInv /\ ctl[c] \in Control /\ ctl[c].next = "first"
      /\ ctl[c].input \in Inputs /\ server_status[c] = "OK"
      /\ history_inputs \in [Clients -> Seq(Inputs)] /\ DOMAIN shown = Clients
  BY DEF FirstCall, IInv, ClientInv, ControlInv, TypeInv
<1> DEFINE Again == ctl' = [ctl EXCEPT ![c].pc = "ensure", ![c].next = "playback"]
           Fails(o) == IF o.seen.proto # "same" THEN "VERSION_MISMATCH" ELSE o.status
<1>2. PICK o \in Call(c, ctl[c].input, id[c]) :
         /\ SetSeen(c, o)
         /\ ServerAfter(o, ctl[c].input)
         /\ \/ o.ok /\ SetStatus(c, o.status) /\ PushHistory(c, o.out) /\ Return(c)
            \/ /\ SetStatus(c, "INVALID_SESSION") /\ Again
               /\ UNCHANGED <<history_inputs, shown>>
            \/ /\ ~o.ok /\ SetStatus(c, Fails(o))
               /\ IF Fails(o) \in Blocked THEN Return(c) ELSE Again
               /\ UNCHANGED <<history_inputs, shown>>
  BY DEF FirstCall
<1>3. ServerStep(id[c]) /\ o.status \in ServerStatus /\ DOMAIN seen' = Clients
  BY <1>1, <1>2, InputCall
<1>4. UNCHANGED id
  BY DEF FirstCall
<1>5. CASE o.ok /\ SetStatus(c, o.status) /\ PushHistory(c, o.out) /\ Return(c)
  <2>1. Sensible(ctl[c].input, o.out)
    BY <1>1, <1>2, <1>5, AnswerSensible
  <2>2. /\ history_inputs' \in [Clients -> Seq(Inputs)]
        /\ DOMAIN shown' = Clients
        /\ \A d \in Clients \ {c} :
              history_inputs'[d] = history_inputs[d] /\ shown'[d] = shown[d]
        /\ HistoryInv(c)'
    BY <1>1, <1>5, <2>1, PushHistoryFacts
  <2>3. QED
    BY <1>3, <1>4, <1>5, <2>2, Returns
<1>6. ASSUME NEW st \in {"INVALID_SESSION", "SHUTDOWN"}, SetStatus(c, st), Again,
             UNCHANGED <<history_inputs, shown>>
      PROVE  IInv'
  <2> DEFINE k == [ctl[c] EXCEPT !.pc = "ensure", !.next = "playback"]
  <2>1. "ensure" \in PC
    BY DEF PC
  <2>2. k \in Control
    BY <1>1, <2>1 DEF Control
  <2>3. k.pc = "ensure" /\ k.next = "playback" /\ k.input = ctl[c].input
    BY SMT, <1>1 DEF Control
  <2>4. ctl' = [ctl EXCEPT ![c] = k]
    BY <1>6
  <2> HIDE DEF k
  <2>5. /\ ctl' \in [Clients -> Control] /\ ctl'[c] = k
        /\ \A d \in Clients \ {c} : ctl'[d] = ctl[d]
    BY <1>1, <2>2, <2>4 DEF TypeInv
  <2>6. st \in ServerStatus
    BY DEF ServerStatus
  <2>7. /\ server_status' \in [Clients -> ServerStatus] /\ server_status'[c] = st
        /\ \A d \in Clients \ {c} : server_status'[d] = server_status[d]
    BY <1>1, <1>6, <2>6, StatusFacts
  <2>8. Quiet(c)
    BY <1>1, <1>3, <1>4, <1>6, <2>3, <2>5, <2>7 DEF Quiet, OthersWait, TypeInv
  <2>9. QED
    BY <1>1, <1>3, <2>3, <2>5, <2>7, <2>8, QuietStep
<1>7. CASE SetStatus(c, "INVALID_SESSION") /\ Again /\ UNCHANGED <<history_inputs, shown>>
  BY <1>6, <1>7
<1>8. CASE /\ ~o.ok /\ SetStatus(c, Fails(o))
           /\ IF Fails(o) \in Blocked THEN Return(c) ELSE Again
           /\ UNCHANGED <<history_inputs, shown>>
  <2>0. ~o.ok
    BY <1>8
  <2>1. Fails(o) \in ServerStatus
    BY <1>3 DEF ServerStatus, Blocked
  <2>2. CASE Fails(o) \in Blocked
    <3>1. HistoryInv(c)'
      BY <1>8, HistoryStays
    <3>2. /\ history_inputs' \in [Clients -> Seq(Inputs)] /\ DOMAIN shown' = Clients
          /\ \A d \in Clients \ {c} :
                history_inputs'[d] = history_inputs[d] /\ shown'[d] = shown[d]
      BY <1>1, <1>8
    <3> HIDE DEF Fails
    <3>3. Return(c) /\ SetStatus(c, Fails(o))
      BY <1>8, <2>2
    <3>4. QED
      BY <1>3, <1>4, <2>1, <3>1, <3>2, <3>3, Returns
  <2>3. CASE Fails(o) \notin Blocked
    <3>1. Fails(o) = o.status
      BY <2>3 DEF Blocked
    <3>2. \/ o.status \in {"SHUTDOWN", "TIMEOUT", "BROKEN_MESSAGE"}
          \/ server.version.proto # "same" /\ o.seen = server.version
      BY SMT, <1>1, <2>0, WorkingCallFails
    <3>3. Fails(o) = "SHUTDOWN"
      BY <2>3, <3>1, <3>2 DEF Blocked
    <3> HIDE DEF Fails
    <3>4. QED
      BY <1>6, <1>8, <2>3, <3>3
  <2>4. QED
    BY <2>2, <2>3
<1> HIDE DEF Again, Fails
<1>9. QED
  BY <1>2, <1>5, <1>7, <1>8

\* A step that ends a playback.
LEMMA PlaybackEnds ==
    ASSUME IInv, NEW i, ServerStep(i), NEW c \in Clients, i \in {0, id[c]},
           ctl[c].pc = "playback", ctl' \in [Clients -> Control],
           ctl'[c].pc = "second", ctl'[c].next = ctl[c].next,
           ctl'[c].input = ctl[c].input,
           server_status' \in [Clients -> ServerStatus], DOMAIN seen' = Clients,
           history_inputs' \in [Clients -> Seq(Inputs)], DOMAIN shown' = Clients,
           OthersWait(c), HistoryInv(c)', Restored(c)', UNCHANGED id
    PROVE  IInv'
<1>1. TypeInv'
  <2>1. DOMAIN server' = {"up", "version", "disk", "sessions"}
    BY DEF ServerStep, Changed
  <2>2. last_id' \in Nat
    BY SMT DEF IInv, TypeInv, ServerStep
  <2>3. QED
    BY <2>1, <2>2 DEF IInv, TypeInv
<1>2. ControlInv(c)' /\ PlaybackInv(c)'
  BY DEF IInv, ClientInv, ControlInv, PlaybackInv
<1>3. QED
  BY <1>1, <1>2, ClientStep DEF ClientInv

LEMMA GiveUpHistoryStep ==
    ASSUME IInv, NEW c \in Clients, GiveUpHistory(c)
    PROVE  IInv'
<1>1. /\ TypeInv /\ SessionsInv /\ ctl[c].pc = "playback"
      /\ history_inputs \in [Clients -> Seq(Inputs)] /\ DOMAIN shown = Clients
      /\ ctl[c].n = 0
      /\ id[c] \in DOMAIN server.sessions =>
            server.sessions[id[c]] = After(history_inputs[c])[ctl[c].n]
  BY DEF GiveUpHistory, IInv, ClientInv, PlaybackInv, TypeInv
<1>2. /\ history_inputs' = [history_inputs EXCEPT ![c] = <<>>]
      /\ shown' = [shown EXCEPT ![c] = <<>>]
      /\ Goto(c, "second")
      /\ UNCHANGED <<id, server_status, seen, server, last_id>>
  BY DEF GiveUpHistory, serverVars
<1>3. ServerStep(0)
  BY <1>1, <1>2, ServerStays
<1>4. "second" \in PC
  BY DEF PC
<1>5. /\ ctl' \in [Clients -> Control] /\ ctl'[c].pc = "second"
      /\ ctl'[c].next = ctl[c].next /\ ctl'[c].input = ctl[c].input
      /\ \A d \in Clients \ {c} : ctl'[d] = ctl[d]
  BY <1>1, <1>2, <1>4, GotoFacts
<1>6. <<>> \in Seq(Inputs) /\ Len(<<>>) = 0 /\ 0 \in Nat
  BY SMT
<1>7. /\ history_inputs' \in [Clients -> Seq(Inputs)] /\ DOMAIN shown' = Clients
      /\ history_inputs'[c] = <<>> /\ shown'[c] = <<>>
      /\ \A d \in Clients \ {c} :
            history_inputs'[d] = history_inputs[d] /\ shown'[d] = shown[d]
  BY <1>1, <1>2, <1>6
<1>8. HistoryInv(c)'
  <2>1. Replay(<<>>) = <<>>
    BY <1>6, AfterStep DEF Replay
  <2>2. QED
    BY <1>7, <2>1 DEF HistoryInv
<1>9. Restored(c)'
  <2>1. Len(history_inputs[c]) \in Nat
    BY SMT, <1>1
  <2>2. After(history_inputs[c])[0] = <<>>
    BY <2>1, AfterStep
  <2>3. QED
    BY <1>1, <1>2, <1>7, <2>2 DEF Restored
<1>10. OthersWait(c)
  BY <1>2, <1>5, <1>7 DEF OthersWait
<1>11. server_status' \in [Clients -> ServerStatus] /\ DOMAIN seen' = Clients
  BY <1>1, <1>2 DEF TypeInv
<1>12. QED
  BY <1>1, <1>2, <1>3, <1>5, <1>7, <1>8, <1>9, <1>10, <1>11, PlaybackEnds

LEMMA PlaybackDoneStep ==
    ASSUME IInv, NEW c \in Clients, PlaybackDone(c)
    PROVE  IInv'
<1>1. /\ TypeInv /\ SessionsInv /\ ctl[c].pc = "playback" /\ ctl[c].n \in Nat
      /\ history_inputs[c] \in Seq(Inputs)
      /\ Len(history_inputs[c]) < kMaxPlayBackSize
      /\ ~(ctl[c].n < Len(history_inputs[c]))
      /\ ctl[c].n <= Len(history_inputs[c])
      /\ id[c] \in DOMAIN server.sessions =>
            server.sessions[id[c]] = After(history_inputs[c])[ctl[c].n]
      /\ Replay(history_inputs[c]) = shown[c]
  <2>1. ctl[c].n \in Nat
    BY SMT DEF IInv, TypeInv, Control
  <2>2. QED
    BY <2>1 DEF PlaybackDone, Remaining, IInv, ClientInv, PlaybackInv, HistoryInv, TypeInv
<1>2. /\ Goto(c, "second")
      /\ UNCHANGED <<id, server_status, seen, history_inputs, shown, server, last_id>>
  BY DEF PlaybackDone, serverVars
<1>3. ServerStep(0)
  BY <1>1, <1>2, ServerStays
<1>4. "second" \in PC
  BY DEF PC
<1>5. /\ ctl' \in [Clients -> Control] /\ ctl'[c].pc = "second"
      /\ ctl'[c].next = ctl[c].next /\ ctl'[c].input = ctl[c].input
      /\ \A d \in Clients \ {c} : ctl'[d] = ctl[d]
  BY <1>1, <1>2, <1>4, GotoFacts
<1>6. HistoryInv(c)'
  BY <1>2, HistoryStays
<1>7. Restored(c)'
  <2>1. Len(history_inputs[c]) \in Nat
    BY SMT, <1>1
  <2>2. ctl[c].n = Len(history_inputs[c])
    BY SMT, <1>1, <2>1
  <2>3. QED
    BY <1>1, <1>2, <2>2 DEF Restored, Replay
<1>8. OthersWait(c)
  BY <1>2, <1>5 DEF OthersWait
<1>9. QED
  BY <1>1, <1>2, <1>3, <1>5, <1>6, <1>7, <1>8, PlaybackEnds DEF TypeInv

LEMMA PlaybackHistoryStep ==
    ASSUME IInv, NEW c \in Clients, PlaybackHistory(c)
    PROVE  IInv'
<1> DEFINE h == history_inputs[c]
           n == ctl[c].n + 1
           k == [ctl[c] EXCEPT !.n = n]
           l == [ctl[c] EXCEPT !.pc = "second"]
<1>1. /\ TypeInv /\ SessionsInv /\ ctl[c] \in Control /\ ctl[c].pc = "playback"
      /\ ctl[c].next = "playback" /\ ctl[c].input \in Inputs
      /\ server_status[c] = "OK" /\ id[c] \in Nat
      /\ h \in Seq(Inputs) /\ Len(h) < kMaxPlayBackSize
      /\ ctl[c].n < Len(h)
      /\ id[c] \in DOMAIN server.sessions =>
            server.sessions[id[c]] = After(h)[ctl[c].n]
  BY DEF PlaybackHistory, Remaining, IInv, ClientInv, ControlInv, PlaybackInv, TypeInv
<1>2. /\ ctl[c].n \in Nat /\ Len(h) \in Nat /\ n \in Nat /\ n \in 1..Len(h)
      /\ n - 1 = ctl[c].n /\ n <= Len(h) /\ h[n] \in Inputs
      /\ ~(Len(h) >= kMaxPlayBackSize)
  <2>1. ctl[c].n \in Nat
    BY SMT, <1>1 DEF Control
  <2>2. kMaxPlayBackSize \in Nat
    BY ClientAssumptions
  <2> HIDE DEF h
  <2>3. Len(h) \in Nat
    BY SMT, <1>1
  <2>4. /\ n \in Nat /\ n \in 1..Len(h) /\ n - 1 = ctl[c].n /\ n <= Len(h)
        /\ ~(Len(h) >= kMaxPlayBackSize)
    BY SMT, <1>1, <2>1, <2>2, <2>3
  <2>5. h[n] \in Inputs
    BY SMT, <1>1, <2>4
  <2>6. QED
    BY <2>1, <2>3, <2>4, <2>5
<1>3. PICK o \in Call(c, h[n], id[c]) :
         /\ SetSeen(c, o)
         /\ SetStatus(c, o.status)
         /\ ServerAfter(o, h[n])
         /\ ctl' = IF o.ok THEN [ctl EXCEPT ![c] = k] ELSE [ctl EXCEPT ![c] = l]
  BY DEF PlaybackHistory
<1>4. UNCHANGED <<id, history_inputs, shown>>
  BY DEF PlaybackHistory
<1>5. ServerStep(id[c]) /\ o.status \in ServerStatus /\ DOMAIN seen' = Clients
  BY <1>2, <1>3, InputCall
<1>6. /\ server_status' \in [Clients -> ServerStatus] /\ server_status'[c] = o.status
      /\ \A d \in Clients \ {c} : server_status'[d] = server_status[d]
  BY <1>1, <1>3, <1>5, StatusFacts
<1>7. /\ k \in Control /\ l \in Control
  <2>1. "second" \in PC
    BY DEF PC
  <2>2. QED
    BY <1>1, <1>2, <2>1 DEF Control
<1>8. /\ k.pc = "playback" /\ k.next = "playback" /\ k.input = ctl[c].input /\ k.n = n
      /\ l.pc = "second" /\ l.next = "playback" /\ l.input = ctl[c].input
  BY SMT, <1>1, <1>2 DEF Control
<1>9. server' = o.server
  BY <1>3 DEF ServerAfter
<1> HIDE DEF k, l, n, h
<1>10. HistoryInv(c)'
  BY <1>4, HistoryStays
<1>11. CASE o.ok
  <2>1. /\ ctl' \in [Clients -> Control] /\ ctl'[c] = k
        /\ \A d \in Clients \ {c} : ctl'[d] = ctl[d]
    BY <1>1, <1>3, <1>7, <1>11 DEF TypeInv
  <2>2. /\ o.status = "OK" /\ server.version.proto = "same"
        /\ Answered(o, h[n], id[c])
    BY <1>1, <1>11, CallReturns
  <2>3. ASSUME id[c] \in DOMAIN server'.sessions
        PROVE  server'.sessions[id[c]] = After(h)[n]
    <3>1. o.server # Down
      BY <1>1, <1>9, <2>3, RestartChanges
    <3>2. PICK r \in EvalCommand(h[n], id[c]) : o.server = r.server
      BY <2>2, <3>1 DEF Answered
    <3>3. /\ id[c] \in DOMAIN server.sessions
          /\ server'.sessions[id[c]] = Apply(server.sessions[id[c]], h[n])
      <4>1. TypeInv /\ SessionsInv /\ h[n] \in Inputs
        BY <1>1, <1>2
      <4>2. /\ DOMAIN r.server.sessions = DOMAIN server.sessions
            /\ id[c] \in DOMAIN server.sessions =>
                  r.server.sessions[id[c]] = Apply(server.sessions[id[c]], h[n])
        BY <2>2, <3>2, <4>1, InputFacts
      <4>3. server' = r.server
        BY <1>9, <3>2
      <4>4. QED
        BY <2>3, <4>2, <4>3
    <3>4. After(h)[n] = Apply(After(h)[n - 1], h[n])
      BY <1>2, AfterStep
    <3>5. QED
      BY <1>1, <1>2, <3>3, <3>4
  <2>4. PlaybackInv(c)'
    BY <1>1, <1>2, <1>4, <1>8, <2>1, <2>3 DEF PlaybackInv, h
  <2>5. ControlInv(c)' /\ Restored(c)'
    BY <1>1, <1>6, <1>8, <2>1, <2>2 DEF ControlInv, Restored
  <2>6. OthersWait(c)
    BY <1>4, <1>6, <2>1 DEF OthersWait
  <2>7. TypeInv'
    <3>1. DOMAIN server' = {"up", "version", "disk", "sessions"}
      BY <1>5 DEF ServerStep, Changed
    <3>2. last_id' \in Nat
      BY SMT, <1>1, <1>5 DEF TypeInv, ServerStep
    <3>3. QED
      BY <1>1, <1>4, <1>5, <1>6, <2>1, <3>1, <3>2 DEF TypeInv
  <2>8. QED
    BY <1>4, <1>5, <1>10, <2>4, <2>5, <2>6, <2>7, ClientStep DEF ClientInv
<1>12. CASE ~o.ok
  <2>1. /\ ctl' \in [Clients -> Control] /\ ctl'[c] = l
        /\ \A d \in Clients \ {c} : ctl'[d] = ctl[d]
    BY <1>1, <1>3, <1>7, <1>12 DEF TypeInv
  <2>2. \/ o.status \in {"SHUTDOWN", "TIMEOUT", "BROKEN_MESSAGE"}
        \/ server.version.proto # "same" /\ o.server = server
    BY <1>1, <1>12, WorkingCallFails
  <2>3. o.status # "OK" \/ DOMAIN server'.sessions = {}
    BY <1>1, <1>9, <2>2 DEF SessionsInv
  <2>4. Restored(c)'
    BY <1>6, <2>3 DEF Restored
  <2>5. OthersWait(c)
    BY <1>4, <1>6, <2>1 DEF OthersWait
  <2>6. history_inputs' \in [Clients -> Seq(Inputs)] /\ DOMAIN shown' = Clients
    BY <1>1, <1>4 DEF TypeInv
  <2>7. QED
    BY <1>1, <1>4, <1>5, <1>6, <1>8, <1>10, <2>1, <2>4, <2>5, <2>6, PlaybackEnds
<1>13. QED
  BY <1>11, <1>12

\* CreateSession enters the first trial or the playback with an empty session.
LEMMA CreateSessionStep ==
    ASSUME IInv, NEW c \in Clients, ctl[c].pc = "create", ctl[c].next # "check",
           NEW o \in Call(c, "CREATE_SESSION", id[c]), o.ok, SetSeen(c, o),
           ServerAfter(o, "CREATE_SESSION"), CreateSession(c, o.out),
           UNCHANGED <<history_inputs, shown>>
    PROVE  IInv'
<1>1. /\ TypeInv /\ SessionsInv /\ ctl[c].next \in {"first", "playback"}
      /\ ctl[c].input \in Inputs /\ history_inputs[c] \in Seq(Inputs) /\ last_id \in Nat
  <2>1. /\ TypeInv /\ SessionsInv /\ ctl[c] \in Control
        /\ ctl[c].next # "none"
        /\ ctl[c].next \in {"first", "playback"} => ctl[c].input \in Inputs
    BY ControlFacts
  <2>2. ctl[c].next \in {"first", "playback"}
    BY SMT, <2>1 DEF Control
  <2>3. QED
    BY <2>1, <2>2 DEF TypeInv
<1>2. ServerStep(0) /\ o.status \in ServerStatus /\ DOMAIN seen' = Clients
  <2>1. "CREATE_SESSION" \in CallTypes
    BY DEF CallTypes
  <2>2. QED
    BY <2>1, OtherCall
<1>3. CASE /\ SetStatus(c, "INVALID_SESSION") /\ Goto(c, "failed") /\ UNCHANGED id
  <2>1. "INVALID_SESSION" \in ServerStatus
    BY DEF ServerStatus
  <2>2. QED
    BY <1>2, <1>3, <2>1, GoesOn
<1>4. CASE /\ ~o.out.error /\ SetStatus(c, "OK") /\ Goto(c, ctl[c].next)
           /\ id' = [id EXCEPT ![c] = o.out.id]
  <2>1. /\ \/ o.out.id = 0
           \/ o.out.id = last_id + 1 /\ last_id' = last_id + 1
        /\ o.out.id \in DOMAIN server'.sessions => server'.sessions[o.out.id] = <<>>
    <3>1. server' = o.server
      BY DEF ServerAfter
    <3>2. server.version.proto = "same" /\ Answered(o, "CREATE_SESSION", id[c])
      BY CallReturns
    <3>3. CASE o.server = Down /\ o.out = Empty
      <4>1. Empty.id = 0
        BY SMT DEF Empty
      <4>2. QED
        BY <1>1, <3>1, <3>3, <4>1, RestartChanges
    <3>4. CASE \E r \in EvalCommand("CREATE_SESSION", id[c]) :
                  o.server = r.server /\ o.out = r.out
      <4>1. /\ o.out.id = last_id + 1
            /\ last_id + 1 \in DOMAIN o.server.sessions
            /\ o.server.sessions[last_id + 1] = <<>>
        BY <1>1, <1>4, <3>2, <3>4, CreateFacts
      <4>2. last_id' = last_id + 1
        BY <1>2, <3>1, <4>1 DEF ServerStep
      <4>3. QED
        BY <3>1, <4>1, <4>2
    <3>5. QED
      BY <3>2, <3>3, <3>4 DEF Answered
  <2>2. o.out.id \in Nat
    BY SMT, <1>1, <2>1
  <2>3. /\ id' \in [Clients -> Nat] /\ id'[c] = o.out.id
        /\ \A d \in Clients \ {c} : id'[d] = id[d]
    BY <1>1, <1>4, <2>2 DEF TypeInv
  <2>4. ctl[c].next \in PC
    BY <1>1 DEF PC
  <2>5. /\ ctl' \in [Clients -> Control] /\ ctl'[c].pc = ctl[c].next /\ ctl'[c].n = 0
        /\ ctl'[c].next = ctl[c].next /\ ctl'[c].input = ctl[c].input
        /\ \A d \in Clients \ {c} : ctl'[d] = ctl[d]
    BY <1>1, <1>4, <2>4, GotoFacts
  <2>6. "OK" \in ServerStatus
    BY DEF ServerStatus
  <2>7. /\ server_status' \in [Clients -> ServerStatus] /\ server_status'[c] = "OK"
        /\ \A d \in Clients \ {c} : server_status'[d] = server_status[d]
    BY <1>1, <1>4, <2>6, StatusFacts
  <2>8. OthersWait(c)
    BY <2>3, <2>5, <2>7 DEF OthersWait
  <2>9. TypeInv'
    <3>1. DOMAIN server' = {"up", "version", "disk", "sessions"}
      BY <1>2 DEF ServerStep, Changed
    <3>2. last_id' \in Nat
      BY SMT, <1>1, <1>2 DEF ServerStep
    <3>3. QED
      BY <1>1, <1>2, <2>3, <2>5, <2>7, <3>1, <3>2 DEF TypeInv
  <2>10. ControlInv(c)'
    BY <1>1, <2>5, <2>7 DEF ControlInv
  <2>11. HistoryInv(c)'
    BY HistoryStays
  <2>12. PlaybackInv(c)'
    <3>1. Len(history_inputs[c]) \in Nat /\ 0 <= Len(history_inputs[c])
      BY SMT, <1>1
    <3>2. After(history_inputs[c])[0] = <<>>
      BY <3>1, AfterStep
    <3>3. QED
      BY <2>1, <2>3, <2>5, <3>1, <3>2 DEF PlaybackInv
  <2>13. Restored(c)'
    BY <1>1, <2>5 DEF Restored
  <2>14. QED
    BY <1>2, <2>1, <2>3, <2>8, <2>9, <2>10, <2>11, <2>12, <2>13, ClientStep
       DEF ClientInv
<1>5. QED
  BY <1>3, <1>4 DEF CreateSession

LEMMA CheckVersionStep ==
    ASSUME IInv, NEW c \in Clients, CheckVersion(c)
    PROVE  IInv'
<1> DEFINE type == IF ctl[c].next = "check" THEN "OTHER" ELSE "CREATE_SESSION"
<1>1. TypeInv /\ history_inputs \in [Clients -> Seq(Inputs)] /\ DOMAIN shown = Clients
  BY DEF IInv, TypeInv
<1>2. ctl[c].pc = "create" /\ UNCHANGED <<history_inputs, shown>>
  BY DEF CheckVersion
<1>3. PICK o \in Call(c, type, id[c]) :
         /\ SetSeen(c, o)
         /\ ServerAfter(o, type)
         /\ \/ SetStatus(c, "VERSION_MISMATCH") /\ Goto(c, "failed") /\ UNCHANGED id
            \/ SetStatus(c, "BROKEN_MESSAGE") /\ Goto(c, "failed") /\ UNCHANGED id
            \/ /\ SetStatus(c, o.status)
               /\ Goto(c, IF o.ok THEN "shutdown" ELSE "terminate")
               /\ UNCHANGED id
            \/ SetStatus(c, o.status) /\ Goto(c, "failed") /\ UNCHANGED id
            \/ SetStatus(c, o.status) /\ Return(c) /\ UNCHANGED id
            \/ o.ok /\ type = "CREATE_SESSION" /\ CreateSession(c, o.out)
  BY DEF CheckVersion
<1>4. type \in CallTypes /\ (type = "CREATE_SESSION" => ctl[c].next # "check")
  BY DEF CallTypes
<1> HIDE DEF type
<1>5. ServerStep(0) /\ o.status \in ServerStatus /\ DOMAIN seen' = Clients
  BY <1>3, <1>4, OtherCall
<1>6. "VERSION_MISMATCH" \in ServerStatus /\ "BROKEN_MESSAGE" \in ServerStatus
  BY DEF ServerStatus, Blocked
<1>7. ASSUME NEW st \in ServerStatus, SetStatus(c, st),
             NEW pc \in {"failed", "shutdown", "terminate"}, Goto(c, pc), UNCHANGED id
      PROVE  IInv'
  BY <1>2, <1>5, <1>7, GoesOn
<1>8. CASE SetStatus(c, o.status) /\ Return(c) /\ UNCHANGED id
  <2>1. HistoryInv(c)'
    BY <1>2, HistoryStays
  <2>2. QED
    BY <1>1, <1>2, <1>5, <1>8, <2>1, Returns
<1>9. CASE o.ok /\ type = "CREATE_SESSION" /\ CreateSession(c, o.out)
  BY <1>2, <1>3, <1>4, <1>9, CreateSessionStep
<1>10. CASE /\ SetStatus(c, o.status)
            /\ Goto(c, IF o.ok THEN "shutdown" ELSE "terminate")
            /\ UNCHANGED id
  BY <1>5, <1>7, <1>10
<1>11. QED
  BY <1>3, <1>5, <1>6, <1>7, <1>8, <1>9, <1>10

LEMMA RelaunchStep ==
    ASSUME IInv, NEW c \in Clients, Relaunch(c)
    PROVE  IInv'
<1>1. /\ TypeInv /\ SessionsInv /\ ctl[c] \in Control /\ ctl[c].next # "none"
      /\ ctl[c].next \in {"first", "playback"} => ctl[c].input \in Inputs
  BY ControlFacts DEF Relaunch
<1>2. PICK o \in EnsureConnection("UNKNOWN") :
         /\ SetStatus(c, IF o.ok THEN o.status ELSE "VERSION_MISMATCH")
         /\ Connect(o)
         /\ ctl' = IF o.ok THEN [ctl EXCEPT ![c].pc = "create", ![c].n = 1]
                           ELSE [ctl EXCEPT ![c].pc = "failed"]
  BY DEF Relaunch
<1>3. /\ Changed(o.server, 0)
      /\ DOMAIN o.server.sessions \subseteq DOMAIN server.sessions
      /\ o.status \in {"OK", "INVALID_SESSION", "FATAL"}
  BY <1>1, ConnectionFacts
<1>4. ServerStep(0)
  BY <1>1, <1>2, <1>3, QuietServer DEF Connect
<1>5. /\ server_status' \in [Clients -> ServerStatus]
      /\ \A d \in Clients \ {c} : server_status'[d] = server_status[d]
  <2> DEFINE st == IF o.ok THEN o.status ELSE "VERSION_MISMATCH"
  <2>1. st \in ServerStatus
    BY <1>3 DEF ServerStatus, Blocked
  <2>2. SetStatus(c, st)
    BY <1>2
  <2> HIDE DEF st
  <2>3. QED
    BY <1>1, <2>1, <2>2, StatusFacts
<1>6. /\ ctl' \in [Clients -> Control] /\ ctl'[c].pc \in {"create", "failed"}
      /\ ctl'[c].next = ctl[c].next /\ ctl'[c].input = ctl[c].input
      /\ \A d \in Clients \ {c} : ctl'[d] = ctl[d]
  <2> DEFINE k == IF o.ok THEN [ctl[c] EXCEPT !.pc = "create", !.n = 1]
                          ELSE [ctl[c] EXCEPT !.pc = "failed"]
  <2>1. k.pc \in {"create", "failed"} /\ k.next = ctl[c].next /\ k.input = ctl[c].input
    BY SMT, <1>1 DEF Control
  <2>2. 1 \in Nat /\ "create" \in PC /\ "failed" \in PC
    BY SMT DEF PC
  <2>3. k \in Control
    BY <1>1, <2>2 DEF Control
  <2>4. ctl' = [ctl EXCEPT ![c] = k]
    BY <1>2
  <2> HIDE DEF k
  <2>5. QED
    BY <1>1, <2>1, <2>3, <2>4 DEF TypeInv
<1>7. Quiet(c)
  BY <1>1, <1>5, <1>6 DEF Relaunch, Quiet, OthersWait, TypeInv
<1>8. QED
  BY <1>1, <1>4, <1>6, <1>7, QuietStep

-----------------------------------------------------------------------------
(***************************************************************************)
(* The other operations, and the server by itself.                         *)
(***************************************************************************)
\* An operation of an idle client that is a step of its own: it stays idle,
\* begins a check of the version, or is gone.
LEMMA IdleStep ==
    ASSUME IInv, NEW c \in Clients, ctl[c].pc = "idle", ServerStep(0),
           server_status' \in [Clients -> ServerStatus],
           \A d \in Clients \ {c} : server_status'[d] = server_status[d],
           DOMAIN seen' = Clients, UNCHANGED <<id, history_inputs, shown>>,
           \/ UNCHANGED ctl
           \/ ctl' = [ctl EXCEPT ![c].pc = "create", ![c].next = "check"]
           \/ ctl' = [ctl EXCEPT ![c].pc = "gone"]
    PROVE  IInv'
<1>1. /\ TypeInv /\ ctl[c] \in Control
      /\ ctl[c].next \in {"first", "playback"} => ctl[c].input \in Inputs
  BY ControlFacts
<1>2. ASSUME NEW k \in Control, ctl' = [ctl EXCEPT ![c] = k],
             k.pc \in {"idle", "create", "gone"}, k.input = ctl[c].input,
             k.next \in {ctl[c].next, "check"}, k.pc = "create" => k.next = "check"
      PROVE  IInv'
  <2>1. /\ ctl' \in [Clients -> Control] /\ ctl'[c] = k
        /\ \A d \in Clients \ {c} : ctl'[d] = ctl[d]
    BY <1>1, <1>2 DEF TypeInv
  <2>2. Quiet(c)
    BY <1>1, <1>2, <2>1 DEF Quiet, OthersWait, TypeInv
  <2>3. ctl'[c].next \in {"first", "playback"} => ctl'[c].input \in Inputs
    BY <1>1, <1>2, <2>1
  <2>4. QED
    BY <1>2, <2>1, <2>2, <2>3, QuietStep
<1>3. CASE UNCHANGED ctl
  <2>1. ctl' = [ctl EXCEPT ![c] = ctl[c]]
    BY <1>1, <1>3 DEF TypeInv
  <2>2. QED
    BY <1>1, <1>2, <2>1
<1>4. CASE ctl' = [ctl EXCEPT ![c].pc = "create", ![c].next = "check"]
  <2> DEFINE k == [ctl[c] EXCEPT !.pc = "create", !.next = "check"]
  <2>1. k.pc = "create" /\ k.next = "check" /\ k.input = ctl[c].input
    BY SMT, <1>1 DEF Control
  <2>2. k \in Control
    BY <1>1 DEF Control, PC
  <2>3. ctl' = [ctl EXCEPT ![c] = k]
    BY <1>4
  <2> HIDE DEF k
  <2>4. QED
    BY <1>2, <2>1, <2>2, <2>3
<1>5. CASE ctl' = [ctl EXCEPT ![c].pc = "gone"]
  <2> DEFINE k == [ctl[c] EXCEPT !.pc = "gone"]
  <2>1. k.pc = "gone" /\ k.next = ctl[c].next /\ k.input = ctl[c].input
    BY SMT, <1>1 DEF Control
  <2>2. k \in Control
    BY <1>1 DEF Control, PC
  <2>3. ctl' = [ctl EXCEPT ![c] = k]
    BY <1>5
  <2> HIDE DEF k
  <2>4. QED
    BY <1>2, <2>1, <2>2, <2>3
<1>6. QED
  BY <1>3, <1>4, <1>5

LEMMA CallCommandStep ==
    ASSUME IInv, NEW c \in Clients, CallCommand(c)
    PROVE  IInv'
<1>1. PICK o \in Call(c, "OTHER", id[c]) :
         SetStatus(c, o.status) /\ SetSeen(c, o) /\ ServerAfter(o, "OTHER")
  BY DEF CallCommand
<1>2. "OTHER" \in CallTypes
  BY DEF CallTypes
<1>3. ServerStep(0) /\ o.status \in ServerStatus /\ DOMAIN seen' = Clients
  BY <1>1, <1>2, OtherCall
<1>4. /\ server_status' \in [Clients -> ServerStatus]
      /\ \A d \in Clients \ {c} : server_status'[d] = server_status[d]
  BY <1>1, <1>3, ControlFacts, StatusFacts
<1>5. QED
  BY <1>3, <1>4, IdleStep DEF CallCommand

LEMMA CheckVersionOrRestartServerStep ==
    ASSUME IInv, NEW c \in Clients, CheckVersionOrRestartServer(c)
    PROVE  IInv'
<1>1. TypeInv /\ SessionsInv
  BY DEF IInv
<1>2. ServerStep(0)
  BY <1>1, ServerStays DEF CheckVersionOrRestartServer, serverVars
<1>3. QED
  BY <1>1, <1>2, IdleStep DEF CheckVersionOrRestartServer, TypeInv

LEMMA ResetStep ==
    ASSUME IInv, NEW c \in Clients, Reset(c)
    PROVE  IInv'
<1>1. TypeInv /\ SessionsInv
  BY DEF IInv
<1>2. ServerStep(0)
  BY <1>1, ServerStays DEF Reset, serverVars
<1>3. "UNKNOWN" \in ServerStatus
  BY DEF ServerStatus
<1>4. /\ server_status' \in [Clients -> ServerStatus]
      /\ \A d \in Clients \ {c} : server_status'[d] = server_status[d]
  BY <1>1, <1>3, StatusFacts DEF Reset
<1>5. QED
  BY <1>1, <1>2, <1>4, IdleStep DEF Reset, TypeInv

LEMMA DestroyStep ==
    ASSUME IInv, NEW c \in Clients, Destroy(c)
    PROVE  IInv'
<1>1. TypeInv /\ SessionsInv
  BY DEF IInv
<1>2. CASE UNCHANGED <<server_status, seen, serverVars>>
  <2>1. ServerStep(0)
    BY <1>1, <1>2, ServerStays DEF serverVars
  <2>2. QED
    BY <1>1, <1>2, <2>1, IdleStep DEF Destroy, TypeInv
<1>3. ASSUME NEW o \in Call(c, "DELETE_SESSION", id[c]), SetStatus(c, o.status),
             SetSeen(c, o), ServerAfter(o, "DELETE_SESSION")
      PROVE  IInv'
  <2>1. "DELETE_SESSION" \in CallTypes
    BY DEF CallTypes
  <2>2. ServerStep(0) /\ o.status \in ServerStatus /\ DOMAIN seen' = Clients
    BY <1>3, <2>1, OtherCall
  <2>3. /\ server_status' \in [Clients -> ServerStatus]
        /\ \A d \in Clients \ {c} : server_status'[d] = server_status[d]
    BY <1>1, <1>3, <2>2, StatusFacts
  <2>4. QED
    BY <2>2, <2>3, IdleStep DEF Destroy
<1>4. QED
  BY <1>2, <1>3 DEF Destroy

\* Between the calls the server may die, be started, or drop a session.
LEMMA ServerAlone ==
    ASSUME IInv, ServerStep(0), UNCHANGED clientVars
    PROVE  IInv'
<1>1. TypeInv /\ SessionsInv
  BY DEF IInv
<1>2. /\ id' = id /\ server_status' = server_status /\ seen' = seen
      /\ history_inputs' = history_inputs /\ ctl' = ctl /\ shown' = shown
  BY DEF clientVars
<1>3. last_id' \in Nat /\ \A c \in Clients : id[c] <= last_id'
  BY SMT, <1>1 DEF TypeInv, SessionsInv, ServerStep
<1>4. TypeInv'
  BY <1>1, <1>2, <1>3 DEF TypeInv, ServerStep, Changed
<1>5. SessionsInv'
  <2>1. DOMAIN server'.sessions \subseteq 1..last_id'
    BY <1>1, ServerIds
  <2>2. server'.version.proto # "same" => DOMAIN server'.sessions = {}
    BY DEF ServerStep, Changed
  <2>3. QED
    BY <1>1, <1>2, <1>3, <2>1, <2>2 DEF SessionsInv
<1>6. \A c \in Clients : ClientInv(c)'
  BY <1>2, ClientKept
<1>7. QED
  BY <1>4, <1>5, <1>6 DEF IInv

LEMMA CrashStep == IInv /\ Crash => IInv'
<1> SUFFICES ASSUME IInv, Crash PROVE IInv'
  OBVIOUS
<1>1. /\ TypeInv /\ SessionsInv
      /\ server' = Down /\ last_id' = last_id /\ UNCHANGED clientVars
  BY DEF IInv, Crash
<1>2. ServerStep(0)
  BY <1>1, RestartChanges, QuietServer
<1>3. QED
  BY <1>1, <1>2, ServerAlone

LEMMA StartedByOtherStep == IInv /\ StartedByOther => IInv'
<1> SUFFICES ASSUME IInv, StartedByOther PROVE IInv'
  OBVIOUS
<1>1. /\ TypeInv /\ SessionsInv
      /\ server' = Fresh /\ last_id' = last_id /\ UNCHANGED clientVars
  BY DEF IInv, StartedByOther
<1>2. ServerStep(0)
  BY <1>1, RestartChanges, QuietServer
<1>3. QED
  BY <1>1, <1>2, ServerAlone

LEMMA DropSessionStep == IInv /\ DropSession => IInv'
<1> SUFFICES ASSUME IInv, DropSession PROVE IInv'
  OBVIOUS
<1>1. TypeInv /\ SessionsInv /\ last_id' = last_id /\ UNCHANGED clientVars
  BY DEF IInv, DropSession
<1>2. PICK i \in DOMAIN server.sessions :
         server' = [server EXCEPT !.sessions =
                       [k \in DOMAIN server.sessions \ {i} |-> server.sessions[k]]]
  BY DEF DropSession
<1> DEFINE kept == [k \in DOMAIN server.sessions \ {i} |-> server.sessions[k]]
<1>3. /\ DOMAIN kept \subseteq DOMAIN server.sessions
      /\ \A k \in DOMAIN kept : kept[k] = server.sessions[k]
  OBVIOUS
<1>4. server' = [server EXCEPT !.sessions = kept]
  BY <1>2
<1> HIDE DEF kept
<1>5. /\ DOMAIN server' = {"up", "version", "disk", "sessions"}
      /\ server'.sessions = kept /\ server'.version = server.version
  BY SMT, <1>1, <1>4 DEF TypeInv
<1>6. Changed(server', 0)
  BY <1>1, <1>3, <1>5 DEF Changed, SessionsInv
<1>7. ServerStep(0)
  BY <1>1, <1>3, <1>5, <1>6, QuietServer
<1>8. QED
  BY <1>1, <1>7, ServerAlone

-----------------------------------------------------------------------------
(***************************************************************************)
(* The theorems.                                                           *)
(***************************************************************************)
LEMMA InitIInv == Init => IInv
<1> SUFFICES ASSUME Init PROVE IInv
  OBVIOUS
<1>1. /\ id = [c \in Clients |-> 0]
      /\ server_status = [c \in Clients |-> "UNKNOWN"]
      /\ DOMAIN seen = Clients
      /\ history_inputs = [c \in Clients |-> <<>>]
      /\ ctl = [c \in Clients |-> Idle]
      /\ shown = [c \in Clients |-> <<>>]
      /\ last_id = 0
  BY DEF Init
<1>2. DOMAIN server = {"up", "version", "disk", "sessions"} /\ server.sessions = <<>>
  <2>1. PICK v \in Installed :
           \/ server = [up |-> TRUE, version |-> FirstServer, disk |-> v,
                        sessions |-> <<>>]
           \/ server = [up |-> FALSE, version |-> v, disk |-> v, sessions |-> <<>>]
    BY DEF Init
  <2>2. QED
    BY SMT, <2>1
<1>3. 0 \in Nat /\ <<>> \in Seq(Inputs) /\ Len(<<>>) = 0 /\ 0 <= 0
  BY SMT
<1>4. Idle \in Control /\ Idle.pc = "idle" /\ Idle.next = "none"
  BY SMT DEF Idle, Control, PC
<1>5. "UNKNOWN" \in ServerStatus
  BY DEF ServerStatus
<1>6. TypeInv
  BY <1>1, <1>2, <1>3, <1>4, <1>5 DEF TypeInv
<1>7. SessionsInv
  BY <1>1, <1>2, <1>3, EmptyDomain DEF SessionsInv
<1>8. ASSUME NEW c \in Clients PROVE ClientInv(c)
  <2>1. ctl[c].pc = "idle" /\ ctl[c].next = "none"
    BY <1>1, <1>4
  <2>2. ControlInv(c) /\ PlaybackInv(c) /\ Restored(c)
    BY <2>1 DEF ControlInv, PlaybackInv, Restored
  <2>3. Replay(<<>>) = <<>>
    BY <1>3, AfterStep DEF Replay
  <2>4. HistoryInv(c)
    BY <1>1, <2>3 DEF HistoryInv
  <2>5. QED
    BY <2>2, <2>4 DEF ClientInv
<1>9. QED
  BY <1>6, <1>7, <1>8 DEF IInv

LEMMA NextIInv ==
    ASSUME IInv, "partial" \notin Commits, [Next]_vars
    PROVE  IInv'
<1>1. ASSUME NEW c \in Clients, Step(c)
      PROVE  IInv'
  <2>1. CASE EnsureSession(c) \/ CheckVersion(c) \/ Failed(c)
    BY <2>1, EnsureSessionStep, CheckVersionStep, FailedStep
  <2>2. CASE ShutdownServer(c) \/ ForceTerminateServer(c) \/ Relaunch(c)
    BY <2>2, ShutdownServerStep, ForceTerminateServerStep, RelaunchStep
  <2>3. CASE FirstCall(c) \/ SecondCall(c)
    BY <2>3, FirstCallStep, SecondCallStep
  <2>4. CASE GiveUpHistory(c) \/ PlaybackHistory(c) \/ PlaybackDone(c)
    BY <2>4, GiveUpHistoryStep, PlaybackHistoryStep, PlaybackDoneStep
  <2>5. QED
    BY <1>1, <2>1, <2>2, <2>3, <2>4 DEF Step
<1>2. ASSUME NEW c \in Clients, NEW in \in Inputs, EnsureCallCommand(c, in)
      PROVE  IInv'
  BY <1>2, EnsureCallCommandStep
<1>3. ASSUME NEW c \in Clients,
             \/ CallCommand(c) \/ CheckVersionOrRestartServer(c)
             \/ Reset(c) \/ Destroy(c)
      PROVE  IInv'
  BY <1>3, CallCommandStep, CheckVersionOrRestartServerStep, ResetStep, DestroyStep
<1>4. CASE Crash \/ StartedByOther \/ DropSession
  BY <1>4, CrashStep, StartedByOtherStep, DropSessionStep
<1>5. CASE UNCHANGED vars
  <2>1. UNCHANGED <<server, last_id>> /\ UNCHANGED clientVars
    BY <1>5 DEF vars, serverVars
  <2>2. QED
    BY <2>1, ServerStays, ServerAlone DEF IInv
<1>6. QED
  BY <1>1, <1>2, <1>3, <1>4, <1>5 DEF Next

\* The history of a client reproduces what its user typed since the last
\* context boundary, whatever happens to its calls, as long as it is not full:
\* PushHistory, PlaybackHistory and the second trial of EnsureCallCommand keep
\* it so, unless a key commits part of a composition only.
THEOREM HistoryReproduces ==
    ASSUME "partial" \notin Commits
    PROVE  Spec => []HistoryReplays
<1>1. IInv => HistoryReplays
  BY DEF IInv, ClientInv, HistoryInv, HistoryReplays
<1>2. IInv /\ [Next]_vars => IInv'
  BY NextIInv
<1>3. QED
  BY <1>1, <1>2, InitIInv, PTL DEF Spec

\* When PlaybackHistory is done and the second trial of EnsureCallCommand goes
\* out with the client in SERVER_OK, a session that still exists holds exactly
\* the composition the user goes on from.
THEOREM PlaybackReproduces ==
    ASSUME "partial" \notin Commits
    PROVE  Spec => []PlaybackRestores
<1>1. IInv => PlaybackRestores
  BY DEF IInv, ClientInv, Restored, PlaybackRestores
<1>2. IInv /\ [Next]_vars => IInv'
  BY NextIInv
<1>3. QED
  BY <1>1, <1>2, InitIInv, PTL DEF Spec

-----------------------------------------------------------------------------
(***************************************************************************)
(* SERVER_FATAL.  A client that is in it is between two operations or at   *)
(* the beginning of one, where EnsureConnection refuses: only              *)
(* CheckVersionOrRestartServer calls the server without asking it first.   *)
(***************************************************************************)
Resting == {"idle", "gone", "ensure"}

FatalInv ==
    /\ DOMAIN server_status = Clients
    /\ DOMAIN ctl = Clients
    /\ \A c \in Clients :
          /\ DOMAIN ctl[c] = {"pc", "next", "input", "n"}
          /\ server_status[c] = "FATAL" => ctl[c].pc \in Resting

\* A step of c, to pc and with status st.
Moves(c, pc) ==
    /\ DOMAIN ctl' = Clients /\ DOMAIN ctl'[c] = {"pc", "next", "input", "n"}
    /\ ctl'[c].pc = pc
    /\ \A d \in Clients \ {c} : ctl'[d] = ctl[d]
Becomes(c, st) ==
    /\ DOMAIN server_status' = Clients /\ server_status'[c] = st
    /\ \A d \in Clients \ {c} : server_status'[d] = server_status[d]

\* The step is one that FatalStays allows.
Allowed(c, st) == server_status[c] = "FATAL" => st = "FATAL" \/ Reset(c)

KeepsFatal ==
    /\ FatalInv'
    /\ \A d \in Clients :
          server_status[d] = "FATAL" /\ ~Reset(d) => server_status'[d] = "FATAL"

LEMMA FatalStep ==
    ASSUME FatalInv, NEW c \in Clients, NEW pc, Moves(c, pc),
           NEW st, Becomes(c, st), st = "FATAL" => pc \in Resting, Allowed(c, st)
    PROVE  KeepsFatal
<1>1. ASSUME NEW d \in Clients
      PROVE  /\ DOMAIN ctl'[d] = {"pc", "next", "input", "n"}
             /\ server_status'[d] = "FATAL" => ctl'[d].pc \in Resting
             /\ server_status[d] = "FATAL" /\ ~Reset(d) => server_status'[d] = "FATAL"
  <2>1. CASE d = c
    BY <2>1 DEF Moves, Becomes, Allowed
  <2>2. CASE d # c
    BY <2>2 DEF FatalInv, Moves, Becomes
  <2>3. QED
    BY <2>1, <2>2
<1>2. QED
  BY <1>1 DEF KeepsFatal, FatalInv, Moves, Becomes

LEMMA MovesFacts ==
    ASSUME FatalInv, NEW c \in Clients, NEW pc
    PROVE  /\ Goto(c, pc) => Moves(c, pc)
           /\ Return(c) => Moves(c, "idle")
           /\ ctl' = [ctl EXCEPT ![c].pc = pc] => Moves(c, pc)
           /\ \A n : ctl' = [ctl EXCEPT ![c].pc = pc, ![c].n = n] => Moves(c, pc)
           /\ \A n : ctl' = [ctl EXCEPT ![c].n = n] => Moves(c, ctl[c].pc)
           /\ \A next : ctl' = [ctl EXCEPT ![c].pc = pc, ![c].next = next] => Moves(c, pc)
           /\ \A in : ctl' = [ctl EXCEPT ![c] = [pc |-> pc, next |-> "first",
                                                 input |-> in, n |-> 0]] => Moves(c, pc)
           /\ UNCHANGED ctl => Moves(c, ctl[c].pc)
<1>0. DOMAIN ctl = Clients /\ DOMAIN ctl[c] = {"pc", "next", "input", "n"}
  BY DEF FatalInv
<1>1. ASSUME NEW k, DOMAIN k = {"pc", "next", "input", "n"}, ctl' = [ctl EXCEPT ![c] = k]
      PROVE  Moves(c, k.pc)
  BY <1>0, <1>1 DEF Moves
<1>2. ASSUME NEW n, ctl' = [ctl EXCEPT ![c].pc = pc, ![c].n = n]
      PROVE  Moves(c, pc)
  <2> DEFINE k == [ctl[c] EXCEPT !.pc = pc, !.n = n]
  <2>1. DOMAIN k = {"pc", "next", "input", "n"} /\ k.pc = pc
    BY SMT, <1>0
  <2>2. ctl' = [ctl EXCEPT ![c] = k]
    BY <1>2
  <2> HIDE DEF k
  <2>3. QED
    BY <1>1, <2>1, <2>2
<1>3. ASSUME ctl' = [ctl EXCEPT ![c].pc = pc]
      PROVE  Moves(c, pc)
  <2> DEFINE k == [ctl[c] EXCEPT !.pc = pc]
  <2>1. DOMAIN k = {"pc", "next", "input", "n"} /\ k.pc = pc
    BY SMT, <1>0
  <2>2. ctl' = [ctl EXCEPT ![c] = k]
    BY <1>3
  <2> HIDE DEF k
  <2>3. QED
    BY <1>1, <2>1, <2>2
<1>4. ASSUME NEW n, ctl' = [ctl EXCEPT ![c].n = n]
      PROVE  Moves(c, ctl[c].pc)
  <2> DEFINE k == [ctl[c] EXCEPT !.n = n]
  <2>1. DOMAIN k = {"pc", "next", "input", "n"} /\ k.pc = ctl[c].pc
    BY SMT, <1>0
  <2>2. ctl' = [ctl EXCEPT ![c] = k]
    BY <1>4
  <2> HIDE DEF k
  <2>3. QED
    BY <1>1, <2>1, <2>2
<1>5. ASSUME NEW next, ctl' = [ctl EXCEPT ![c].pc = pc, ![c].next = next]
      PROVE  Moves(c, pc)
  <2> DEFINE k == [ctl[c] EXCEPT !.pc = pc, !.next = next]
  <2>1. DOMAIN k = {"pc", "next", "input", "n"} /\ k.pc = pc
    BY SMT, <1>0
  <2>2. ctl' = [ctl EXCEPT ![c] = k]
    BY <1>5
  <2> HIDE DEF k
  <2>3. QED
    BY <1>1, <2>1, <2>2
<1>6. ASSUME NEW next, NEW in,
             ctl' = [ctl EXCEPT ![c] = [pc |-> pc, next |-> next, input |-> in, n |-> 0]]
      PROVE  Moves(c, pc)
  <2> DEFINE k == [pc |-> pc, next |-> next, input |-> in, n |-> 0]
  <2>1. DOMAIN k = {"pc", "next", "input", "n"} /\ k.pc = pc
    BY SMT
  <2>2. ctl' = [ctl EXCEPT ![c] = k]
    BY <1>6
  <2> HIDE DEF k
  <2>3. QED
    BY <1>1, <2>1, <2>2
<1>7. Goto(c, pc) => Moves(c, pc)
  BY <1>2 DEF Goto
<1>8. Return(c) => Moves(c, "idle")
  <2>1. DOMAIN Idle = {"pc", "next", "input", "n"} /\ Idle.pc = "idle"
    BY SMT DEF Idle
  <2>2. QED
    BY <1>1, <2>1 DEF Return
<1>9. UNCHANGED ctl => Moves(c, ctl[c].pc)
  BY <1>0 DEF Moves
<1>10. QED
  BY <1>2, <1>3, <1>4, <1>5, <1>6, <1>7, <1>8, <1>9

LEMMA BecomesFacts ==
    ASSUME FatalInv, NEW c \in Clients
    PROVE  /\ \A st : SetStatus(c, st) => Becomes(c, st)
           /\ UNCHANGED server_status => Becomes(c, server_status[c])
BY DEF FatalInv, SetStatus, Becomes

\* A call neither enters nor leaves SERVER_FATAL.
LEMMA CallStatus ==
    ASSUME NEW c \in Clients, NEW type, NEW i, NEW o \in Call(c, type, i)
    PROVE  o.status = "FATAL" <=> server_status[c] = "FATAL"
<1>1. o.status \in {server_status[c], "SHUTDOWN", "TIMEOUT", "BROKEN_MESSAGE"}
  BY CallFails, CallReturns
<1>2. "FATAL" \in Blocked
  BY DEF Blocked
<1>3. server_status[c] = "FATAL" => o.status = "FATAL"
  BY <1>2, CallFails, CallReturns
<1>4. QED
  BY SMT, <1>1, <1>3

\* A step in the middle of an operation.
LEMMA WorkingStep ==
    ASSUME FatalInv, NEW c \in Clients, ctl[c].pc \notin Resting,
           NEW pc, Moves(c, pc), NEW st, Becomes(c, st), st = "FATAL" => pc \in Resting
    PROVE  KeepsFatal
<1>1. Allowed(c, st)
  BY DEF FatalInv, Allowed
<1>2. QED
  BY <1>1, FatalStep

\* One that ends a call.
LEMMA WorkingCall ==
    ASSUME FatalInv, NEW c \in Clients, ctl[c].pc \notin Resting,
           NEW type, NEW i, NEW o \in Call(c, type, i), NEW pc, Moves(c, pc),
           NEW st \in {o.status, "OK", "INVALID_SESSION", "VERSION_MISMATCH",
                       "BROKEN_MESSAGE"}, SetStatus(c, st)
    PROVE  KeepsFatal
<1>1. o.status # "FATAL"
  BY CallStatus DEF FatalInv
<1>2. st # "FATAL"
  BY <1>1
<1>3. Becomes(c, st)
  BY BecomesFacts
<1>4. QED
  BY <1>2, <1>3, WorkingStep

LEMMA EnsureSessionKeeps ==
    ASSUME FatalInv, NEW c \in Clients, EnsureSession(c)
    PROVE  KeepsFatal
<1>1. PICK o \in EnsureConnection(server_status[c]) :
         /\ SetStatus(c, o.status)
         /\ \/ ~o.ok /\ Return(c)
            \/ o.ok /\ Goto(c, ctl[c].next)
            \/ o.ok /\ Goto(c, "create")
  BY DEF EnsureSession
<1>2. /\ o.ok <=> o.status # "FATAL"
      /\ server_status[c] = "FATAL" => o.status = "FATAL"
  BY ConnectionEnds
<1>3. Becomes(c, o.status) /\ Allowed(c, o.status)
  BY <1>1, <1>2, BecomesFacts DEF Allowed
<1>4. CASE ~o.ok /\ Return(c)
  <2>1. Moves(c, "idle") /\ "idle" \in Resting
    BY <1>4, MovesFacts DEF Resting
  <2>2. QED
    BY <1>3, <2>1, FatalStep
<1>5. ASSUME o.ok, NEW pc, Goto(c, pc) PROVE KeepsFatal
  <2>1. Moves(c, pc)
    BY <1>5, MovesFacts
  <2>2. QED
    BY <1>2, <1>3, <1>5, <2>1, FatalStep
<1>6. QED
  BY <1>1, <1>4, <1>5

LEMMA CheckVersionKeeps ==
    ASSUME FatalInv, NEW c \in Clients, CheckVersion(c)
    PROVE  KeepsFatal
<1> DEFINE type == IF ctl[c].next = "check" THEN "OTHER" ELSE "CREATE_SESSION"
<1>1. ctl[c].pc \notin Resting
  BY DEF CheckVersion, Resting
<1>2. PICK o \in Call(c, type, id[c]) :
         \/ SetStatus(c, "VERSION_MISMATCH") /\ Goto(c, "failed")
         \/ SetStatus(c, "BROKEN_MESSAGE") /\ Goto(c, "failed")
         \/ /\ SetStatus(c, o.status)
            /\ Goto(c, IF o.ok THEN "shutdown" ELSE "terminate")
         \/ SetStatus(c, o.status) /\ Goto(c, "failed")
         \/ SetStatus(c, o.status) /\ Return(c)
         \/ SetStatus(c, "INVALID_SESSION") /\ Goto(c, "failed")
         \/ SetStatus(c, "OK") /\ Goto(c, ctl[c].next)
  BY DEF CheckVersion, CreateSession
<1> HIDE DEF type
<1>3. PICK st \in {o.status, "OK", "INVALID_SESSION", "VERSION_MISMATCH",
                   "BROKEN_MESSAGE"} :
         SetStatus(c, st) /\ (Return(c) \/ \E pc : Goto(c, pc))
  BY <1>2
<1>4. \E pc : Moves(c, pc)
  BY <1>3, MovesFacts
<1>5. QED
  BY <1>1, <1>3, <1>4, WorkingCall

LEMMA FailedKeeps ==
    ASSUME FatalInv, NEW c \in Clients, Failed(c)
    PROVE  KeepsFatal
<1>1. PICK st : SetStatus(c, st)
  BY DEF Failed
<1>2. ctl[c].pc \notin Resting /\ Moves(c, "idle") /\ "idle" \in Resting
  BY MovesFacts DEF Failed, Resting
<1>3. Becomes(c, st)
  BY <1>1, BecomesFacts
<1>4. QED
  BY <1>2, <1>3, WorkingStep

LEMMA RestartKeeps ==
    ASSUME FatalInv, NEW c \in Clients,
           ShutdownServer(c) \/ ForceTerminateServer(c) \/ Relaunch(c)
    PROVE  KeepsFatal
<1>1. ctl[c].pc \notin Resting
  BY DEF ShutdownServer, ForceTerminateServer, Relaunch, Resting
<1>2. server_status[c] # "FATAL"
  BY <1>1 DEF FatalInv
<1>3. ASSUME NEW st, st # "FATAL", SetStatus(c, st), NEW pc, Moves(c, pc)
      PROVE  KeepsFatal
  BY <1>1, <1>3, BecomesFacts, WorkingStep
<1>4. CASE ShutdownServer(c)
  <2>1. PICK o \in Call(c, "SHUTDOWN", id[c]) :
           SetStatus(c, o.status) /\ \E pc : Goto(c, pc)
    BY <1>4 DEF ShutdownServer
  <2>2. QED
    BY <1>1, <2>1, MovesFacts, WorkingCall
<1>5. CASE ForceTerminateServer(c)
  <2>1. CASE Goto(c, "relaunch") /\ UNCHANGED server_status
    <3>1. Moves(c, "relaunch") /\ Becomes(c, server_status[c])
      BY <2>1, MovesFacts, BecomesFacts
    <3>2. QED
      BY <1>1, <1>2, <3>1, WorkingStep
  <2>2. CASE SetStatus(c, "BROKEN_MESSAGE") /\ Goto(c, "failed")
    BY <1>3, <2>2, MovesFacts
  <2>3. QED
    BY <1>5, <2>1, <2>2 DEF ForceTerminateServer
<1>6. CASE Relaunch(c)
  <2>1. PICK o \in EnsureConnection("UNKNOWN") :
           /\ SetStatus(c, IF o.ok THEN o.status ELSE "VERSION_MISMATCH")
           /\ ctl' = IF o.ok THEN [ctl EXCEPT ![c].pc = "create", ![c].n = 1]
                             ELSE [ctl EXCEPT ![c].pc = "failed"]
    BY <1>6 DEF Relaunch
  <2>2. o.ok <=> o.status # "FATAL"
    BY ConnectionEnds
  <2>3. CASE o.ok
    BY <1>3, <2>1, <2>2, <2>3, MovesFacts
  <2>4. CASE ~o.ok
    <3>1. "VERSION_MISMATCH" # "FATAL" /\ SetStatus(c, "VERSION_MISMATCH")
      BY <2>1, <2>4
    <3>2. Moves(c, "failed")
      BY <2>1, <2>4, MovesFacts
    <3>3. QED
      BY <1>3, <3>1, <3>2
  <2>5. QED
    BY <2>3, <2>4
<1>7. QED
  BY <1>4, <1>5, <1>6

LEMMA FirstCallKeeps ==
    ASSUME FatalInv, NEW c \in Clients, FirstCall(c)
    PROVE  KeepsFatal
<1>1. ctl[c].pc \notin Resting
  BY DEF FirstCall, Resting
<1> DEFINE Again == ctl' = [ctl EXCEPT ![c].pc = "ensure", ![c].next = "playback"]
<1>2. PICK o \in Call(c, ctl[c].input, id[c]) :
         /\ \/ SetStatus(c, o.status)
            \/ SetStatus(c, "INVALID_SESSION")
            \/ SetStatus(c, IF o.seen.proto # "same" THEN "VERSION_MISMATCH"
                                                     ELSE o.status)
         /\ Return(c) \/ Again
  BY DEF FirstCall
<1>3. PICK st \in {o.status, "OK", "INVALID_SESSION", "VERSION_MISMATCH",
                   "BROKEN_MESSAGE"} : SetStatus(c, st)
  BY <1>2
<1>4. \E pc : Moves(c, pc)
  BY <1>2, MovesFacts
<1>5. QED
  BY <1>1, <1>3, <1>4, WorkingCall

LEMMA PlaybackKeeps ==
    ASSUME FatalInv, NEW c \in Clients,
           GiveUpHistory(c) \/ PlaybackHistory(c) \/ PlaybackDone(c)
    PROVE  KeepsFatal
<1>1. ctl[c].pc \notin Resting
  BY DEF GiveUpHistory, PlaybackHistory, PlaybackDone, Resting
<1>2. CASE PlaybackHistory(c)
  <2> DEFINE n == ctl[c].n + 1
  <2>1. PICK o \in Call(c, history_inputs[c][n], id[c]) :
           /\ SetStatus(c, o.status)
           /\ ctl' = IF o.ok THEN [ctl EXCEPT ![c].n = n]
                             ELSE [ctl EXCEPT ![c].pc = "second"]
    BY <1>2 DEF PlaybackHistory
  <2> HIDE DEF n
  <2>2. \E pc : Moves(c, pc)
    BY <2>1, MovesFacts
  <2>3. QED
    BY <1>1, <2>1, <2>2, WorkingCall
<1>3. CASE GiveUpHistory(c) \/ PlaybackDone(c)
  <2>1. Moves(c, "second") /\ Becomes(c, server_status[c])
    BY <1>3, MovesFacts, BecomesFacts DEF GiveUpHistory, PlaybackDone
  <2>2. server_status[c] # "FATAL"
    BY <1>1 DEF FatalInv
  <2>3. QED
    BY <1>1, <2>1, <2>2, WorkingStep
<1>4. QED
  BY <1>2, <1>3

LEMMA SecondCallKeeps ==
    ASSUME FatalInv, NEW c \in Clients, SecondCall(c)
    PROVE  KeepsFatal
<1>1. ctl[c].pc \notin Resting /\ Return(c)
  BY DEF SecondCall, Resting
<1>2. PICK o \in Call(c, ctl[c].input, id[c]) :
         \/ SetStatus(c, o.status)
         \/ SetStatus(c, IF o.seen.proto # "same" THEN "VERSION_MISMATCH" ELSE o.status)
  BY DEF SecondCall
<1>3. PICK st \in {o.status, "OK", "INVALID_SESSION", "VERSION_MISMATCH",
                   "BROKEN_MESSAGE"} : SetStatus(c, st)
  BY <1>2
<1>4. Moves(c, "idle")
  BY <1>1, MovesFacts
<1>5. QED
  BY <1>1, <1>3, <1>4, WorkingCall

LEMMA IdleKeeps ==
    ASSUME FatalInv, NEW c \in Clients,
           \/ \E in \in Inputs : EnsureCallCommand(c, in)
           \/ CallCommand(c) \/ Reset(c) \/ Destroy(c)
    PROVE  KeepsFatal
<1>1. ctl[c].pc = "idle"
  BY DEF EnsureCallCommand, CallCommand, Reset, Destroy
<1>2. \E pc \in Resting : Moves(c, pc)
  <2>1. CASE \E in \in Inputs : EnsureCallCommand(c, in)
    BY <2>1, MovesFacts DEF EnsureCallCommand, Resting
  <2>2. CASE CallCommand(c) \/ Reset(c)
    BY <1>1, <2>2, MovesFacts DEF CallCommand, Reset, Resting
  <2>3. CASE Destroy(c)
    BY <2>3, MovesFacts DEF Destroy, Resting
  <2>4. QED
    BY <2>1, <2>2, <2>3
<1>3. ASSUME NEW st, Becomes(c, st), Allowed(c, st)
      PROVE  KeepsFatal
  BY <1>2, <1>3, FatalStep
<1>4. CASE UNCHANGED server_status
  BY <1>3, <1>4, BecomesFacts DEF Allowed
<1>5. ASSUME NEW type, NEW o \in Call(c, type, id[c]), SetStatus(c, o.status)
      PROVE  KeepsFatal
  BY <1>3, <1>5, CallStatus, BecomesFacts DEF Allowed
<1>6. CASE Reset(c)
  <2>1. SetStatus(c, "UNKNOWN")
    BY <1>6 DEF Reset
  <2>2. QED
    BY <1>3, <1>6, <2>1, BecomesFacts DEF Allowed
<1>7. CASE CallCommand(c)
  BY <1>5, <1>7 DEF CallCommand
<1>8. CASE Destroy(c)
  BY <1>4, <1>5, <1>8 DEF Destroy
<1>9. CASE \E in \in Inputs : EnsureCallCommand(c, in)
  BY <1>4, <1>9 DEF EnsureCallCommand
<1>10. QED
  BY <1>6, <1>7, <1>8, <1>9

LEMMA NextKeeps ==
    ASSUME FatalInv, ~VersionChecks, [Next]_vars
    PROVE  KeepsFatal
<1>1. ASSUME NEW c \in Clients, Step(c)
      PROVE  KeepsFatal
  <2>1. CASE EnsureSession(c) \/ CheckVersion(c) \/ Failed(c)
    BY <2>1, EnsureSessionKeeps, CheckVersionKeeps, FailedKeeps
  <2>2. CASE ShutdownServer(c) \/ ForceTerminateServer(c) \/ Relaunch(c)
    BY <2>2, RestartKeeps
  <2>3. CASE FirstCall(c) \/ SecondCall(c)
    BY <2>3, FirstCallKeeps, SecondCallKeeps
  <2>4. CASE GiveUpHistory(c) \/ PlaybackHistory(c) \/ PlaybackDone(c)
    BY <2>4, PlaybackKeeps
  <2>5. QED
    BY <1>1, <2>1, <2>2, <2>3, <2>4 DEF Step
<1>2. ASSUME NEW c \in Clients,
             \/ \E in \in Inputs : EnsureCallCommand(c, in)
             \/ CallCommand(c) \/ Reset(c) \/ Destroy(c)
      PROVE  KeepsFatal
  BY <1>2, IdleKeeps
<1>3. ASSUME NEW c \in Clients PROVE ~CheckVersionOrRestartServer(c)
  BY DEF CheckVersionOrRestartServer
<1>4. CASE UNCHANGED <<server_status, ctl>>
  BY <1>4 DEF FatalInv, KeepsFatal
<1>5. CASE Crash \/ StartedByOther \/ DropSession
  BY <1>4, <1>5 DEF Crash, StartedByOther, DropSession, clientVars
<1>6. CASE UNCHANGED vars
  BY <1>4, <1>6 DEF vars, clientVars
<1>7. QED
  BY <1>1, <1>2, <1>3, <1>5, <1>6 DEF Next

\* EnsureConnection does nothing in SERVER_FATAL, and no call of the server
\* gets a client out of it: without CheckVersionOrRestartServer, which does
\* not ask EnsureConnection, only Reset leaves it.
THEOREM FatalIsLasting ==
    ASSUME ~VersionChecks
    PROVE  Spec => FatalStays
<1>1. Init => FatalInv
  <2>1. DOMAIN Idle = {"pc", "next", "input", "n"} /\ Idle.pc = "idle"
    BY SMT DEF Idle
  <2>2. QED
    BY <2>1 DEF Init, FatalInv
<1>2. FatalInv /\ [Next]_vars => FatalInv'
  BY NextKeeps DEF KeepsFatal
<1>3. FatalInv /\ [Next]_vars =>
         [\A c \in Clients :
             server_status[c] = "FATAL" /\ ~Reset(c) => server_status'[c] = "FATAL"]_vars
  BY NextKeeps DEF KeepsFatal
<1>4. QED
  BY <1>1, <1>2, <1>3, PTL DEF Spec, FatalStays
=============================================================================
