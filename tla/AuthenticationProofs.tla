------------------------ MODULE AuthenticationProofs ------------------------
(***************************************************************************)
(* Proofs about Authentication, for any configurations, any characters in  *)
(* the credentials and any number of calls: what the two ends know of each *)
(* other, and what CommitAuth was called for.  What the codecs of the      *)
(* mechanisms undo is left to TLC.                                         *)
(***************************************************************************)
EXTENDS Authentication, SequenceTheorems, TLAPS

\* s is a sequence, of whatever it holds.
Sequence(s) == \E S : s \in Seq(S)

(***************************************************************************)
(* Who is to act.  While the connection stands and no call was given up,   *)
(* one line at most is under way and the ends know whose turn it is.       *)
(***************************************************************************)
Resting == cpc = "idle" /\ spc = "loop" /\ toServer = <<>> /\ toClient = <<>>

Asked ==
    /\ toClient = <<>>
    /\ \E m : /\ toServer = <<m>>
              /\ \/ cpc = "wait" /\ spc = "loop" /\ m.verb = "AUTH"
                 \/ cpc = "wait" /\ spc = "challenge" /\ m.verb = "line"
                 \/ cpc = "cancel" /\ spc = "challenge" /\ m.verb = "line" /\ m.text = line("*", <<>>)
                 \/ cpc = "ehlo" /\ spc = "loop" /\ m.verb = "EHLO"

\* After 334 a response is awaited, after any other reply a command.
Awaits(code) == IF code = 334 THEN "challenge" ELSE "loop"

Replied ==
    /\ toServer = <<>>
    /\ cpc \in {"wait", "got", "cancel", "ehlo"}
    /\ \E r : toClient = <<r>> /\ spc = Awaits(r.code) /\ (cpc = "ehlo" => r.code # 334)

Lockstep == up /\ ~cancelled => Resting \/ Asked \/ Replied

(***************************************************************************)
(* What is known of 235.                                                   *)
(***************************************************************************)
Phases ==
    /\ cpc \in {"idle", "wait", "got", "cancel", "ehlo"}
    /\ cpc \in {"wait", "got", "cancel"} => state = "greeted"
    /\ cpc = "ehlo" => state = "authenticated"
    /\ cpc = "got" => toClient # <<>>
    /\ state \in {"greeted", "authenticated", "closed"}
    /\ state = "closed" => ~up
    /\ up \in BOOLEAN /\ fault \in BOOLEAN /\ cancelled \in BOOLEAN

Commits ==
    /\ sauth \in BOOLEAN
    /\ commits = IF sauth THEN 1 ELSE 0
    /\ sauth => peer = "library" /\ spc # "challenge"

Said235 ==
    peer = "library" =>
        /\ \A i \in 1..Len(toClient) : toClient[i].code = 235 => sauth
        /\ state = "authenticated" => sauth

Confirmed ==
    sauth /\ ~fault /\ ~cancelled =>
        /\ up
        /\ \/ cpc \in {"wait", "got"} /\ \E r : toClient = <<r>> /\ r.code = 235
           \/ /\ cpc \in {"ehlo", "idle"} /\ state = "authenticated"
              /\ \A i \in 1..Len(toClient) : toClient[i].code = 250

Inv ==
    /\ Sequence(toServer) /\ Sequence(toClient)
    /\ Phases
    /\ Commits
    /\ Said235
    /\ Lockstep
    /\ Confirmed

(***************************************************************************)
(* Queues.                                                                 *)
(***************************************************************************)
LEMMA AppendIs ==
    ASSUME NEW s, Sequence(s), NEW x
    PROVE  /\ Sequence(Append(s, x))
           /\ Len(s) \in Nat /\ Len(Append(s, x)) = Len(s) + 1
           /\ \A i \in 1..Len(s) : Append(s, x)[i] = s[i]
           /\ Append(s, x)[Len(s) + 1] = x
<1>1. PICK S : s \in Seq(S)
  BY DEF Sequence
<1>. DEFINE T == S \union {x}
<1>2. s \in Seq(T) /\ x \in T
  BY <1>1
<1>. HIDE DEF T
<1>3. Append(s, x) \in Seq(T)
  BY <1>2
<1>4. Sequence(Append(s, x))
  BY <1>3, Zenon DEF Sequence
<1>. QED  BY <1>2, <1>4

\* Taking from a queue.
LEMMA TailIs ==
    ASSUME NEW s, Sequence(s), s # <<>>
    PROVE  /\ Sequence(Tail(s))
           /\ Len(s) \in Nat \ {0} /\ Len(Tail(s)) = Len(s) - 1
           /\ Head(s) = s[1]
           /\ \A i \in 1..Len(Tail(s)) : Tail(s)[i] = s[i + 1] /\ i + 1 \in 1..Len(s)
<1>1. PICK S : s \in Seq(S)
  BY DEF Sequence
<1>2. Tail(s) \in Seq(S)
  BY <1>1
<1>3. Sequence(Tail(s))
  BY <1>2, Zenon DEF Sequence
<1>. QED  BY <1>1, <1>3

\* An empty queue.
LEMMA EmptyIs == Sequence(<<>>) /\ Len(<<>>) = 0
<1>1. <<>> \in Seq({})
  OBVIOUS
<1>. QED  BY <1>1, Zenon DEF Sequence

\* A queue of one.
LEMMA OneIs ==
    ASSUME NEW m
    PROVE  /\ Head(<<m>>) = m /\ Tail(<<m>>) = <<>> /\ <<m>> # <<>>
           /\ Append(<<>>, m) = <<m>>
           /\ Len(<<m>>) = 1 /\ <<m>>[1] = m
OBVIOUS

(***************************************************************************)
(* The responders' steps.                                                  *)
(***************************************************************************)
Kinds == {"challenge", "verify", "error", "done"}

\* The kind of step each constructor makes.
LEMMA BuildersAre ==
    ASSUME NEW r, NEW a, NEW b, NEW c
    PROVE  /\ challengeStep(r, a, b).is = "challenge"
           /\ verify(r, a, b, c).is = "verify"
           /\ finish(r, a).is = "done"
           /\ failure(r, a).is = "error"
           /\ payloadError(r).is = "error"
           /\ abort(r).is = "error" /\ abort(r).why = "aborted"
BY DEF challengeStep, verify, finish, failure, payloadError, abort

IsStep(step) == step.is \in Kinds

\* The constructors make steps,
LEMMA StepsAre ==
    /\ \A r, a, b : IsStep(challengeStep(r, a, b))
    /\ \A r, a, b, c : IsStep(verify(r, a, b, c))
    /\ \A r, a : IsStep(finish(r, a)) /\ IsStep(failure(r, a))
    /\ \A r : IsStep(payloadError(r)) /\ IsStep(abort(r))
BY BuildersAre, Zenon DEF IsStep, Kinds

\* ... the parsers of the mechanisms do,
LEMMA ParsersAre ==
    ASSUME NEW r, NEW payload, NEW keyset
    PROVE  /\ IsStep(plain(r, payload)) /\ IsStep(external(r, payload))
           /\ IsStep(oauth(r, payload))
           /\ IsStep(scramFirst(r, payload)) /\ IsStep(scramProof(r, payload, keyset))
<1>1. IsStep(plain(r, payload)) /\ IsStep(external(r, payload))
  BY StepsAre, Zenon DEF plain, external
<1>2. IsStep(oauth(r, payload))
  BY StepsAre, Zenon DEF oauth, parseOAuthBearer, parseXOAuth2
<1>3. IsStep(scramFirst(r, payload))
  BY StepsAre, Zenon DEF scramFirst
<1>4. IsStep(scramProof(r, payload, keyset))
  BY StepsAre, Zenon DEF scramProof
<1>. QED  BY <1>1, <1>2, <1>3, <1>4

\* ... so does the first step of a responder,
LEMMA StartIs ==
    ASSUME NEW r, NEW some \in BOOLEAN, NEW initial
    PROVE  StartResponder(r, some, initial).is \in Kinds
<1>1. IsStep(StartResponder(r, some, initial))
  BY StepsAre, ParsersAre, Zenon DEF StartResponder
<1>. QED  BY <1>1 DEF IsStep

\* ... every later one,
LEMMA NextIs ==
    ASSUME NEW r, NEW response, NEW keyset
    PROVE  NextResponder(r, response, keyset).is \in Kinds
<1>1. IsStep(NextResponder(r, response, keyset))
  BY StepsAre, ParsersAre, Zenon DEF NextResponder
<1>. QED  BY <1>1 DEF IsStep

\* ... and the step after the backend has answered, which asks nothing more of it.
LEMMA ContinueIs ==
    ASSUME NEW r, NEW kind, NEW accepted, NEW diagnostic, NEW keyset
    PROVE  Continue(r, kind, accepted, diagnostic, keyset).is \in {"challenge", "error", "done"}
<1>. DEFINE K == {"challenge", "error", "done"}
<1>1. scramServerFirst(r, keyset).is \in K
  <2>. DEFINE nonce == Append(r.nonce, ServerNonce)
              text  == <<"r", "=">> \o nonce \o <<",", "s", "=">> \o keyset.salt
                         \o <<",", "i", "=">> \o keyset.iterations
              q     == [r EXCEPT !.nonce = nonce, !.serverFirst = text]
  <2>1. scramServerFirst(r, keyset) \in {challengeStep(q, "SCRAMProof", text), failure(r, "other")}
    BY Zenon DEF scramServerFirst
  <2>. HIDE DEF q, text
  <2>. QED  BY <2>1, BuildersAre
<1>2. Continue(r, kind, accepted, diagnostic, keyset) \in
          {scramServerFirst(r, keyset), finish(r, FALSE), finish(r, accepted),
           challengeStep(r, "OAuthDummy", <<"json">>)}
  BY Zenon DEF Continue
<1>. QED  BY Zenon, <1>1, <1>2, BuildersAre

(***************************************************************************)
(* What a step of handleAUTH's loop does to the session and the reply.     *)
(***************************************************************************)
\* The connection is given up, or one reply is sent and the session is
\* authenticated exactly when that is 235.
Outcome ==
    \/ /\ up' = FALSE /\ spc' = "closed" /\ toClient' = toClient
       /\ sauth' = sauth /\ commits' = commits
    \/ /\ up' = up
       /\ \E r : /\ toClient' = Append(toClient, r)
                 /\ spc' = Awaits(r.code)
                 /\ \/ r.code = 235 /\ sauth' = TRUE /\ commits' = commits + 1
                    \/ r.code # 235 /\ sauth' = sauth /\ commits' = commits

\* ... and is not, when the client has cancelled.
NotAuthenticated == sauth' = sauth

\* A reply is appended.
LEMMA SayIs ==
    ASSUME NEW code, Say(code)
    PROVE  \E r : toClient' = Append(toClient, r) /\ r.code = code
<1>. DEFINE r == [code |-> code, text |-> line("", <<>>)]
<1>1. toClient' = Append(toClient, r) /\ r.code = code
  BY Zenon DEF Say
<1>. HIDE DEF r
<1>. QED  BY <1>1

\* A failed exchange is answered with an error.
LEMMA ErrorDoes ==
    ASSUME NEW why, authExchangeError(why), UNCHANGED <<sauth, commits>>
    PROVE  Outcome
<1>1. CASE why \in {"aborted", "payload"}
  <2>1. Say(501) /\ spc' = "loop" /\ up' = up
    BY <1>1 DEF authExchangeError
  <2>2. PICK r : toClient' = Append(toClient, r) /\ r.code = 501
    BY <2>1, SayIs
  <2>3. spc' = Awaits(r.code) /\ r.code # 235
    BY <2>1, <2>2 DEF Awaits
  <2>. QED  BY <2>1, <2>2, <2>3 DEF Outcome
<1>2. CASE why \notin {"aborted", "payload"}
  BY <1>2 DEF authExchangeError, Outcome
<1>. QED  BY <1>1, <1>2

\* A step is answered with a challenge, an error, or the result of the exchange.
LEMMA EmitDoes ==
    ASSUME NEW step, step.is \in {"challenge", "error", "done"}, Emit(step)
    PROVE  Outcome
<1>1. CASE step.is = "challenge"
  <2>. DEFINE r == [code |-> 334, text |-> encodeChallenge(step.octets)]
  <2>1. toClient' = Append(toClient, r) /\ spc' = "challenge" /\ UNCHANGED <<sauth, commits, up>>
    BY <1>1 DEF Emit
  <2>2. r.code = 334
    OBVIOUS
  <2>. HIDE DEF r
  <2>3. spc' = Awaits(r.code) /\ r.code # 235
    BY <2>1, <2>2 DEF Awaits
  <2>. QED  BY <2>1, <2>3 DEF Outcome
<1>2. CASE step.is = "error"
  <2>1. authExchangeError(step.why) /\ UNCHANGED <<sauth, commits>>
    BY <1>2 DEF Emit
  <2>. QED  BY <2>1, ErrorDoes
<1>3. CASE step.is = "done" /\ step.accepted
  <2>1. finalizeAuthentication /\ sauth' = TRUE /\ Say(235) /\ spc' = "loop" /\ up' = up
    BY <1>3 DEF Emit
  <2>2. PICK r : toClient' = Append(toClient, r) /\ r.code = 235
    BY <2>1, SayIs
  <2>3. spc' = Awaits(r.code) /\ commits' = commits + 1
    BY <2>1, <2>2 DEF Awaits, finalizeAuthentication
  <2>. QED  BY Zenon, <2>1, <2>2, <2>3 DEF Outcome
<1>4. CASE step.is = "done" /\ ~step.accepted
  <2>1. Say(535) /\ spc' = "loop" /\ UNCHANGED <<sauth, commits, up>>
    BY Zenon, <1>4 DEF Emit
  <2>2. PICK r : toClient' = Append(toClient, r) /\ r.code = 535
    BY <2>1, SayIs
  <2>3. spc' = Awaits(r.code) /\ r.code # 235
    BY <2>1, <2>2 DEF Awaits
  <2>. QED  BY <2>1, <2>2, <2>3 DEF Outcome
<1>. QED  BY <1>1, <1>2, <1>3, <1>4

\* So is a step that asks the backend.
LEMMA ProcessDoes ==
    ASSUME NEW step, step.is \in Kinds, Process(step), fault \in BOOLEAN
    PROVE  Outcome /\ (fault => fault') /\ fault' \in BOOLEAN
<1>1. CASE step.is = "verify"
  <2>1. verifyAUTH(step)
    BY <1>1 DEF Process
  <2>2. CASE /\ Say(454) /\ spc' = "loop"
             /\ fault' = TRUE
             /\ UNCHANGED <<keys, sauth, commits, up>>
    <3>1. PICK r : toClient' = Append(toClient, r) /\ r.code = 454
      BY <2>2, SayIs
    <3>2. spc' = Awaits(r.code) /\ r.code # 235
      BY <2>2, <3>1 DEF Awaits
    <3>3. Outcome
      BY <2>2, <3>1, <3>2 DEF Outcome
    <3>. QED  BY <2>2, <3>3
  <2>3. ASSUME NEW diagnostic \in BOOLEAN, NEW iterations \in {"0", "4096"},
               fault' = (fault \/ iterations = "0"),
               Emit(Continue(step.r, step.kind, accepts(step), diagnostic, storedKeys(iterations)))
        PROVE  Outcome /\ (fault => fault') /\ fault' \in BOOLEAN
    <3>1. Outcome
      BY <2>3, ContinueIs, EmitDoes
    <3>2. (fault => fault') /\ fault' \in BOOLEAN
      BY <2>3, Zenon
    <3>. QED  BY <3>1, <3>2
  <2>. QED  BY Zenon, <2>1, <2>2, <2>3 DEF verifyAUTH
<1>2. CASE step.is # "verify"
  <2>1. Emit(step) /\ UNCHANGED <<asked, keys, fault>>
    BY <1>2 DEF Process
  <2>2. Outcome
    BY <1>2, <2>1, EmitDoes DEF Kinds
  <2>. QED  BY <2>1, <2>2
<1>. QED  BY <1>1, <1>2

\* A cancelled exchange ends with 501.
LEMMA AbortDoes ==
    ASSUME Process(abort(resp))
    PROVE  NotAuthenticated
<1>1. abort(resp).is = "error"
  BY BuildersAre
<1>2. Emit(abort(resp))
  BY <1>1 DEF Process
<1>3. sauth' = sauth
  BY <1>1, <1>2 DEF Emit
<1>. QED  BY <1>3 DEF NotAuthenticated

(***************************************************************************)
(* The invariant, action by action: first the client.                      *)
(***************************************************************************)
LEMMA InvInit ==
    ASSUME Init
    PROVE  Inv
<1>1. /\ cpc = "idle" /\ state = "greeted" /\ spc = "loop" /\ sauth = FALSE /\ commits = 0
      /\ toServer = <<>> /\ toClient = <<>> /\ up = TRUE /\ fault = FALSE /\ cancelled = FALSE
  BY Zenon DEF Init
<1>2. Sequence(toServer) /\ Sequence(toClient) /\ Len(toClient) = 0
  BY <1>1, EmptyIs
<1>3. Phases
  BY Zenon, <1>1 DEF Phases
<1>4. Commits
  BY Zenon, <1>1 DEF Commits
<1>5. Said235
  BY <1>1, <1>2 DEF Said235
<1>6. Lockstep
  BY <1>1 DEF Lockstep, Resting
<1>7. Confirmed
  BY <1>1 DEF Confirmed
<1>. QED  BY <1>2, <1>3, <1>4, <1>5, <1>6, <1>7 DEF Inv

\* Nothing the invariant speaks of changes.
LEMMA SameInv ==
    ASSUME Inv, UNCHANGED <<cpc, state, spc, sauth, commits, toServer, toClient, up, fault, cancelled, peer>>
    PROVE  Inv'
<1>1. Sequence(toServer)' /\ Sequence(toClient)'
  BY Zenon DEF Inv
<1>2. Phases'
  BY Zenon DEF Inv, Phases
<1>3. Commits'
  BY DEF Inv, Commits
<1>4. Said235'
  BY DEF Inv, Said235
<1>5. Lockstep'
  <2>1. Resting' = Resting /\ Asked' = Asked /\ Replied' = Replied
    BY DEF Resting, Asked, Replied
  <2>. QED  BY <2>1 DEF Inv, Lockstep
<1>6. Confirmed'
  BY DEF Inv, Confirmed
<1>. QED  BY <1>1, <1>2, <1>3, <1>4, <1>5, <1>6 DEF Inv

\* Starting a call of Auth keeps the invariant;
LEMMA AuthInv ==
    ASSUME Inv, Auth
    PROVE  Inv'
<1>1. /\ cpc = "idle" /\ state = "greeted"
      /\ UNCHANGED <<config, state, serverv, toClient, up, fault, cancelled>>
  BY DEF Auth
<1>2. /\ peer' = peer /\ spc' = spc /\ sauth' = sauth /\ commits' = commits
  BY <1>1 DEF config, serverv
<1>3. CASE cpc' = "idle" /\ toServer' = toServer
  BY <1>1, <1>2, <1>3, SameInv
<1>4. ASSUME NEW m, m.verb = "AUTH", toServer' = Append(toServer, m), cpc' = "wait"
      PROVE  Inv'
  <2>1. Sequence(toServer)' /\ Sequence(toClient)'
    BY <1>1, <1>4, AppendIs DEF Inv
  <2>2. Phases'
    BY <1>1, <1>4 DEF Inv, Phases
  <2>3. Commits'
    BY <1>1, <1>2 DEF Inv, Commits
  <2>4. Said235'
    BY <1>1, <1>2 DEF Inv, Said235
  <2>5. Lockstep'
    <3>1. SUFFICES ASSUME up, ~cancelled
                   PROVE  Asked'
      BY <1>1 DEF Lockstep
    <3>2. Resting
      BY <1>1, <3>1 DEF Inv, Lockstep, Resting, Asked, Replied
    <3>3. toServer' = <<m>> /\ toClient' = <<>> /\ spc' = "loop"
      BY <1>1, <1>2, <1>4, <3>2 DEF Resting
    <3>. QED  BY <1>4, <3>3 DEF Asked
  <2>6. Confirmed'
    BY <1>1, <1>2 DEF Inv, Confirmed
  <2>. QED  BY <2>1, <2>2, <2>3, <2>4, <2>5, <2>6 DEF Inv
<1>5. CASE available = {} \/ (needsSecret(selectMechanism) /\ link = "plain")
  <2>1. cpc' = "idle" /\ toServer' = toServer
    BY <1>5 DEF Auth, Return
  <2>. QED  BY <1>3, <2>1
<1>6. CASE ~(available = {} \/ (needsSecret(selectMechanism) /\ link = "plain"))
  <2>. DEFINE m == [verb |-> "AUTH", mech |-> mech',
                    initial |-> IF ServerFirst(mech') \/ style = "waits" THEN line("none", <<>>)
                                ELSE encodeSASL(Start(mech', opts))]
  <2>1. cpc' = "wait" /\ toServer' = Append(toServer, m)
    BY <1>6 DEF Auth, Send
  <2>2. m.verb = "AUTH"
    OBVIOUS
  <2>. HIDE DEF m
  <2>. QED  BY <1>4, <2>1, <2>2
<1>. QED  BY <1>5, <1>6

\* The connection is given up by the client's end.
LEMMA PoisonInv ==
    ASSUME Inv, cpc' = "idle", state' = "closed", up' = FALSE,
           Sequence(toClient'), toServer' = toServer,
           \A i \in 1..Len(toClient') : \E j \in 1..Len(toClient) : toClient'[i] = toClient[j],
           UNCHANGED <<spc, sauth, commits, fault, peer>>, cancelled' \in BOOLEAN,
           sauth => fault \/ cancelled'
    PROVE  Inv'
<1>1. Sequence(toServer')
  BY DEF Inv
<1>2. Phases'
  BY Zenon DEF Inv, Phases
<1>3. Commits'
  BY DEF Inv, Commits
<1>4. Said235'
  <2>1. SUFFICES ASSUME peer = "library", NEW i \in 1..Len(toClient'), toClient'[i].code = 235
                 PROVE  sauth
    BY DEF Said235
  <2>2. PICK j \in 1..Len(toClient) : toClient'[i] = toClient[j]
    OBVIOUS
  <2>. QED  BY <2>1, <2>2 DEF Inv, Said235
<1>5. Lockstep'
  BY DEF Lockstep
<1>6. Confirmed'
  BY DEF Confirmed
<1>. QED  BY <1>1, <1>2, <1>3, <1>4, <1>5, <1>6 DEF Inv

\* ... reading a reply does,
LEMMA ReadReplyInv ==
    ASSUME Inv, ReadReply
    PROVE  Inv'
<1>1. /\ cpc = "wait" /\ toClient # <<>>
      /\ UNCHANGED <<config, serverv, toServer, fault, cancelled>>
  BY DEF ReadReply
<1>2. peer' = peer /\ spc' = spc /\ sauth' = sauth /\ commits' = commits
  BY <1>1 DEF config, serverv
<1>3. CASE Head(toClient).code = 334 /\ last
  <2>1. cpc' = "idle" /\ state' = "closed" /\ up' = FALSE /\ toClient' = toClient
    BY <1>3 DEF ReadReply, Return, poison
  <2>2. sauth => fault \/ cancelled
    <3>1. SUFFICES ASSUME sauth, ~fault, ~cancelled
                   PROVE  FALSE
      OBVIOUS
    <3>2. PICK r : toClient = <<r>> /\ r.code = 235
      BY <1>1, <3>1 DEF Inv, Confirmed
    <3>. QED  BY <1>3, <3>2
  <2>3. Sequence(toClient') /\ cancelled' \in BOOLEAN
    BY <1>1, <2>1 DEF Inv, Phases
  <2>. QED  BY Zenon, <1>1, <1>2, <2>1, <2>2, <2>3, PoisonInv
<1>4. CASE ~(Head(toClient).code = 334 /\ last)
  <2>1. cpc' = "got" /\ UNCHANGED <<state, up, toClient>>
    BY <1>4 DEF ReadReply
  <2>2. Sequence(toServer)' /\ Sequence(toClient)'
    BY <1>1, <2>1 DEF Inv
  <2>3. Phases'
    BY <1>1, <2>1 DEF Inv, Phases
  <2>4. Commits'
    BY <1>1, <1>2 DEF Inv, Commits
  <2>5. Said235'
    BY <1>2, <2>1 DEF Inv, Said235
  <2>6. Lockstep'
    <3>1. SUFFICES ASSUME up, ~cancelled
                   PROVE  Replied'
      BY <1>1, <2>1 DEF Lockstep
    <3>2. Replied
      BY <1>1, <3>1 DEF Inv, Lockstep, Resting, Asked
    <3>. QED  BY <1>1, <1>2, <2>1, <3>2 DEF Replied
  <2>7. Confirmed'
    <3>1. SUFFICES ASSUME sauth, ~fault, ~cancelled
                   PROVE  up /\ \E r : toClient = <<r>> /\ r.code = 235
      BY <1>1, <1>2, <2>1 DEF Confirmed
    <3>. QED  BY <1>1, <3>1 DEF Inv, Confirmed
  <2>. QED  BY <2>2, <2>3, <2>4, <2>5, <2>6, <2>7 DEF Inv
<1>. QED  BY <1>3, <1>4

\* ... failing to read one,
LEMMA ReadFailsInv ==
    ASSUME Inv, ReadFails
    PROVE  Inv'
<1>1. /\ ~up /\ cpc' = "idle" /\ state' = "closed" /\ up' = FALSE
      /\ UNCHANGED <<config, serverv, toServer, toClient, fault, cancelled>>
  BY DEF ReadFails, Return, poison
<1>2. peer' = peer /\ spc' = spc /\ sauth' = sauth /\ commits' = commits
  BY <1>1 DEF config, serverv
<1>3. sauth => fault \/ cancelled
  BY <1>1 DEF Inv, Confirmed
<1>4. Sequence(toClient') /\ cancelled' \in BOOLEAN
  BY <1>1 DEF Inv, Phases
<1>. QED  BY Zenon, <1>1, <1>2, <1>3, <1>4, PoisonInv

\* The reply in hand is the only one.
LEMMA InHand ==
    ASSUME Inv, cpc \in {"got", "cancel", "ehlo"}, toClient # <<>>, up, ~cancelled
    PROVE  /\ toServer = <<>> /\ toClient = <<Head(toClient)>> /\ Tail(toClient) = <<>>
           /\ spc = Awaits(Head(toClient).code)
           /\ cpc = "ehlo" => Head(toClient).code # 334
<1>1. Replied
  BY DEF Inv, Lockstep, Resting, Asked
<1>2. PICK r : toClient = <<r>> /\ spc = Awaits(r.code) /\ (cpc = "ehlo" => r.code # 334)
  BY <1>1 DEF Replied
<1>3. Head(toClient) = r /\ Tail(toClient) = <<>>
  BY <1>2
<1>. QED  BY <1>1, <1>2, <1>3 DEF Replied

\* ... answering a challenge,
LEMMA HandleChallengeInv ==
    ASSUME Inv, HandleChallenge
    PROVE  Inv'
<1>1. /\ cpc = "got" /\ Head(toClient).code = 334 /\ toClient' = Tail(toClient) /\ toClient # <<>>
      /\ UNCHANGED <<config, state, serverv, up, fault, cancelled>>
  BY DEF HandleChallenge, Inv, Phases
<1>2. peer' = peer /\ spc' = spc /\ sauth' = sauth /\ commits' = commits
  BY <1>1 DEF config, serverv
<1>3. PICK m : /\ m.verb = "line" /\ toServer' = Append(toServer, m)
               /\ \/ cpc' = "wait"
                  \/ cpc' = "cancel" /\ m.text = line("*", <<>>)
  <2>. DEFINE answer == respond(decodeSASLResponse(Head(toClient).text))
              a == [verb |-> "line", text |-> encodeSASL(answer.response)]
              b == [verb |-> "line", text |-> line("*", <<>>)]
  <2>1. \/ toServer' = Append(toServer, a) /\ cpc' = "wait"
        \/ toServer' = Append(toServer, b) /\ cpc' = "cancel"
    BY DEF HandleChallenge, Send
  <2>2. a.verb = "line" /\ b.verb = "line" /\ b.text = line("*", <<>>)
    OBVIOUS
  <2>. HIDE DEF a, b
  <2>. QED  BY <2>1, <2>2
<1>4. Sequence(toServer)' /\ Sequence(toClient)'
  BY <1>1, <1>3, AppendIs, TailIs DEF Inv
<1>5. Phases'
  BY <1>1, <1>3 DEF Inv, Phases
<1>6. Commits'
  BY <1>1, <1>2 DEF Inv, Commits
<1>7. Said235'
  <2>1. Sequence(toClient)
    BY DEF Inv
  <2>. QED  BY <1>1, <1>2, <2>1, TailIs DEF Inv, Said235
<1>8. Lockstep'
  <2>1. SUFFICES ASSUME up, ~cancelled
                 PROVE  Asked'
    BY <1>1 DEF Lockstep
  <2>2. toServer = <<>> /\ Tail(toClient) = <<>> /\ spc = "challenge"
    BY <1>1, <2>1, InHand DEF Awaits
  <2>3. toServer' = <<m>> /\ toClient' = <<>> /\ spc' = "challenge"
    BY <1>1, <1>2, <1>3, <2>2
  <2>. QED  BY <1>3, <2>3 DEF Asked
<1>9. Confirmed'
  <2>1. SUFFICES ASSUME sauth, ~fault, ~cancelled
                 PROVE  FALSE
    BY <1>1, <1>2 DEF Confirmed
  <2>2. PICK r : toClient = <<r>> /\ r.code = 235
    BY <1>1, <2>1 DEF Inv, Confirmed
  <2>. QED  BY <1>1, <2>2
<1>. QED  BY <1>4, <1>5, <1>6, <1>7, <1>8, <1>9 DEF Inv

\* ... taking the final reply,
LEMMA HandleFinalInv ==
    ASSUME Inv, HandleFinal
    PROVE  Inv'
<1>1. /\ cpc = "got" /\ Head(toClient).code # 334 /\ toClient' = Tail(toClient) /\ toClient # <<>>
      /\ UNCHANGED <<config, serverv, fault, cancelled>>
  BY DEF HandleFinal, Inv, Phases
<1>2. peer' = peer /\ spc' = spc /\ sauth' = sauth /\ commits' = commits
  BY <1>1 DEF config, serverv
<1>3. /\ Sequence(toClient') /\ Sequence(toClient) /\ Sequence(toServer)
      /\ Head(toClient) = toClient[1] /\ 1 \in 1..Len(toClient)
      /\ \A i \in 1..Len(toClient') : \E j \in 1..Len(toClient) : toClient'[i] = toClient[j]
  BY <1>1, TailIs DEF Inv
<1>4. Commits'
  BY <1>1, <1>2 DEF Inv, Commits
<1>5. sauth /\ ~fault /\ ~cancelled => up /\ Head(toClient).code = 235 /\ Tail(toClient) = <<>>
  <2>1. SUFFICES ASSUME sauth, ~fault, ~cancelled
                 PROVE  up /\ Head(toClient).code = 235 /\ Tail(toClient) = <<>>
    OBVIOUS
  <2>2. up /\ \E r : toClient = <<r>> /\ r.code = 235
    BY <1>1, <2>1 DEF Inv, Confirmed
  <2>3. PICK r : toClient = <<r>> /\ r.code = 235
    BY <2>2
  <2>. QED  BY <2>2, <2>3
<1>6. CASE Head(toClient).code = 235
  <2>. DEFINE m == [verb |-> "EHLO"]
  <2>1. state' = "authenticated" /\ toServer' = Append(toServer, m) /\ cpc' = "ehlo" /\ up' = up
    BY <1>6 DEF HandleFinal, Send
  <2>2. m.verb = "EHLO"
    OBVIOUS
  <2>. HIDE DEF m
  <2>3. Sequence(toServer')
    BY <1>3, <2>1, AppendIs
  <2>4. Phases'
    BY <1>1, <2>1 DEF Inv, Phases
  <2>5. Said235'
    BY <1>2, <1>3, <1>6 DEF Inv, Said235
  <2>6. Lockstep'
    <3>1. SUFFICES ASSUME up, ~cancelled
                   PROVE  Asked'
      BY <1>1, <2>1 DEF Lockstep
    <3>2. toServer = <<>> /\ Tail(toClient) = <<>> /\ spc = "loop"
      BY <1>1, <3>1, InHand DEF Awaits
    <3>3. toServer' = <<m>> /\ toClient' = <<>> /\ spc' = "loop"
      BY <1>1, <1>2, <2>1, <3>2
    <3>. QED  BY <2>1, <2>2, <3>3 DEF Asked
  <2>7. Confirmed'
    <3>1. SUFFICES ASSUME sauth, ~fault, ~cancelled
                   PROVE  up /\ \A i \in 1..Len(toClient') : toClient'[i].code = 250
      BY <1>1, <1>2, <2>1 DEF Confirmed
    <3>2. up /\ Len(toClient') = 0
      BY Zenon, <1>1, <1>5, <3>1, EmptyIs
    <3>. QED  BY <3>2
  <2>. QED  BY <1>3, <1>4, <2>3, <2>4, <2>5, <2>6, <2>7 DEF Inv
<1>7. CASE Head(toClient).code = 421
  <2>1. cpc' = "idle" /\ state' = "closed" /\ up' = FALSE /\ toServer' = toServer
    BY <1>7 DEF HandleFinal, Return, poison
  <2>2. sauth => fault \/ cancelled
    BY <1>5, <1>7
  <2>3. cancelled' \in BOOLEAN
    BY <1>1 DEF Inv, Phases
  <2>. QED  BY Zenon, <1>1, <1>2, <1>3, <2>1, <2>2, <2>3, PoisonInv
<1>8. CASE Head(toClient).code \notin {235, 421}
  <2>1. cpc' = "idle" /\ UNCHANGED <<state, up, toServer>>
    BY <1>8 DEF HandleFinal, Return
  <2>2. Sequence(toServer')
    BY <1>3, <2>1
  <2>3. Phases'
    BY <1>1, <2>1 DEF Inv, Phases
  <2>4. Said235'
    BY <1>2, <1>3, <2>1 DEF Inv, Said235
  <2>5. Lockstep'
    <3>1. SUFFICES ASSUME up, ~cancelled
                   PROVE  Resting'
      BY <1>1, <2>1 DEF Lockstep
    <3>2. toServer = <<>> /\ Tail(toClient) = <<>> /\ spc = "loop"
      BY <1>1, <3>1, InHand DEF Awaits
    <3>. QED  BY <1>1, <1>2, <2>1, <3>2 DEF Resting
  <2>6. Confirmed'
    BY <1>1, <1>2, <1>5, <1>8 DEF Confirmed
  <2>. QED  BY <1>3, <1>4, <2>2, <2>3, <2>4, <2>5, <2>6 DEF Inv
<1>. QED  BY <1>6, <1>7, <1>8

\* ... the reply after a cancelled exchange,
LEMMA HandleCancelledInv ==
    ASSUME Inv, HandleCancelled
    PROVE  Inv'
<1>1. /\ cpc = "cancel" /\ cpc' = "idle" /\ toClient' = Tail(toClient) /\ toClient # <<>>
      /\ UNCHANGED <<config, serverv, toServer, fault, cancelled>>
  BY DEF HandleCancelled, Return
<1>2. peer' = peer /\ spc' = spc /\ sauth' = sauth /\ commits' = commits
  BY <1>1 DEF config, serverv
<1>3. /\ Sequence(toClient') /\ Sequence(toServer')
      /\ \A i \in 1..Len(toClient') : \E j \in 1..Len(toClient) : toClient'[i] = toClient[j]
  BY <1>1, TailIs DEF Inv
<1>4. Commits'
  BY <1>1, <1>2 DEF Inv, Commits
<1>5. sauth => fault \/ cancelled
  BY <1>1 DEF Inv, Confirmed
<1>6. CASE Head(toClient).code # 501
  <2>1. state' = "closed" /\ up' = FALSE
    BY <1>6 DEF HandleCancelled, poison
  <2>2. cancelled' \in BOOLEAN
    BY <1>1 DEF Inv, Phases
  <2>. QED  BY Zenon, <1>1, <1>2, <1>3, <1>5, <2>1, <2>2, PoisonInv
<1>7. CASE Head(toClient).code = 501
  <2>1. UNCHANGED <<state, up>>
    BY <1>7 DEF HandleCancelled
  <2>2. Phases'
    BY <1>1, <2>1 DEF Inv, Phases
  <2>3. Said235'
    BY <1>2, <1>3, <2>1 DEF Inv, Said235
  <2>4. Lockstep'
    <3>1. SUFFICES ASSUME up, ~cancelled
                   PROVE  Resting'
      BY <1>1, <2>1 DEF Lockstep
    <3>2. toServer = <<>> /\ Tail(toClient) = <<>> /\ spc = "loop"
      BY <1>1, <1>7, <3>1, InHand DEF Awaits
    <3>. QED  BY <1>1, <1>2, <3>2 DEF Resting
  <2>5. Confirmed'
    BY <1>1, <1>2, <1>5 DEF Confirmed
  <2>. QED  BY <1>3, <1>4, <2>2, <2>3, <2>4, <2>5 DEF Inv
<1>. QED  BY <1>6, <1>7

\* ... and the reply to the EHLO that follows.
LEMMA HandleEHLOInv ==
    ASSUME Inv, HandleEHLO
    PROVE  Inv'
<1>1. /\ cpc = "ehlo" /\ cpc' = "idle" /\ toClient' = Tail(toClient) /\ toClient # <<>>
      /\ UNCHANGED <<config, serverv, toServer, fault, cancelled>>
  BY DEF HandleEHLO, Return
<1>2. peer' = peer /\ spc' = spc /\ sauth' = sauth /\ commits' = commits
  BY <1>1 DEF config, serverv
<1>3. /\ Sequence(toClient') /\ Sequence(toServer')
      /\ Head(toClient) = toClient[1] /\ 1 \in 1..Len(toClient)
      /\ \A i \in 1..Len(toClient') : \E j \in 1..Len(toClient) : toClient'[i] = toClient[j]
  BY <1>1, TailIs DEF Inv
<1>4. Commits'
  BY <1>1, <1>2 DEF Inv, Commits
<1>5. sauth /\ ~fault /\ ~cancelled =>
          /\ up /\ state = "authenticated"
          /\ \A i \in 1..Len(toClient) : toClient[i].code = 250
  BY <1>1 DEF Inv, Confirmed
<1>6. CASE Head(toClient).code = 421
  <2>1. state' = "closed" /\ up' = FALSE
    BY <1>6 DEF HandleEHLO, poison
  <2>2. cancelled' \in BOOLEAN
    BY <1>1 DEF Inv, Phases
  <2>3. sauth => fault \/ cancelled
    BY <1>3, <1>5, <1>6
  <2>. QED  BY Zenon, <1>1, <1>2, <1>3, <2>1, <2>2, <2>3, PoisonInv
<1>7. CASE Head(toClient).code # 421
  <2>1. UNCHANGED <<state, up>>
    BY <1>7 DEF HandleEHLO
  <2>2. Phases'
    BY <1>1, <2>1 DEF Inv, Phases
  <2>3. Said235'
    BY <1>2, <1>3, <2>1 DEF Inv, Said235
  <2>4. Lockstep'
    <3>1. SUFFICES ASSUME up, ~cancelled
                   PROVE  Resting'
      BY <1>1, <2>1 DEF Lockstep
    <3>2. toServer = <<>> /\ Tail(toClient) = <<>> /\ spc = "loop"
      BY <1>1, <3>1, InHand DEF Awaits
    <3>. QED  BY <1>1, <1>2, <3>2 DEF Resting
  <2>5. Confirmed'
    BY <1>1, <1>2, <1>3, <1>5, <2>1 DEF Confirmed
  <2>. QED  BY <1>3, <1>4, <2>2, <2>3, <2>4, <2>5 DEF Inv
<1>. QED  BY <1>6, <1>7

\* The end of the call's context keeps it,
LEMMA CancelInv ==
    ASSUME Inv, Cancel
    PROVE  Inv'
<1>1. /\ cpc' = "idle" /\ cancelled' = TRUE
      /\ UNCHANGED <<config, serverv, toServer, toClient, fault>>
      /\ \/ state' = "closed" /\ up' = FALSE
         \/ UNCHANGED <<state, up>>
  BY DEF Cancel, Return, poison
<1>2. peer' = peer /\ spc' = spc /\ sauth' = sauth /\ commits' = commits
  BY <1>1 DEF config, serverv
<1>3. Sequence(toServer)' /\ Sequence(toClient)'
  BY <1>1 DEF Inv
<1>4. Phases'
  <2>1. CASE state' = "closed" /\ up' = FALSE
    BY Zenon, <1>1, <2>1 DEF Inv, Phases
  <2>2. CASE state' = state /\ up' = up
    BY <1>1, <2>2 DEF Inv, Phases
  <2>. QED  BY Zenon, <1>1, <2>1, <2>2
<1>5. Commits'
  BY <1>1, <1>2 DEF Inv, Commits
<1>6. Said235'
  BY <1>1, <1>2 DEF Inv, Said235
<1>7. Lockstep' /\ Confirmed'
  BY <1>1 DEF Lockstep, Confirmed
<1>. QED  BY <1>3, <1>4, <1>5, <1>6, <1>7 DEF Inv

(***************************************************************************)
(* ... then the server and the network.                                    *)
(***************************************************************************)
\* The connection is given up by the server's end or the network.
LEMMA DownInv ==
    ASSUME Inv, up' = FALSE, spc' \in {spc, "closed"}, toClient' = toClient, Sequence(toServer'),
           UNCHANGED <<cpc, state, sauth, commits, cancelled, peer>>, fault' \in BOOLEAN,
           sauth => fault' \/ cancelled
    PROVE  Inv'
<1>1. Sequence(toClient')
  BY DEF Inv
<1>2. Phases'
  BY Zenon DEF Inv, Phases
<1>3. Commits'
  BY DEF Inv, Commits
<1>4. Said235'
  BY DEF Inv, Said235
<1>5. Lockstep' /\ Confirmed'
  BY DEF Lockstep, Confirmed
<1>. QED  BY <1>1, <1>2, <1>3, <1>4, <1>5 DEF Inv

\* ... the loss of the connection,
LEMMA LoseInv ==
    ASSUME Inv, Lose
    PROVE  Inv'
<1>1. up' = FALSE /\ fault' = TRUE /\ UNCHANGED <<config, clientv, serverv, toServer, toClient, cancelled>>
  BY DEF Lose
<1>2. /\ peer' = peer /\ spc' = spc /\ sauth' = sauth /\ commits' = commits
      /\ cpc' = cpc /\ state' = state /\ Sequence(toServer')
  BY <1>1 DEF config, serverv, clientv, Inv
<1>. QED  BY Zenon, <1>1, <1>2, DownInv

\* ... the server's end of the session.
LEMMA ServerGivesUpInv ==
    ASSUME Inv, ServerGivesUp
    PROVE  Inv'
<1>1. /\ up' = FALSE /\ spc' = "closed" /\ fault' = TRUE
      /\ UNCHANGED <<config, clientv, sauth, commits, toServer, toClient, cancelled>>
  BY DEF ServerGivesUp
<1>2. /\ peer' = peer /\ cpc' = cpc /\ state' = state /\ Sequence(toServer')
  BY <1>1 DEF config, clientv, Inv
<1>. QED  BY Zenon, <1>1, <1>2, DownInv

\* The library's server answers a line of an exchange.
LEMMA AnswerInv ==
    ASSUME Inv, peer = "library", up, toServer # <<>>, toServer' = Tail(toServer), Outcome,
           UNCHANGED <<cpc, state, cancelled, peer>>, fault' \in BOOLEAN, fault => fault',
           sauth => sauth' = sauth /\ commits' = commits /\ spc' # "challenge",
           sauth => fault \/ cancelled,
           ~cancelled => cpc \in {"wait", "cancel"},
           ~cancelled /\ cpc = "cancel" => sauth' = sauth
    PROVE  Inv'
<1>1. Sequence(toServer') /\ Sequence(toClient)
  BY TailIs DEF Inv
<1>2. CASE /\ up' = FALSE /\ spc' = "closed" /\ toClient' = toClient
           /\ sauth' = sauth /\ commits' = commits
  BY Zenon, <1>1, <1>2, DownInv
<1>3. ASSUME NEW r, up' = up, toClient' = Append(toClient, r), spc' = Awaits(r.code),
             \/ r.code = 235 /\ sauth' = TRUE /\ commits' = commits + 1
             \/ r.code # 235 /\ sauth' = sauth /\ commits' = commits
      PROVE  Inv'
  <2>1. /\ Sequence(toClient')
        /\ Len(toClient) \in Nat /\ Len(toClient') = Len(toClient) + 1
        /\ \A i \in 1..Len(toClient) : toClient'[i] = toClient[i]
        /\ toClient'[Len(toClient) + 1] = r
    BY <1>1, <1>3, AppendIs
  <2>2. Phases'
    <3>1. toClient' # <<>>
      BY <2>1, EmptyIs
    <3>. QED  BY <1>3, <3>1 DEF Inv, Phases
  <2>3. Commits'
    <3>1. CASE sauth
      BY <3>1 DEF Inv, Commits
    <3>2. CASE ~sauth
      <4>1. sauth = FALSE /\ commits = 0
        BY <3>2 DEF Inv, Commits
      <4>2. CASE r.code = 235 /\ sauth' = TRUE /\ commits' = commits + 1
        BY <1>3, <4>1, <4>2 DEF Commits, Awaits
      <4>3. CASE sauth' = sauth /\ commits' = commits
        BY Zenon, <4>1, <4>3 DEF Commits
      <4>. QED  BY Zenon, <1>3, <4>2, <4>3
    <3>. QED  BY <3>1, <3>2
  <2>4. Said235'
    <3>1. sauth => sauth'
      BY <1>3
    <3>2. state = "authenticated" => sauth
      BY DEF Inv, Said235
    <3>3. ASSUME NEW i \in 1..Len(toClient'), toClient'[i].code = 235
          PROVE  sauth'
      <4>1. CASE i = Len(toClient) + 1
        BY <1>3, <2>1, <3>3, <4>1
      <4>2. CASE i # Len(toClient) + 1
        <5>1. i \in 1..Len(toClient)
          BY <2>1, <4>2
        <5>. QED  BY <2>1, <3>1, <3>3, <5>1 DEF Inv, Said235
      <4>. QED  BY <4>1, <4>2
    <3>. QED  BY <3>1, <3>2, <3>3 DEF Said235
  <2>5. up /\ ~cancelled => toServer' = <<>> /\ toClient' = <<r>>
    <3>1. SUFFICES ASSUME up, ~cancelled
                   PROVE  toServer' = <<>> /\ toClient' = <<r>>
      OBVIOUS
    <3>2. Asked
      BY <3>1 DEF Inv, Lockstep, Resting, Replied
    <3>3. PICK m : toServer = <<m>>
      BY <3>2 DEF Asked
    <3>4. toClient = <<>>
      BY <3>2 DEF Asked
    <3>. QED  BY <1>3, <3>3, <3>4
  <2>6. Lockstep'
    <3>1. SUFFICES ASSUME up, ~cancelled
                   PROVE  Replied'
      BY <1>3 DEF Lockstep
    <3>. QED  BY <1>3, <2>5, <3>1 DEF Replied
  <2>7. Confirmed'
    <3>1. SUFFICES ASSUME sauth', ~fault', ~cancelled
                   PROVE  up' /\ cpc' \in {"wait", "got"} /\ \E q : toClient' = <<q>> /\ q.code = 235
      BY DEF Confirmed
    <3>2. ~sauth
      BY <3>1
    <3>3. r.code = 235 /\ cpc = "wait"
      BY Zenon, <1>3, <3>1, <3>2
    <3>4. toClient' = <<r>>
      BY <2>5, <3>1
    <3>. QED  BY <1>3, <3>3, <3>4
  <2>. QED  BY <1>1, <2>1, <2>2, <2>3, <2>4, <2>6, <2>7 DEF Inv
<1>. QED  BY Zenon, <1>2, <1>3 DEF Outcome

\* The server's handler of AUTH keeps it,
LEMMA handleAUTHInv ==
    ASSUME Inv, handleAUTH
    PROVE  Inv'
<1>1. /\ peer = "library" /\ up /\ spc = "loop" /\ toServer # <<>> /\ Head(toServer).verb = "AUTH"
      /\ toServer' = Tail(toServer)
      /\ UNCHANGED <<config, clientv, cancelled>>
  BY DEF handleAUTH, Received
<1>2. peer' = peer /\ cpc' = cpc /\ state' = state
  BY <1>1 DEF config, clientv
<1>3. fault \in BOOLEAN
  BY DEF Inv, Phases
<1>4. ~cancelled => cpc = "wait" /\ toClient = <<>>
  <2>1. SUFFICES ASSUME ~cancelled
                 PROVE  cpc = "wait" /\ toClient = <<>>
    OBVIOUS
  <2>2. Asked
    BY <1>1, <2>1 DEF Inv, Lockstep, Resting, Replied
  <2>3. PICK m : /\ toServer = <<m>>
                 /\ \/ cpc = "wait"
                    \/ m.verb \in {"line", "EHLO"}
    BY <2>2 DEF Asked
  <2>4. Head(toServer) = m
    BY <2>3
  <2>. QED  BY <1>1, <2>2, <2>3, <2>4 DEF Asked
<1>5. sauth => fault \/ cancelled
  BY <1>4 DEF Inv, Confirmed
<1>6. CASE sauth \/ Head(toServer).mech \notin offered
  <2>. DEFINE code == IF sauth THEN 503 ELSE 504
  <2>1. Say(code) /\ UNCHANGED <<serverv, up, fault>>
    BY Zenon, <1>6 DEF handleAUTH
  <2>2. spc' = spc /\ sauth' = sauth /\ commits' = commits
    BY <2>1 DEF serverv
  <2>3. PICK r : toClient' = Append(toClient, r) /\ r.code = code
    BY <2>1, SayIs
  <2>4. spc' = Awaits(r.code) /\ r.code # 235
    BY <1>1, <2>2, <2>3 DEF Awaits
  <2>5. Outcome
    BY <2>1, <2>2, <2>3, <2>4 DEF Outcome
  <2>. QED  BY <1>1, <1>2, <1>3, <1>4, <1>5, <2>1, <2>2, <2>5, AnswerInv
<1>7. CASE ~(sauth \/ Head(toServer).mech \notin offered)
  <2>. DEFINE m == Head(toServer)
              step == StartResponder(NewResponder(m.mech, "B"), m.initial.form # "none",
                                     decodeSASLResponse(m.initial))
  <2>1. Process(step)
    BY <1>7 DEF handleAUTH
  <2>2. step.is \in Kinds
    BY Zenon, StartIs
  <2>. HIDE DEF step
  <2>3. Outcome /\ (fault => fault') /\ fault' \in BOOLEAN
    BY <1>3, <2>1, <2>2, ProcessDoes
  <2>. QED  BY <1>1, <1>2, <1>4, <1>5, <1>7, <2>3, AnswerInv
<1>. QED  BY <1>6, <1>7

\* ... a further round of the exchange,
LEMMA RoundInv ==
    ASSUME Inv, Round
    PROVE  Inv'
<1>. DEFINE l == asResponse(Head(toServer))
            step == NextResponder(resp, decodeSASLResponse(l), keys)
<1>1. /\ peer = "library" /\ up /\ spc = "challenge" /\ toServer # <<>>
      /\ toServer' = Tail(toServer)
      /\ UNCHANGED <<config, clientv, cancelled>>
  BY DEF Round, Received
<1>2. peer' = peer /\ cpc' = cpc /\ state' = state
  BY <1>1 DEF config, clientv
<1>3. fault \in BOOLEAN /\ ~sauth
  BY <1>1 DEF Inv, Phases, Commits
<1>4. /\ ~cancelled => cpc \in {"wait", "cancel"}
      /\ ~cancelled /\ cpc = "cancel" => l = line("*", <<>>)
  <2>1. SUFFICES ASSUME ~cancelled
                 PROVE  cpc \in {"wait", "cancel"} /\ (cpc = "cancel" => l = line("*", <<>>))
    OBVIOUS
  <2>2. Asked
    BY <1>1, <2>1 DEF Inv, Lockstep, Resting, Replied
  <2>3. PICK m : /\ toServer = <<m>>
                 /\ \/ cpc = "wait"
                    \/ cpc = "cancel" /\ m.verb = "line" /\ m.text = line("*", <<>>)
    BY <1>1, <2>2 DEF Asked
  <2>4. Head(toServer) = m
    BY <2>3
  <2>. QED  BY <2>3, <2>4 DEF asResponse
<1>5. CASE decodable(l)
  <2>1. Process(step)
    BY <1>5 DEF Round
  <2>2. step.is \in Kinds
    BY NextIs
  <2>3. Outcome /\ (fault => fault') /\ fault' \in BOOLEAN
    <3>. HIDE DEF step
    <3>. QED  BY <1>3, <2>1, <2>2, ProcessDoes
  <2>4. ~cancelled /\ cpc = "cancel" => sauth' = sauth
    <3>1. SUFFICES ASSUME ~cancelled, cpc = "cancel"
                   PROVE  sauth' = sauth
      OBVIOUS
    <3>2. l = line("*", <<>>)
      BY <1>4, <3>1
    <3>3. decodeSASLResponse(l) = Star
      BY <3>2 DEF decodeSASLResponse, line
    <3>4. step = abort(resp)
      BY <3>3 DEF NextResponder
    <3>. HIDE DEF step
    <3>. QED  BY <2>1, <3>4, AbortDoes DEF NotAuthenticated
  <2>. HIDE DEF step, l
  <2>. QED  BY <1>1, <1>2, <1>3, <1>4, <2>3, <2>4, AnswerInv
<1>6. CASE ~decodable(l)
  <2>1. authExchangeError("base64") /\ UNCHANGED <<sauth, commits, fault>>
    BY <1>6 DEF Round
  <2>2. Outcome
    BY <2>1, ErrorDoes
  <2>. HIDE DEF step, l
  <2>. QED  BY <1>1, <1>2, <1>3, <1>4, <2>1, <2>2, AnswerInv
<1>. QED  BY <1>5, <1>6

\* A reply that is not the end of an exchange of the library's server.
LEMMA ReplyInv ==
    ASSUME Inv, up, toServer # <<>>, toServer' = Tail(toServer),
           NEW r, up' = up, toClient' = Append(toClient, r), spc' = Awaits(r.code),
           peer = "library" => r.code # 235,
           UNCHANGED <<cpc, state, cancelled, peer, sauth, commits, fault>>,
           sauth => r.code = 250 \/ (cancelled /\ r.code # 334),
           ~cancelled /\ cpc = "ehlo" => r.code # 334
    PROVE  Inv'
<1>1. Sequence(toServer') /\ Sequence(toClient)
  BY TailIs DEF Inv
<1>2. /\ Sequence(toClient')
      /\ Len(toClient) \in Nat /\ Len(toClient') = Len(toClient) + 1
      /\ \A i \in 1..Len(toClient) : toClient'[i] = toClient[i]
      /\ toClient'[Len(toClient) + 1] = r
  BY <1>1, AppendIs
<1>3. Phases'
  <2>1. toClient' # <<>>
    BY <1>2, EmptyIs
  <2>. QED  BY <2>1 DEF Inv, Phases
<1>4. Commits'
  BY DEF Inv, Commits, Awaits
<1>5. Said235'
  <2>1. SUFFICES ASSUME peer = "library"
                 PROVE  /\ \A i \in 1..Len(toClient') : toClient'[i].code = 235 => sauth
                        /\ state = "authenticated" => sauth
    BY DEF Said235
  <2>2. state = "authenticated" => sauth
    BY <2>1 DEF Inv, Said235
  <2>3. ASSUME NEW i \in 1..Len(toClient'), toClient'[i].code = 235
        PROVE  sauth
    <3>1. i # Len(toClient) + 1
      BY <1>2, <2>1, <2>3
    <3>2. i \in 1..Len(toClient)
      BY <1>2, <3>1
    <3>. QED  BY <1>2, <2>1, <2>3, <3>2 DEF Inv, Said235
  <2>. QED  BY <2>2, <2>3
<1>6. ~cancelled =>
          /\ toServer' = <<>> /\ toClient = <<>> /\ toClient' = <<r>>
          /\ cpc \in {"wait", "cancel", "ehlo"}
  <2>1. SUFFICES ASSUME ~cancelled
                 PROVE  /\ toServer' = <<>> /\ toClient = <<>> /\ toClient' = <<r>>
                        /\ cpc \in {"wait", "cancel", "ehlo"}
    OBVIOUS
  <2>2. Asked
    BY <2>1 DEF Inv, Lockstep, Resting, Replied
  <2>3. PICK m : toServer = <<m>>
    BY <2>2 DEF Asked
  <2>4. toClient = <<>> /\ cpc \in {"wait", "cancel", "ehlo"}
    BY <2>2 DEF Asked
  <2>. QED  BY <2>3, <2>4
<1>7. Lockstep'
  <2>1. SUFFICES ASSUME ~cancelled
                 PROVE  Replied'
    BY DEF Lockstep
  <2>. QED  BY <1>6, <2>1 DEF Replied
<1>8. Confirmed'
  <2>1. SUFFICES ASSUME sauth, ~fault, ~cancelled
                 PROVE  /\ cpc \in {"ehlo", "idle"} /\ state = "authenticated"
                        /\ \A i \in 1..Len(toClient') : toClient'[i].code = 250
    BY DEF Confirmed
  <2>2. cpc \in {"ehlo", "idle"} /\ state = "authenticated"
    BY <1>6, <2>1 DEF Inv, Confirmed
  <2>3. toClient' = <<r>> /\ r.code = 250
    BY <1>6, <2>1
  <2>. QED  BY <2>2, <2>3
<1>. QED  BY <1>1, <1>2, <1>3, <1>4, <1>5, <1>7, <1>8 DEF Inv

\* ... any other command,
LEMMA OtherCommandInv ==
    ASSUME Inv, OtherCommand
    PROVE  Inv'
<1>1. /\ peer = "library" /\ up /\ spc = "loop" /\ toServer # <<>> /\ Head(toServer).verb # "AUTH"
      /\ toServer' = Tail(toServer)
      /\ UNCHANGED <<config, clientv, sauth, commits, fault, cancelled>>
  BY DEF OtherCommand, Received
<1>2. peer' = peer /\ cpc' = cpc /\ state' = state
  BY <1>1 DEF config, clientv
<1>3. ~cancelled => Head(toServer).verb = "EHLO"
  <2>1. SUFFICES ASSUME ~cancelled
                 PROVE  Head(toServer).verb = "EHLO"
    OBVIOUS
  <2>2. Asked
    BY <1>1, <2>1 DEF Inv, Lockstep, Resting, Replied
  <2>3. PICK m : toServer = <<m>> /\ m.verb \in {"AUTH", "EHLO"}
    BY <1>1, <2>2 DEF Asked
  <2>. QED  BY <1>1, <2>3
<1>4. ASSUME NEW code, Say(code), UNCHANGED <<spc, up>>, code \in {250, 500}, code = 500 => cancelled
      PROVE  Inv'
  <2>1. PICK r : toClient' = Append(toClient, r) /\ r.code = code
    BY <1>4, SayIs
  <2>2. r.code # 235 /\ r.code # 334 /\ spc' = Awaits(r.code)
    BY <1>1, <1>4, <2>1 DEF Awaits
  <2>3. sauth => r.code = 250 \/ (cancelled /\ r.code # 334)
    BY <1>4, <2>1
  <2>. QED  BY <1>1, <1>2, <1>4, <2>1, <2>2, <2>3, ReplyInv
<1>5. CASE Head(toServer).verb = "EHLO"
  <2>1. Say(250) /\ UNCHANGED <<spc, up>>
    BY <1>5 DEF OtherCommand
  <2>. QED  BY <1>4, <2>1
<1>6. CASE Head(toServer).verb # "EHLO"
  <2>1. cancelled
    BY <1>3, <1>6 DEF Inv, Phases
  <2>2. \/ Say(500) /\ UNCHANGED <<spc, up>>
        \/ spc' = "closed" /\ up' = FALSE /\ UNCHANGED toClient
    BY Zenon, <1>6 DEF OtherCommand
  <2>3. CASE Say(500) /\ UNCHANGED <<spc, up>>
    BY <1>4, <2>1, <2>3
  <2>4. CASE spc' = "closed" /\ up' = FALSE /\ UNCHANGED toClient
    <3>1. Sequence(toServer') /\ fault' \in BOOLEAN
      BY <1>1, TailIs DEF Inv, Phases
    <3>. QED  BY Zenon, <1>1, <1>2, <2>1, <2>4, <3>1, DownInv
  <2>. QED  BY Zenon, <2>2, <2>3, <2>4
<1>. QED  BY <1>5, <1>6

\* ... and a reply of another server.
LEMMA ForeignReplyInv ==
    ASSUME Inv, ForeignReply
    PROVE  Inv'
<1>1. /\ peer = "foreign" /\ up /\ toServer # <<>> /\ toServer' = Tail(toServer)
      /\ UNCHANGED <<config, clientv, sauth, commits, up, fault, cancelled>>
  BY Zenon DEF ForeignReply, Received
<1>2. peer' = peer /\ cpc' = cpc /\ state' = state /\ ~sauth
  BY <1>1 DEF config, clientv, Inv, Commits
<1>3. PICK r : /\ toClient' = Append(toClient, r)
               /\ spc' = Awaits(r.code)
               /\ Head(toServer).verb = "EHLO" => r.code # 334
  <2>1. PICK code \in {235, 250, 334, 421, 501, 535}, l \in ForeignTexts :
            /\ code # 334 => l.form = ""
            /\ Head(toServer).verb = "EHLO" => code \in {250, 421, 501}
            /\ toClient' = Append(toClient, [code |-> code, text |-> l])
            /\ spc' = IF code = 334 THEN "challenge" ELSE "loop"
    BY Zenon DEF ForeignReply
  <2>. DEFINE q == [code |-> code, text |-> l]
  <2>2. toClient' = Append(toClient, q)
    BY <2>1, Zenon
  <2>3. q.code = code
    OBVIOUS
  <2>. HIDE DEF q
  <2>4. spc' = Awaits(q.code)
    BY <2>1, <2>3, Zenon DEF Awaits
  <2>5. Head(toServer).verb = "EHLO" => code \in {250, 421, 501}
    BY <2>1, Zenon
  <2>. QED  BY <2>2, <2>3, <2>4, <2>5
<1>4. ~cancelled /\ cpc = "ehlo" => r.code # 334
  <2>1. SUFFICES ASSUME ~cancelled, cpc = "ehlo"
                 PROVE  r.code # 334
    OBVIOUS
  <2>2. Asked
    BY <1>1, <2>1 DEF Inv, Lockstep, Resting, Replied
  <2>3. PICK m : toServer = <<m>> /\ m.verb = "EHLO"
    BY <2>1, <2>2 DEF Asked
  <2>. QED  BY <1>3, <2>3
<1>. QED  BY <1>1, <1>2, <1>3, <1>4, ReplyInv

\* Every step keeps the invariant.
LEMMA InvNext ==
    ASSUME Inv, [Next]_vars
    PROVE  Inv'
<1>1. CASE UNCHANGED vars
  <2>1. UNCHANGED <<cpc, state, spc, sauth, commits, toServer, toClient, up, fault, cancelled, peer>>
    BY <1>1 DEF vars, config, clientv, serverv
  <2>. QED  BY <2>1, SameInv
<1>2. CASE Auth
  BY <1>2, AuthInv
<1>3. CASE ClientStep
  BY <1>3, ReadReplyInv, ReadFailsInv, HandleChallengeInv, HandleFinalInv, HandleCancelledInv,
     HandleEHLOInv DEF ClientStep
<1>4. CASE ServerStep
  BY <1>4, handleAUTHInv, RoundInv, OtherCommandInv, ForeignReplyInv DEF ServerStep
<1>5. CASE Cancel
  BY <1>5, CancelInv
<1>6. CASE ServerGivesUp
  BY <1>6, ServerGivesUpInv
<1>7. CASE Lose
  BY <1>7, LoseInv
<1>. QED  BY <1>1, <1>2, <1>3, <1>4, <1>5, <1>6, <1>7 DEF Next

\* The invariant implies the agreement of the ends.
LEMMA EndsAgreeFromInv ==
    ASSUME Inv
    PROVE  EndsAgree
<1>1. ASSUME peer = "library"
      PROVE  /\ state = "authenticated" => sauth
             /\ sauth /\ cpc = "idle" /\ ~fault /\ ~cancelled => state = "authenticated"
  BY <1>1 DEF Inv, Said235, Confirmed
<1>2. ASSUME cpc = "idle", up, ~cancelled
      PROVE  spc = "loop" /\ toServer = <<>> /\ toClient = <<>>
  BY <1>2 DEF Inv, Lockstep, Resting, Asked, Replied
<1>. QED  BY <1>1, <1>2 DEF EndsAgree

(***************************************************************************)
(* In every state of an exchange the two ends are in step, and 235 was     *)
(* said by a server that has committed (auth.go:91-181, cmd_auth.go).      *)
(***************************************************************************)
THEOREM InvHolds == Spec => []Inv
<1>1. Init => Inv
  BY InvInit
<1>2. Inv /\ [Next]_vars => Inv'
  BY InvNext
<1>. QED  BY <1>1, <1>2, PTL DEF Spec

(***************************************************************************)
(* The two ends agree, whatever the mechanism, the credentials and the     *)
(* other end do: a client that took 235 speaks to an authenticated         *)
(* session, and a call that has returned leaves no exchange half done on a *)
(* connection that is kept (auth.go:144-181, cmd_auth.go).                 *)
(***************************************************************************)
THEOREM EndsAgreeHolds == Spec => []EndsAgree
<1>1. Inv => EndsAgree
  BY EndsAgreeFromInv
<1>. QED  BY <1>1, InvHolds, PTL

(***************************************************************************)
(* What a session was authenticated for.                                   *)
(***************************************************************************)
Responder(r) == {"m", "state"} \subseteq DOMAIN r

\* payload ends in the proof that keyset calls for, over what was exchanged
\* before and what precedes it in payload.
Proven(r, payload, keyset) ==
    \E i : From(payload, i + 3) =
               <<clientProof(keyset.password, keyset.salt, keyset.iterations,
                             r.first \o <<",">> \o r.serverFirst \o <<",">> \o SubSeq(payload, 1, i - 1))>>

\* What the step of responder r on payload can be.  By itself it says yes in
\* one state only, and only the right proof leads there.
Sane(step, r, payload, keyset) ==
    /\ Responder(step.r) /\ step.r.m = r.m
    /\ \/ step.is = "challenge" /\ step.r.state \notin {"SCRAMProof", "SCRAMEmpty"}
       \/ /\ step.is = "challenge" /\ step.r.state = "SCRAMEmpty"
          /\ r.state = "SCRAMProof" /\ Proven(r, payload, keyset)
       \/ step.is = "error" /\ step.r.state \in {r.state, "done"}
       \/ step.is = "done" /\ step.r.state = "done" /\ (step.accepted => r.state = "SCRAMEmpty")
       \/ step.is = "verify" /\ step.r.state = "verify" /\ step.kind \in {"credentials", "scram-keys"}
       \/ /\ step.is = "verify" /\ step.r.state = "verify"
          /\ step.kind = "challenge-response" /\ step.response = payload /\ r.state = "CRAM"

\* The fields of a responder after an assignment.
LEMMA EditIs ==
    ASSUME NEW r, Responder(r), NEW v
    PROVE  /\ Responder([r EXCEPT !.state = v]) /\ [r EXCEPT !.state = v].m = r.m
           /\ [r EXCEPT !.state = v].state = v
           /\ Responder([r EXCEPT !.username = v]) /\ [r EXCEPT !.username = v].m = r.m
           /\ Responder([r EXCEPT !.gs2 = v]) /\ [r EXCEPT !.gs2 = v].m = r.m
           /\ Responder([r EXCEPT !.first = v]) /\ [r EXCEPT !.first = v].m = r.m
           /\ Responder([r EXCEPT !.nonce = v]) /\ [r EXCEPT !.nonce = v].m = r.m
           /\ Responder([r EXCEPT !.serverFirst = v]) /\ [r EXCEPT !.serverFirst = v].m = r.m
BY DEF Responder

\* The fields of a step that challenges,
LEMMA ChallengeMakes ==
    ASSUME NEW r, Responder(r), NEW a, NEW b
    PROVE  LET step == challengeStep(r, a, b)
           IN  /\ Responder(step.r) /\ step.r.m = r.m
               /\ step.r.state = a /\ step.is = "challenge"
<1>. DEFINE q == [r EXCEPT !.state = a]
<1>1. Responder(q) /\ q.m = r.m /\ q.state = a
  BY Zenon, EditIs
<1>2. challengeStep(r, a, b) = [r |-> q, is |-> "challenge", octets |-> b]
  BY DEF challengeStep
<1>. HIDE DEF q
<1>. QED  BY <1>1, <1>2

\* ... of one that asks the backend,
LEMMA VerifyMakes ==
    ASSUME NEW r, Responder(r), NEW a, NEW b, NEW c
    PROVE  LET step == verify(r, a, b, c)
           IN  /\ Responder(step.r) /\ step.r.m = r.m /\ step.r.state = "verify" /\ step.is = "verify"
               /\ step.kind = a /\ step.credentials = b /\ step.response = c
<1>. DEFINE q == [r EXCEPT !.state = "verify"]
<1>1. Responder(q) /\ q.m = r.m /\ q.state = "verify"
  BY Zenon, EditIs
<1>2. verify(r, a, b, c) = [r |-> q, is |-> "verify", kind |-> a, credentials |-> b, response |-> c]
  BY DEF verify
<1>. HIDE DEF q
<1>. QED  BY <1>1, <1>2

\* ... of one that ends the exchange,
LEMMA FinishMakes ==
    ASSUME NEW r, Responder(r), NEW a
    PROVE  LET step == finish(r, a)
           IN  /\ Responder(step.r) /\ step.r.m = r.m /\ step.r.state = "done" /\ step.is = "done"
               /\ step.accepted = a
<1>. DEFINE q == [r EXCEPT !.state = "done"]
<1>1. Responder(q) /\ q.m = r.m /\ q.state = "done"
  BY Zenon, EditIs
<1>2. finish(r, a) = [r |-> q, is |-> "done", accepted |-> a]
  BY DEF finish
<1>. HIDE DEF q
<1>. QED  BY <1>1, <1>2

\* ... and of one that fails.
LEMMA FailureMakes ==
    ASSUME NEW r, Responder(r), NEW a
    PROVE  /\ failure(r, a).r = r /\ payloadError(r).r = r
           /\ failure(r, a).is = "error" /\ payloadError(r).is = "error" /\ abort(r).is = "error"
           /\ Responder(abort(r).r) /\ abort(r).r.m = r.m /\ abort(r).r.state = "done"
<1>. DEFINE q == [r EXCEPT !.state = "done"]
<1>1. Responder(q) /\ q.m = r.m /\ q.state = "done"
  BY Zenon, EditIs
<1>2. /\ failure(r, a) = [r |-> r, is |-> "error", why |-> a]
      /\ payloadError(r) = [r |-> r, is |-> "error", why |-> "payload"]
      /\ abort(r) = [r |-> q, is |-> "error", why |-> "aborted"]
  BY DEF failure, payloadError, abort
<1>. HIDE DEF q
<1>. QED  BY <1>1, <1>2

\* The ways a responder answers, each of them sane.
LEMMA SaneSteps ==
    ASSUME NEW r, Responder(r), NEW q, Responder(q), q.m = r.m, NEW payload, NEW keyset,
           NEW a, NEW b, NEW c
    PROVE  /\ a \notin {"SCRAMProof", "SCRAMEmpty"} => Sane(challengeStep(q, a, b), r, payload, keyset)
           /\ a \in {"credentials", "scram-keys"} => Sane(verify(q, a, b, c), r, payload, keyset)
           /\ Sane(finish(r, FALSE), r, payload, keyset)
           /\ Sane(failure(r, a), r, payload, keyset)
           /\ Sane(payloadError(r), r, payload, keyset)
           /\ Sane(abort(r), r, payload, keyset)
<1>1. a \notin {"SCRAMProof", "SCRAMEmpty"} => Sane(challengeStep(q, a, b), r, payload, keyset)
  <2>. DEFINE step == challengeStep(q, a, b)
  <2>1. Responder(step.r) /\ step.r.m = q.m /\ step.r.state = a /\ step.is = "challenge"
    BY ChallengeMakes
  <2>. HIDE DEF step
  <2>. QED  BY <2>1 DEF Sane, step
<1>2. a \in {"credentials", "scram-keys"} => Sane(verify(q, a, b, c), r, payload, keyset)
  <2>. DEFINE step == verify(q, a, b, c)
  <2>1. Responder(step.r) /\ step.r.m = q.m /\ step.r.state = "verify" /\ step.kind = a /\ step.is = "verify"
    BY VerifyMakes
  <2>. HIDE DEF step
  <2>. QED  BY <2>1 DEF Sane, step
<1>3. Sane(finish(r, FALSE), r, payload, keyset)
  <2>. DEFINE step == finish(r, FALSE)
  <2>1. Responder(step.r) /\ step.r.m = r.m /\ step.r.state = "done" /\ step.accepted = FALSE /\ step.is = "done"
    BY FinishMakes, Zenon
  <2>. HIDE DEF step
  <2>. QED  BY Zenon, <2>1 DEF Sane, step
<1>4. /\ Sane(failure(r, a), r, payload, keyset)
      /\ Sane(payloadError(r), r, payload, keyset)
      /\ Sane(abort(r), r, payload, keyset)
  <2>. DEFINE f == failure(r, a)
              p == payloadError(r)
              o == abort(r)
  <2>1. /\ f.r = r /\ f.is = "error" /\ p.r = r /\ p.is = "error"
        /\ Responder(o.r) /\ o.r.m = r.m /\ o.r.state = "done" /\ o.is = "error"
    BY FailureMakes
  <2>. HIDE DEF f, p, o
  <2>. QED  BY Zenon, <2>1 DEF Sane, f, p, o
<1>. QED  BY Zenon, <1>1, <1>2, <1>3, <1>4

\* The parsers of the mechanisms make sane steps,
LEMMA SaneParsers ==
    ASSUME NEW r, Responder(r), NEW payload, NEW keyset
    PROVE  /\ Sane(plain(r, payload), r, payload, keyset)
           /\ Sane(external(r, payload), r, payload, keyset)
           /\ Sane(oauth(r, payload), r, payload, keyset)
           /\ Sane(scramFirst(r, payload), r, payload, keyset)
<1>1. \A b, c : Sane(verify(r, "credentials", b, c), r, payload, keyset)
  BY Zenon, SaneSteps
<1>2. Sane(payloadError(r), r, payload, keyset)
  BY Zenon, SaneSteps
<1>3. Sane(plain(r, payload), r, payload, keyset)
  BY <1>1, <1>2, Zenon DEF plain
<1>4. Sane(external(r, payload), r, payload, keyset)
  BY <1>1, Zenon DEF external
<1>5. Sane(parseOAuthBearer(r, payload), r, payload, keyset)
  BY <1>1, <1>2, Zenon DEF parseOAuthBearer
<1>6. Sane(parseXOAuth2(r, payload), r, payload, keyset)
  BY <1>1, <1>2, Zenon DEF parseXOAuth2
<1>7. Sane(scramFirst(r, payload), r, payload, keyset)
  <2>. DEFINE first == parseSCRAMClientFirst(payload, r.m = "SCRAM-PLUS")
              fields == parseSCRAMFields(first.bare)
              q1 == [r EXCEPT !.gs2 = first.header]
              q2 == [q1 EXCEPT !.first = first.bare]
              q3 == [q2 EXCEPT !.nonce = fields.at["r"]]
              q  == [r EXCEPT !.gs2 = first.header, !.first = first.bare, !.nonce = fields.at["r"]]
  <2>1. Responder(q3) /\ q3.m = r.m
    <3>1. Responder(q1) /\ q1.m = r.m
      BY Zenon, EditIs
    <3>. HIDE DEF q1
    <3>2. Responder(q2) /\ q2.m = q1.m
      BY Zenon, <3>1, EditIs
    <3>. HIDE DEF q2
    <3>3. Responder(q3) /\ q3.m = q2.m
      BY Zenon, <3>2, EditIs
    <3>. QED  BY <3>1, <3>2, <3>3
  <2>2. q3 = q
    OBVIOUS
  <2>3. \E b : scramFirst(r, payload) \in {verify(q, "scram-keys", b, <<>>), payloadError(r)}
    BY Zenon DEF scramFirst
  <2>. HIDE DEF q3, q
  <2>. QED  BY Zenon, <1>2, <2>1, <2>2, <2>3, SaneSteps
<1>. QED  BY <1>3, <1>4, <1>5, <1>6, <1>7 DEF oauth

\* ... and so does the check of a SCRAM proof.
LEMMA SaneProof ==
    ASSUME NEW r, Responder(r), r.state = "SCRAMProof", NEW payload, NEW keyset
    PROVE  Sane(scramProof(r, payload, keyset), r, payload, keyset)
<1>. DEFINE marks   == {i \in 1..(Len(payload) - 2) : SubSeq(payload, i, i + 2) = <<",", "p", "=">>}
            at      == CHOOSE i \in marks : \A j \in marks : j <= i
            proof   == From(payload, at + 3)
            without == SubSeq(payload, 1, at - 1)
            auth    == r.first \o <<",">> \o r.serverFirst \o <<",">> \o without
            want    == <<clientProof(keyset.password, keyset.salt, keyset.iterations, auth)>>
            mark    == <<"v", "=", serverSignature(keyset.password, keyset.salt, keyset.iterations, auth)>>
<1>1. \/ scramProof(r, payload, keyset) \in {payloadError(r), finish(r, FALSE)}
      \/ proof = want /\ scramProof(r, payload, keyset) = challengeStep(r, "SCRAMEmpty", mark)
  BY Zenon DEF scramProof
<1>2. Sane(payloadError(r), r, payload, keyset) /\ Sane(finish(r, FALSE), r, payload, keyset)
  BY Zenon, SaneSteps
<1>3. proof = want => Proven(r, payload, keyset)
  BY Zenon DEF Proven
<1>4. Proven(r, payload, keyset) => Sane(challengeStep(r, "SCRAMEmpty", mark), r, payload, keyset)
  <2>. HIDE DEF mark
  <2>. QED  BY ChallengeMakes DEF Sane
<1>. HIDE DEF proof, want, mark
<1>. QED  BY Zenon, <1>1, <1>2, <1>3, <1>4

\* The first step of a responder is sane,
LEMMA SaneStart ==
    ASSUME NEW r, Responder(r), NEW some \in BOOLEAN, NEW initial, NEW keyset
    PROVE  Sane(StartResponder(r, some, initial), r, initial, keyset)
<1>1. /\ Sane(plain(r, initial), r, initial, keyset) /\ Sane(external(r, initial), r, initial, keyset)
      /\ Sane(oauth(r, initial), r, initial, keyset) /\ Sane(scramFirst(r, initial), r, initial, keyset)
  BY SaneParsers
<1>2. Sane(payloadError(r), r, initial, keyset) /\ Sane(abort(r), r, initial, keyset)
  BY Zenon, SaneSteps
<1>. DEFINE q == [r EXCEPT !.username = initial]
<1>3. Responder(q) /\ q.m = r.m
  BY Zenon, EditIs
<1>4. /\ \A s, b : s \notin {"SCRAMProof", "SCRAMEmpty"} => Sane(challengeStep(r, s, b), r, initial, keyset)
      /\ \A b : Sane(challengeStep(q, "loginPassword", b), r, initial, keyset)
  <2>. HIDE DEF q
  <2>. QED  BY Zenon, <1>3, SaneSteps
<1>. HIDE DEF q
<1>. QED  BY <1>1, <1>2, <1>4 DEF StartResponder, q

\* ... and every later one.
LEMMA SaneNext ==
    ASSUME NEW r, Responder(r), NEW response, NEW keyset
    PROVE  Sane(NextResponder(r, response, keyset), r, response, keyset)
<1>1. /\ Sane(plain(r, response), r, response, keyset) /\ Sane(external(r, response), r, response, keyset)
      /\ Sane(oauth(r, response), r, response, keyset) /\ Sane(scramFirst(r, response), r, response, keyset)
  BY SaneParsers
<1>2. /\ Sane(payloadError(r), r, response, keyset) /\ Sane(abort(r), r, response, keyset)
      /\ Sane(failure(r, "other"), r, response, keyset) /\ Sane(finish(r, FALSE), r, response, keyset)
      /\ \A b, c : Sane(verify(r, "credentials", b, c), r, response, keyset)
  BY Zenon, SaneSteps
<1>. DEFINE q == [r EXCEPT !.username = response]
<1>3. Responder(q) /\ q.m = r.m
  BY Zenon, EditIs
<1>4. \A b : Sane(challengeStep(q, "loginPassword", b), r, response, keyset)
  <2>. HIDE DEF q
  <2>. QED  BY Zenon, <1>3, SaneSteps
<1>5. r.state = "CRAM" => Sane(verify(r, "challenge-response", NoCredentials, response), r, response, keyset)
  BY VerifyMakes DEF Sane
<1>6. r.state = "SCRAMProof" => Sane(scramProof(r, response, keyset), r, response, keyset)
  BY SaneProof
<1>7. r.state = "SCRAMEmpty" => Sane(finish(r, TRUE), r, response, keyset)
  <2>. DEFINE step == finish(r, TRUE)
  <2>1. Responder(step.r) /\ step.r.m = r.m /\ step.r.state = "done" /\ step.is = "done"
    BY FinishMakes, Zenon
  <2>. HIDE DEF step
  <2>. QED  BY Zenon, <2>1 DEF Sane, step
<1>. HIDE DEF q
<1>. QED  BY Zenon, <1>1, <1>2, <1>4, <1>5, <1>6, <1>7 DEF NextResponder, q

\* What Continue can make of the backend's answer.
Continued(next, r, kind, accepted) ==
    /\ Responder(next.r) /\ next.r.m = r.m
    /\ \/ /\ next.is = "done" /\ next.r.state = "done"
          /\ next.accepted => accepted /\ kind # "scram-keys"
       \/ next.is = "challenge" /\ next.r.state = "SCRAMProof" /\ kind = "scram-keys" /\ accepted
       \/ next.is = "challenge" /\ next.r.state = "OAuthDummy"
       \/ next.is = "error" /\ next.r = r

\* What a responder does with the backend's answer.
LEMMA ContinueMakes ==
    ASSUME NEW r, Responder(r), NEW kind, NEW accepted \in BOOLEAN, NEW diagnostic, NEW keyset
    PROVE  Continued(Continue(r, kind, accepted, diagnostic, keyset), r, kind, accepted)
<1>1. ASSUME NEW b \in BOOLEAN, b => accepted /\ kind # "scram-keys"
      PROVE  Continued(finish(r, b), r, kind, accepted)
  <2>. DEFINE next == finish(r, b)
  <2>1. /\ Responder(next.r) /\ next.r.m = r.m /\ next.r.state = "done" /\ next.is = "done"
        /\ next.accepted = b
    BY FinishMakes, Zenon
  <2>. HIDE DEF next
  <2>2. next.accepted => accepted /\ kind # "scram-keys"
    BY <1>1, <2>1, Zenon
  <2>3. Continued(next, r, kind, accepted)
    BY <2>1, <2>2 DEF Continued
  <2>. QED  BY <2>3 DEF next
<1>2. ASSUME kind = "scram-keys", accepted
      PROVE  Continued(scramServerFirst(r, keyset), r, kind, accepted)
  <2>. DEFINE nonce == Append(r.nonce, ServerNonce)
              text  == <<"r", "=">> \o nonce \o <<",", "s", "=">> \o keyset.salt
                         \o <<",", "i", "=">> \o keyset.iterations
              q1    == [r EXCEPT !.nonce = nonce]
              q2    == [q1 EXCEPT !.serverFirst = text]
              q     == [r EXCEPT !.nonce = nonce, !.serverFirst = text]
  <2>1. scramServerFirst(r, keyset) \in {challengeStep(q, "SCRAMProof", text), failure(r, "other")}
    BY Zenon DEF scramServerFirst
  <2>2. q2 = q
    OBVIOUS
  <2>3. Responder(q2) /\ q2.m = r.m
    <3>. HIDE DEF nonce, text
    <3>1. Responder(q1) /\ q1.m = r.m
      BY Zenon, EditIs
    <3>. HIDE DEF q1
    <3>. QED  BY Zenon, <3>1, EditIs
  <2>. HIDE DEF q2, q, text
  <2>4. Continued(challengeStep(q, "SCRAMProof", text), r, kind, accepted)
    BY <1>2, <2>2, <2>3, ChallengeMakes DEF Continued
  <2>5. Continued(failure(r, "other"), r, kind, accepted)
    BY FailureMakes DEF Continued
  <2>. QED  BY <2>1, <2>4, <2>5
<1>3. Continued(challengeStep(r, "OAuthDummy", <<"json">>), r, kind, accepted)
  BY ChallengeMakes DEF Continued
<1>4. Continued(finish(r, FALSE), r, kind, accepted)
  BY Zenon, <1>1
<1>5. kind # "scram-keys" => Continued(finish(r, accepted), r, kind, accepted)
  BY <1>1
<1>. QED  BY <1>2, <1>3, <1>4, <1>5, Zenon DEF Continue

(***************************************************************************)
(* The lookup that SCRAM starts with was agreed to, and so was whatever    *)
(* the session is authenticated for.                                       *)
(***************************************************************************)
LookedUp(r) == asked[1] = "scram-keys" /\ knows(r.m, asked[2])

BackendInv ==
    /\ Responder(resp)
    /\ keys.password = account.password
    /\ resp.state \in {"SCRAMProof", "SCRAMEmpty"} => LookedUp(resp)
    /\ sauth => \/ asked[1] = "challenge-response"
                \/ asked[1] \in {"credentials", "scram-keys"} /\ knows(resp.m, asked[2])

\* What the backend wants to hear from CRAM-MD5.
CramAnswer == account.user \o <<" ", cramDigest(account.password, <<"<nonce@host>">>)>>

\* What a step of responder r on payload may do to the session.
Decides(r, payload) ==
    /\ commits' # commits =>
           \/ asked'[1] = "credentials" /\ knows(resp.m, asked[2])'
           \/ asked'[1] = "challenge-response" /\ payload = CramAnswer /\ r.state = "CRAM"
           \/ LookedUp(resp)' /\ r.state = "SCRAMEmpty"
    /\ resp'.state = "SCRAMEmpty" =>
           \/ r.state = "SCRAMEmpty"
           \/ r.state = "SCRAMProof" /\ Proven(r, payload, keys)

\* What the backend knows does not change during an exchange.
LEMMA SameKnows ==
    ASSUME account' = account, NEW m, NEW c
    PROVE  knows(m, c)' = knows(m, c)
BY DEF knows

\* A sane step, processed, commits only what the backend agreed to.
LEMMA Decided ==
    ASSUME NEW r, Responder(r), NEW payload, NEW step, Sane(step, r, payload, keys), Process(step),
           r.state \in {"SCRAMProof", "SCRAMEmpty"} => LookedUp(r),
           BackendInv, ~sauth, sauth = FALSE, account' = account
    PROVE  BackendInv' /\ Decides(r, payload)
<1>1. Responder(step.r) /\ step.r.m = r.m
  BY DEF Sane
<1>2. CASE step.is # "verify"
  <2>1. Emit(step) /\ UNCHANGED <<asked, keys, fault>> /\ resp' = step.r
    BY Zenon, <1>2 DEF Process, Emit
  <2>2. CASE step.is = "done" /\ step.accepted
    <3>1. sauth' = TRUE /\ step.r.state = "done" /\ r.state = "SCRAMEmpty"
      BY <2>1, <2>2 DEF Emit, Sane
    <3>2. LookedUp(r)
      BY <3>1
    <3>3. LookedUp(resp)'
      BY <1>1, <2>1, <3>2, SameKnows DEF LookedUp
    <3>. QED  BY <1>1, <2>1, <3>1, <3>3 DEF BackendInv, Decides, LookedUp
  <2>3. CASE ~(step.is = "done" /\ step.accepted)
    <3>1. sauth' = sauth /\ commits' = commits
      BY Zenon, <1>2, <2>1, <2>3 DEF Emit, Sane
    <3>2. \/ step.r.state \notin {"SCRAMProof", "SCRAMEmpty"}
          \/ step.r.state = "SCRAMEmpty" /\ r.state = "SCRAMProof" /\ Proven(r, payload, keys)
          \/ step.r.state = r.state
      BY <1>2 DEF Sane
    <3>3. step.r.state \in {"SCRAMProof", "SCRAMEmpty"} => LookedUp(r)
      BY <3>2
    <3>4. LookedUp(r) => LookedUp(resp)'
      BY <1>1, <2>1, SameKnows DEF LookedUp
    <3>. QED  BY <1>1, <2>1, <3>1, <3>2, <3>3, <3>4 DEF BackendInv, Decides
  <2>. QED  BY <2>2, <2>3
<1>3. CASE step.is = "verify"
  <2>1. /\ step.r.state = "verify"
        /\ \/ step.kind \in {"credentials", "scram-keys"}
           \/ step.kind = "challenge-response" /\ step.response = payload /\ r.state = "CRAM"
    BY <1>3 DEF Sane
  <2>2. verifyAUTH(step) /\ asked' = <<step.kind, step.credentials>>
    BY <1>3 DEF Process, verifyAUTH
  <2>3. asked'[1] = step.kind /\ asked'[2] = step.credentials
    BY <2>2
  <2>4. CASE resp' = step.r /\ UNCHANGED <<keys, sauth, commits, up>>
    BY <1>1, <2>1, <2>4 DEF BackendInv, Decides
  <2>5. ASSUME NEW diagnostic \in BOOLEAN, NEW iterations \in {"0", "4096"}, keys' = storedKeys(iterations),
               Emit(Continue(step.r, step.kind, accepts(step), diagnostic, storedKeys(iterations)))
        PROVE  BackendInv' /\ Decides(r, payload)
    <3>. DEFINE next == Continue(step.r, step.kind, accepts(step), diagnostic, storedKeys(iterations))
    <3>1. accepts(step) \in BOOLEAN
      BY Zenon DEF accepts, knows
    <3>2. /\ Responder(next.r) /\ next.r.m = step.r.m
          /\ \/ /\ next.is = "done" /\ next.r.state = "done"
                /\ next.accepted => accepts(step) /\ step.kind # "scram-keys"
             \/ /\ next.is = "challenge" /\ next.r.state = "SCRAMProof"
                /\ step.kind = "scram-keys" /\ accepts(step)
             \/ next.is = "challenge" /\ next.r.state = "OAuthDummy"
             \/ next.is = "error" /\ next.r = step.r
      <4>1. Continued(next, step.r, step.kind, accepts(step))
        BY <1>1, <3>1, ContinueMakes, Zenon
      <4>. HIDE DEF next
      <4>. QED  BY <4>1 DEF Continued
    <3>3. Emit(next) /\ resp' = next.r
      BY Zenon, <2>5 DEF Emit
    <3>. HIDE DEF next
    <3>4. keys'.password = account'.password
      BY <2>5 DEF storedKeys
    <3>5. step.kind \in {"credentials", "scram-keys"} /\ accepts(step) => knows(resp.m, asked[2])'
      BY Zenon, <1>1, <2>3, <3>2, <3>3, SameKnows DEF accepts
    <3>6. step.kind = "challenge-response" /\ accepts(step) => payload = CramAnswer
      BY Zenon, <2>1 DEF accepts, CramAnswer
    <3>7. CASE next.is = "done" /\ next.accepted
      <4>1. sauth' = TRUE /\ next.r.state = "done" /\ accepts(step) /\ step.kind # "scram-keys"
        BY <3>2, <3>3, <3>7 DEF Emit
      <4>. QED  BY Zenon, <2>1, <2>3, <3>2, <3>3, <3>4, <3>5, <3>6, <4>1 DEF BackendInv, Decides
    <3>8. CASE ~(next.is = "done" /\ next.accepted)
      <4>1. sauth' = sauth /\ commits' = commits
        BY Zenon, <3>2, <3>3, <3>8 DEF Emit
      <4>2. next.r.state # "SCRAMEmpty"
        BY <2>1, <3>2
      <4>3. next.r.state = "SCRAMProof" => LookedUp(resp)'
        BY <2>1, <2>3, <3>2, <3>5 DEF LookedUp
      <4>. QED  BY Zenon, <3>2, <3>3, <3>4, <4>1, <4>2, <4>3 DEF BackendInv, Decides
    <3>. QED  BY <3>7, <3>8
  <2>. QED  BY Zenon, <2>2, <2>4, <2>5 DEF verifyAUTH
<1>. QED  BY <1>2, <1>3

\* A new responder waits for its first step.
LEMMA NewResponderIs ==
    ASSUME NEW m
    PROVE  Responder(NewResponder(m, "B")) /\ NewResponder(m, "B").state = "new"
BY DEF Responder, NewResponder

\* Nothing the backend was asked changes.
LEMMA SameBackend ==
    ASSUME BackendInv, UNCHANGED <<resp, keys, sauth, asked, commits, account>>
    PROVE  BackendInv' /\ (resp.state # "SCRAMEmpty" => resp'.state # "SCRAMEmpty") /\ commits' = commits
<1>1. knows(resp.m, asked[2])' = knows(resp.m, asked[2])
  BY SameKnows
<1>. QED  BY <1>1 DEF BackendInv, LookedUp

(***************************************************************************)
(* The response just read, and what may come of it.                        *)
(***************************************************************************)
Response == decodeSASLResponse(asResponse(Head(toServer)))

\* CommitAuth is called when the backend agreed to the credentials it was
\* given, when the response it was given is the right one, or after the
\* exchange of SCRAM for an account it knows.
CommitStep ==
    commits' # commits =>
        \/ asked'[1] = "credentials" /\ knows(resp.m, asked[2])'
        \/ asked'[1] = "challenge-response" /\ Response = CramAnswer
        \/ LookedUp(resp)' /\ resp.state = "SCRAMEmpty"

\* That exchange gets to its end by the right proof.
ProofStep ==
    resp'.state = "SCRAMEmpty" /\ resp.state # "SCRAMEmpty" =>
        /\ LookedUp(resp) /\ keys.password = account.password
        /\ Proven(resp, Response, keys)

\* AUTH commits only what the backend agreed to,
LEMMA handleAUTHAsks ==
    ASSUME Inv, BackendInv, handleAUTH
    PROVE  BackendInv' /\ CommitStep /\ ProofStep
<1>1. account' = account
  BY DEF handleAUTH, config
<1>2. CASE sauth \/ Head(toServer).mech \notin offered
  <2>1. UNCHANGED serverv
    BY Zenon, <1>2 DEF handleAUTH
  <2>2. BackendInv' /\ (resp.state # "SCRAMEmpty" => resp'.state # "SCRAMEmpty") /\ commits' = commits
    BY <1>1, <2>1, SameBackend DEF serverv
  <2>. QED  BY <2>2 DEF CommitStep, ProofStep
<1>3. CASE ~(sauth \/ Head(toServer).mech \notin offered)
  <2>. DEFINE m == Head(toServer)
              r == NewResponder(m.mech, "B")
              initial == decodeSASLResponse(m.initial)
              step == StartResponder(r, m.initial.form # "none", initial)
  <2>1. Process(step)
    BY <1>3 DEF handleAUTH
  <2>2. Responder(r) /\ r.state = "new"
    BY NewResponderIs
  <2>3. Sane(step, r, initial, keys)
    <3>. HIDE DEF r, initial, m
    <3>. QED  BY Zenon, <2>2, SaneStart
  <2>4. ~sauth /\ sauth = FALSE
    BY <1>3 DEF Inv, Commits
  <2>. HIDE DEF step, r, initial
  <2>5. BackendInv' /\ Decides(r, initial)
    BY Zenon, <1>1, <2>1, <2>2, <2>3, <2>4, Decided
  <2>. QED  BY <2>2, <2>5 DEF Decides, CommitStep, ProofStep
<1>. QED  BY <1>2, <1>3

\* ... and so does a further round.
LEMMA RoundAsks ==
    ASSUME Inv, BackendInv, Round
    PROVE  BackendInv' /\ CommitStep /\ ProofStep
<1>1. account' = account /\ spc = "challenge"
  BY DEF Round, config
<1>2. CASE ~decodable(asResponse(Head(toServer)))
  <2>1. UNCHANGED <<resp, keys, sauth, asked, commits>>
    BY <1>2 DEF Round
  <2>2. BackendInv' /\ (resp.state # "SCRAMEmpty" => resp'.state # "SCRAMEmpty") /\ commits' = commits
    BY <1>1, <2>1, SameBackend
  <2>. QED  BY <2>2 DEF CommitStep, ProofStep
<1>3. CASE decodable(asResponse(Head(toServer)))
  <2>. DEFINE step == NextResponder(resp, Response, keys)
  <2>1. Process(step)
    BY <1>3 DEF Round, Response
  <2>2. Sane(step, resp, Response, keys)
    BY SaneNext DEF BackendInv
  <2>3. ~sauth /\ sauth = FALSE
    BY <1>1 DEF Inv, Commits
  <2>. HIDE DEF step
  <2>4. BackendInv' /\ Decides(resp, Response)
    BY Zenon, <1>1, <2>1, <2>2, <2>3, Decided DEF BackendInv
  <2>. QED  BY <2>4 DEF Decides, CommitStep, ProofStep, BackendInv
<1>. QED  BY <1>2, <1>3

\* Every step keeps BackendInv and commits only what the backend agreed to.
LEMMA BackendNext ==
    ASSUME Inv, BackendInv, [Next]_vars
    PROVE  BackendInv' /\ CommitStep /\ ProofStep
<1>1. ASSUME UNCHANGED <<resp, keys, sauth, asked, commits, account>>
      PROVE  BackendInv' /\ CommitStep /\ ProofStep
  BY Zenon, <1>1, SameBackend DEF CommitStep, ProofStep
<1>2. CASE UNCHANGED vars
  BY <1>1, <1>2 DEF vars, config, serverv
<1>3. CASE Auth
  BY <1>1, <1>3 DEF Auth, config, serverv
<1>4. CASE ClientStep
  <2>1. UNCHANGED <<config, serverv>>
    BY <1>4 DEF ClientStep, ReadReply, ReadFails, HandleChallenge, HandleFinal, HandleCancelled, HandleEHLO
  <2>. QED  BY <1>1, <2>1 DEF config, serverv
<1>5. CASE handleAUTH
  BY <1>5, handleAUTHAsks
<1>6. CASE Round
  BY <1>6, RoundAsks
<1>7. CASE OtherCommand
  BY <1>1, <1>7 DEF OtherCommand, config
<1>8. CASE ForeignReply
  BY <1>1, <1>8, Zenon DEF ForeignReply, config
<1>9. CASE Cancel
  BY <1>1, <1>9 DEF Cancel, config, serverv
<1>10. CASE ServerGivesUp
  BY <1>1, <1>10 DEF ServerGivesUp, config
<1>11. CASE Lose
  BY <1>1, <1>11 DEF Lose, config, serverv
<1>. QED  BY <1>2, <1>3, <1>4, <1>5, <1>6, <1>7, <1>8, <1>9, <1>10, <1>11 DEF Next, ServerStep

\* BackendInv holds initially.
LEMMA BackendInit ==
    ASSUME Init
    PROVE  BackendInv
<1>1. resp = NewResponder("", "B") /\ keys = storedKeys("4096") /\ sauth = FALSE
  BY Zenon DEF Init
<1>2. Responder(resp) /\ resp.state = "new"
  BY Zenon, <1>1, NewResponderIs
<1>3. keys.password = account.password
  BY Zenon, <1>1 DEF storedKeys
<1>. QED  BY Zenon, <1>1, <1>2, <1>3 DEF BackendInv

(***************************************************************************)
(* The keys a proof is compared with are those of the account, and were    *)
(* handed out for a name the backend knows (responder.go, Continue).       *)
(***************************************************************************)
THEOREM BackendInvHolds == Spec => []BackendInv
<1>1. Init => BackendInv
  BY BackendInit
<1>2. Inv /\ BackendInv /\ [Next]_vars => BackendInv'
  BY BackendNext
<1>. QED  BY <1>1, <1>2, InvHolds, PTL DEF Spec

(***************************************************************************)
(* finalizeAuthentication commits only what the backend agreed to: the     *)
(* credentials, the response of CRAM-MD5, or a name it knows whose client  *)
(* showed the proof in an earlier round; finding the keys of SCRAM is      *)
(* never enough (cmd_auth.go, responder.go).                               *)
(***************************************************************************)
THEOREM CommittedOnAgreement == Spec => [][CommitStep /\ ProofStep]_vars
<1>1. Inv /\ BackendInv /\ [Next]_vars => [CommitStep /\ ProofStep]_vars
  BY BackendNext
<1>. QED  BY <1>1, InvHolds, BackendInvHolds, PTL DEF Spec

\* CommitAuth was called at most once, exactly by a session that is
\* authenticated, and for what the backend agreed to.
CommittedOnce ==
    /\ commits <= 1
    /\ sauth <=> commits = 1
    /\ commits = 1 => \/ asked[1] = "challenge-response"
                      \/ asked[1] \in {"credentials", "scram-keys"} /\ knows(resp.m, asked[2])

(***************************************************************************)
(* However many calls of Auth are made and however they end, CommitAuth is *)
(* called once at most, and what the session is authenticated for stays    *)
(* what the backend agreed to (authentication.go:11-13).                   *)
(***************************************************************************)
THEOREM CommittedOnceHolds == Spec => []CommittedOnce
<1>1. Inv /\ BackendInv => CommittedOnce
  BY DEF Inv, Commits, BackendInv, CommittedOnce
<1>. QED  BY <1>1, InvHolds, BackendInvHolds, PTL

=============================================================================
