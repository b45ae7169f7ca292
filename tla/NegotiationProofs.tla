------------------------- MODULE NegotiationProofs -------------------------
(***************************************************************************)
(* Proofs about Negotiation, for any set of configurations and any number  *)
(* of calls.                                                               *)
(*                                                                         *)
(* SessionAgrees speaks of the moments between two calls, and what makes   *)
(* it true there was decided while a call ran, at the other end.  So the   *)
(* invariant says, for every point a call can stand at, what the server    *)
(* knows then and which answers can be under way.                          *)
(***************************************************************************)
EXTENDS Negotiation, TLAPS

States == {"connected", "greeted", "tls", "authenticated", "transaction", "closed"}
Steps == Pending \union {"handshake", "upgraded", "welcomed", "hello", "idle", "failed"}
Words == frameworkCapabilities \union {"DSN", "REQUIRETLS"} \union UNION {c.exts : c \in Configs}
Mechanisms == {"PLAIN"} \union UNION {c.before \union c.after : c \in Configs}
Tables == [kw : SUBSET Words, auth : SUBSET Mechanisms, mailmax : Int]
Verbs == {"EHLO", "LHLO", "HELO", "STARTTLS", "AUTH", "MAIL", "RSET"}
Clients ==
    [state : States, base : States, tls : BOOLEAN, raw : BOOLEAN, ext : Tables, era : BOOLEAN,
     op : {"dial", "starttls", "auth", "mail", "rset"}, pc : Steps]
Servers ==
    [at : {"handshake", "new", "loop", "closed"}, phase : {"connected", "ready", "mail"},
     tls : BOOLEAN, cert : BOOLEAN, authed : BOOLEAN, extended : BOOLEAN, attempts : Nat]
Replies == [code : Nat, bad : BOOLEAN, limit : BOOLEAN, ext : Tables, tls : BOOLEAN]

\* The type of the two ends.  NewServer has accepted the options.
Types ==
    /\ cfg \in Configs /\ NewServer(cfg)
    /\ cli \in Clients /\ srv \in Servers
    /\ rep # <<>> => rep = <<rep[1]>> /\ rep[1] \in Replies

\* The state says "closed" of a connection that is, but for a Dial that is
\* about to fail: newClient sets the state whatever the watcher has done.
RawInv ==
    /\ cli.base # "closed"
    /\ cli.raw => cli.state # "closed"
    /\ ~cli.raw /\ cli.state # "closed" => cli.op = "dial" /\ cli.pc \in {"failed", "hello"}

\* The places where the client has no table.
Bare == {"handshake", "upgraded", "greeting", "welcomed"}

\* The transport: both ends change it at once, with no reply under way, and a
\* table the client holds was read on the transport it still has.
TransportInv ==
    /\ cli.tls = srv.tls
    /\ rep # <<>> => rep[1].tls = srv.tls
    /\ cli.pc \in Bare => cli.ext = NoTable
    /\ cli.ext # NoTable => cli.era = cli.tls
    /\ cli.pc \in {"greeting", "welcomed"} => cli.op = "dial"
    /\ cli.pc \in {"handshake", "upgraded"} => cli.op \in {"dial", "starttls"}
    /\ cli.pc = "starttls" => cli.op = "starttls"
    /\ cli.pc = "handshake" /\ cli.op = "dial" => cfg.implicit
    /\ cfg.implicit /\ ~cli.tls => cli.op = "dial" /\ cli.pc \in {"handshake", "failed"}

\* Another server states no MAILMAX.
ForeignInv ==
    cfg.foreign => /\ cli.ext.mailmax = 0
                   /\ rep # <<>> => rep[1].ext.mailmax = 0

\* What serveConnection looked at before it greeted.
Met == validateExtensionSession(cfg) /\ (cfg.requireAuth /\ ~srv.tls => authReachable(cfg, srv))

\* A session is served only when its policy can be met: by the tests before
\* the greeting, and by the second look of handleHello after TLS.
PolicyInv ==
    ~cfg.foreign =>
        /\ srv.at = "new" => ~srv.extended
        /\ srv.at = "loop" \/ (srv.at = "handshake" /\ ~cfg.implicit) => Met
        /\ srv.at = "loop" /\ srv.extended /\ srv.tls /\ cfg.requireAuth /\ ~srv.authed =>
              authMechanisms(cfg, srv) # {}

\* Nothing is under way.
Silent == req = <<>> /\ rep = <<>> /\ srv.at # "new"

\* The server knows nothing of the client: a new session, or one after TLS.
Unknown == srv.phase = "connected" /\ ~srv.authed /\ ~srv.extended

\* The client's table is the one the server would send now.
Offered ==
    /\ srv.extended /\ srv.phase # "connected" /\ validateExtensionSession(cfg)
    /\ cli.ext = capabilities(cfg, srv)

\* The state to return to when a transaction ends.
Basis == IF cli.state = "transaction" THEN cli.base ELSE cli.state

\* The two ends agree on the login.
Login ==
    cli.state # "closed" => /\ Basis \in {"greeted", "tls", "authenticated"}
                            /\ Basis = "authenticated" <=> srv.authed

\* The two ends agree on the transaction.
Transaction == cli.state # "closed" => (cli.state = "transaction" <=> srv.phase = "mail")

\* The command is under way and not executed, or there is none.
Sent(verb) ==
    /\ srv.at # "new"
    /\ req = <<>> \/ (rep = <<>> /\ req = <<req[1]>> /\ req[1].verb = verb)

\* The code of the reply under way.
Said == rep[1].code

\* What holds at each place of a call, of the server and of what is under way.
InHandshake == Silent /\ cli.state # "transaction" /\ (cli.op = "starttls" => ~srv.tls)
InGreeting == req = <<>> /\ Unknown /\ (srv.at = "new" => rep = <<>>) /\ srv.at # "handshake"
InHello == Login /\ Transaction /\ srv.phase # "mail"
InEHLO ==
    /\ Sent(hello.verb) /\ InHello
    /\ rep # <<>> => \/ Said = 421
                     \/ Said = 500 /\ wrongMode(hello.verb)
                     \/ /\ Said = 250 /\ ~wrongMode(hello.verb) /\ ~rep[1].bad
                        /\ rep[1].ext = capabilities(cfg, srv) /\ srv.extended /\ srv.phase = "ready"
                        /\ validateExtensionSession(cfg)
InHELO ==
    /\ cli.op = "dial" /\ wrongMode("HELO") /\ Sent("HELO")
    /\ rep # <<>> => Said = 500
InStartTLS ==
    /\ Sent("STARTTLS") /\ Offered /\ "STARTTLS" \in cli.ext.kw
    /\ cli.op = "starttls" /\ cli.state # "transaction" /\ srv.phase = "ready" /\ ~srv.tls
    /\ rep # <<>> => Said = 220
InAuth ==
    /\ Sent("AUTH") /\ srv.extended /\ srv.phase = "ready" /\ cli.op = "auth"
    /\ cli.state \in {"greeted", "tls", "closed"}
    /\ req # <<>> => req[1].arg \in cli.ext.auth
    /\ rep = <<>> => Offered /\ ~srv.authed
    /\ rep # <<>> => \/ Said = 235 /\ srv.authed
                     \/ Said \in {454, 535} /\ Offered /\ ~srv.authed
InMail ==
    /\ Sent("MAIL") /\ Offered /\ Login /\ cli.state # "transaction" /\ cli.op = "mail"
    /\ req # <<>> => req[1].arg \in Parameters /\ parameterExtension(req[1].arg) \subseteq cli.ext.kw
    /\ rep = <<>> => srv.phase = "ready"
    /\ rep # <<>> =>
          /\ \/ Said = 250 /\ srv.phase = "mail"
             \/ Said \in {421, 451, 530} /\ srv.phase = "ready"
          /\ rep[1].limit <=> srv.attempts > maxTransactions(cfg)
InReset ==
    /\ Sent("RSET") /\ Offered /\ Login /\ cli.op = "rset"
    /\ rep = <<>> => Transaction
    /\ rep # <<>> => Said = 250 /\ srv.phase = "ready"
AtRest == Silent /\ Offered /\ Login /\ Transaction /\ ~wrongMode(hello.verb)

\* One command at most is under way.
OneCommand == req # <<>> => req = <<req[1]>> /\ req[1].verb \in Verbs

\* The same by the place the call stands at.  Nothing is said of a server of
\* another implementation.
SyncInv ==
    ~cfg.foreign =>
        /\ OneCommand
        /\ cli.op # "dial" => ~wrongMode(hello.verb)
        /\ cli.pc = "handshake" => InHandshake
        /\ cli.pc \in {"upgraded", "greeting"} /\ cli.op = "dial" => InGreeting
        /\ cli.pc = "upgraded" /\ cli.op = "starttls" => Silent /\ Unknown /\ cli.state # "transaction"
        /\ cli.pc = "welcomed" => Silent /\ Unknown
        /\ cli.pc = "hello" => Silent /\ InHello
        /\ cli.pc = "ehlo" => InEHLO
        /\ cli.pc = "helo" => InHELO
        /\ cli.pc = "starttls" => InStartTLS
        /\ cli.pc = "auth" => InAuth
        /\ cli.pc = "mail" => InMail
        /\ cli.pc = "rset" => InReset
        /\ cli.pc = "idle" /\ cli.state # "closed" => AtRest

\* The inductive invariant.
Inv == Types /\ RawInv /\ TransportInv /\ ForeignInv /\ PolicyInv /\ SyncInv

Ops == {"dial", "starttls", "auth", "mail", "rset"}

\* The fields of a client.
Is(d, state, base, tls, raw, ext, era, op, pc) ==
    /\ d \in Clients
    /\ d.state = state /\ d.base = base /\ d.tls = tls /\ d.raw = raw
    /\ d.ext = ext /\ d.era = era /\ d.op = op /\ d.pc = pc

\* poison closes the connection and changes nothing else.
LEMMA PoisonIs ==
    ASSUME NEW c \in Clients
    PROVE  Is(poison(c), "closed", c.base, c.tls, FALSE, c.ext, c.era, c.op, c.pc)
  BY Zenon DEF poison, Is, Clients, States

\* returns ends the call, and closes a connection that Dial cannot return.
LEMMA ReturnsIs ==
    ASSUME NEW c \in Clients, NEW ok \in BOOLEAN
    PROVE  /\ c.op = "dial" /\ ~ok =>
                Is(returns(c, ok), c.state, c.base, c.tls, FALSE, c.ext, c.era, c.op, "failed")
           /\ ~(c.op = "dial" /\ ~ok) =>
                Is(returns(c, ok), c.state, c.base, c.tls, c.raw, c.ext, c.era, c.op, "idle")
<1>1. CASE c.op = "dial" /\ ~ok
  <2>. DEFINE d == [c EXCEPT !.pc = "failed", !.raw = FALSE]
  <2>1. Is(d, c.state, c.base, c.tls, FALSE, c.ext, c.era, c.op, "failed")
    BY Zenon DEF Is, Clients, Steps, Pending
  <2>2. returns(c, ok) = d
    BY <1>1 DEF returns
  <2>. QED  BY Zenon, <2>1, <2>2, <1>1
<1>2. CASE ~(c.op = "dial" /\ ~ok)
  <2>. DEFINE d == [c EXCEPT !.pc = "idle"]
  <2>1. Is(d, c.state, c.base, c.tls, c.raw, c.ext, c.era, c.op, "idle")
    BY DEF Is, Clients, Steps, Pending
  <2>2. returns(c, ok) = d
    BY <1>2 DEF returns
  <2>. QED  BY Zenon, <2>1, <2>2, <1>2
<1>. QED  BY Zenon, <1>1, <1>2

\* A call that poisons returns with the connection closed.
LEMMA LostIs ==
    ASSUME NEW c \in Clients
    PROVE  Is(returns(poison(c), FALSE), "closed", c.base, c.tls, FALSE, c.ext, c.era, c.op,
              IF c.op = "dial" THEN "failed" ELSE "idle")
<1>1. Is(poison(c), "closed", c.base, c.tls, FALSE, c.ext, c.era, c.op, c.pc)
  BY Zenon, PoisonIs
<1>2. /\ poison(c) \in Clients /\ poison(c).op = c.op
      /\ FALSE \in BOOLEAN
  BY <1>1 DEF Is
<1>3. CASE c.op = "dial"
  <2>1. Is(returns(poison(c), FALSE), poison(c).state, poison(c).base, poison(c).tls, FALSE,
           poison(c).ext, poison(c).era, poison(c).op, "failed")
    BY Zenon, <1>2, <1>3, ReturnsIs
  <2>. QED  BY Zenon, <2>1, <1>1, <1>3 DEF Is
<1>4. CASE c.op # "dial"
  <2>1. Is(returns(poison(c), FALSE), poison(c).state, poison(c).base, poison(c).tls, poison(c).raw,
           poison(c).ext, poison(c).era, poison(c).op, "idle")
    BY Zenon, <1>2, <1>4, ReturnsIs
  <2>. QED  BY Zenon, <2>1, <1>1, <1>4 DEF Is
<1>. QED  BY Zenon, <1>3, <1>4

\* A call on an open session writes its command and waits for the reply.
LEMMA CallIs ==
    ASSUME Types, RawInv, cli.pc = "idle", cli.state # "closed",
           NEW o \in Ops, NEW p \in Steps, NEW v, NEW a,
           issue([cli EXCEPT !.op = o], [verb |-> v, arg |-> a], p)
    PROVE  /\ Is(cli', cli.state, cli.base, cli.tls, cli.raw, cli.ext, cli.era, o, p)
           /\ cli.raw
           /\ req' = Append(req, [verb |-> v, arg |-> a])
<1>. DEFINE c == [cli EXCEPT !.op = o]
            d == [c EXCEPT !.pc = p]
            m == [verb |-> v, arg |-> a]
<1>1. cli \in Clients
  BY DEF Types
<1>2. Is(c, cli.state, cli.base, cli.tls, cli.raw, cli.ext, cli.era, o, cli.pc)
  BY <1>1 DEF Is, Clients, Ops
<1>3. cli.raw
  BY <1>1 DEF RawInv, Clients
<1>4. issue(c, m, p)
  OBVIOUS
<1>. HIDE DEF c, m
<1>5. cli' = d /\ req' = Append(req, m)
  BY <1>2, <1>3, <1>4 DEF issue, Is
<1>6. Is(d, c.state, c.base, c.tls, c.raw, c.ext, c.era, c.op, p)
  BY <1>2 DEF Is, Clients
<1>. HIDE DEF d
<1>7. Is(cli', cli.state, cli.base, cli.tls, cli.raw, cli.ext, cli.era, o, p)
  BY <1>2, <1>5, <1>6 DEF Is
<1>. QED  BY Zenon, <1>3, <1>5, <1>7 DEF m

\* A step that leaves the server alone leaves its policy met.
LEMMA PolicyStays ==
    ASSUME PolicyInv, UNCHANGED <<cfg, srv>>
    PROVE  PolicyInv'
  BY DEF PolicyInv, Met

\* The write of a command leaves the transport, the tables and the server alone.
LEMMA CallKeepsRest ==
    ASSUME Types, RawInv, TransportInv, ForeignInv, PolicyInv,
           cli.pc = "idle", cli.state # "closed", UNCHANGED <<cfg, srv, rep>>,
           NEW o \in Ops, NEW p \in Steps \ (Bare \union {"idle", "failed", "hello"}), o # "dial",
           p = "starttls" => o = "starttls",
           Is(cli', cli.state, cli.base, cli.tls, cli.raw, cli.ext, cli.era, o, p), cli.raw
    PROVE  (Types /\ RawInv /\ TransportInv /\ ForeignInv /\ PolicyInv)'
<1>1. Types'
  BY DEF Types, Is
<1>2. RawInv'
  BY DEF RawInv, Is
<1>3. TransportInv'
  BY DEF TransportInv, Is, Bare, Types, Clients
<1>4. ForeignInv'
  BY DEF ForeignInv, Is
<1>5. PolicyInv'
  BY PolicyStays
<1>. QED  BY <1>1, <1>2, <1>3, <1>4, <1>5

\* When a call has written its command, that is the only one under way, and
\* what the two ends agreed on between the calls still holds.
LEMMA CallFollows ==
    ASSUME Inv, ~cfg.foreign, cli.pc = "idle", cli.state # "closed", UNCHANGED <<cfg, srv, rep>>,
           NEW o \in Ops, NEW p \in Steps, NEW v, NEW a,
           Is(cli', cli.state, cli.base, cli.tls, cli.raw, cli.ext, cli.era, o, p),
           req' = Append(req, [verb |-> v, arg |-> a])
    PROVE  /\ req' = <<req'[1]>> /\ req'[1].verb = v /\ req'[1].arg = a
           /\ rep' = <<>> /\ srv'.at # "new"
           /\ Offered' /\ Login' /\ Transaction'
           /\ cli.state # "transaction" => srv'.phase = "ready"
           /\ ~wrongMode(hello.verb)'
           /\ AtRest
<1>1. AtRest
  BY DEF Inv, SyncInv
<1>2. req' = <<req'[1]>> /\ req'[1].verb = v /\ req'[1].arg = a /\ rep' = <<>> /\ srv'.at # "new"
  BY <1>1 DEF AtRest, Silent
<1>3. Offered'
  BY <1>1 DEF AtRest, Offered, Is
<1>4. Login' /\ Transaction'
  BY <1>1 DEF AtRest, Login, Transaction, Basis, Is
<1>5. cli.state # "transaction" => srv'.phase = "ready"
  BY <1>1 DEF AtRest, Offered, Transaction, Inv, Types, Servers
<1>6. ~wrongMode(hello.verb)'
  BY <1>1 DEF AtRest, wrongMode, hello
<1>. QED  BY <1>1, <1>2, <1>3, <1>4, <1>5, <1>6

\* StartTLS, up to its read, preserves the invariant.
LEMMA StartTLSKeeps ==
    ASSUME Inv, StartTLS
    PROVE  Inv'
<1>1. cli.pc = "idle" /\ cli.state # "closed" /\ UNCHANGED <<cfg, srv, rep>>
  BY DEF StartTLS, Calls
<1>2. /\ Is(cli', cli.state, cli.base, cli.tls, cli.raw, cli.ext, cli.era, "starttls", "starttls")
      /\ cli.raw /\ req' = Append(req, [verb |-> "STARTTLS", arg |-> "none"])
  <2>1. "starttls" \in Ops /\ "starttls" \in Steps
    BY DEF Ops, Steps, Pending
  <2>2. issue([cli EXCEPT !.op = "starttls"], [verb |-> "STARTTLS", arg |-> "none"], "starttls")
    BY DEF StartTLS
  <2>3. Types /\ RawInv
    BY DEF Inv
  <2>. QED  BY Zenon, <1>1, <2>1, <2>2, <2>3, CallIs
<1>3. /\ "starttls" \in Ops /\ "starttls" \in Steps \ (Bare \union {"idle", "failed", "hello"})
      /\ "starttls" # "dial"
  BY DEF Ops, Steps, Pending, Bare
<1>4. (Types /\ RawInv /\ TransportInv /\ ForeignInv /\ PolicyInv)'
  BY Zenon, <1>1, <1>2, <1>3, CallKeepsRest DEF Inv
<1>5. SyncInv'
  <2>. SUFFICES ASSUME ~cfg.foreign PROVE SyncInv'
    BY <1>1 DEF SyncInv
  <2>1. /\ req' = <<req'[1]>> /\ req'[1].verb = "STARTTLS" /\ req'[1].arg = "none"
        /\ rep' = <<>> /\ srv'.at # "new"
        /\ Offered' /\ Login' /\ Transaction'
        /\ cli.state # "transaction" => srv'.phase = "ready"
        /\ ~wrongMode(hello.verb)'
        /\ AtRest
    <3>1. "starttls" \in Ops /\ "starttls" \in Steps
      BY <1>3
    <3>. QED  BY Zenon, <1>1, <1>2, <3>1, CallFollows
  <2>2. cli'.state # "transaction" /\ srv'.phase = "ready" /\ "STARTTLS" \in cli'.ext.kw /\ ~srv'.tls
    BY <1>1, <1>2, <2>1 DEF Is, StartTLS, Offered, capabilities, validateExtensionSession, frameworkCapabilities
  <2>3. InStartTLS'
    BY <1>2, <2>1, <2>2 DEF InStartTLS, Sent, Is
  <2>. QED  BY <1>2, <2>1, <2>3 DEF SyncInv, OneCommand, Verbs, Is
<1>. QED  BY <1>4, <1>5 DEF Inv

\* Auth, up to its read, preserves the invariant: its mechanism is of the table.
LEMMA AuthKeeps ==
    ASSUME Inv, Auth
    PROVE  Inv'
<1>0. PICK m \in cli.ext.auth :
             /\ cli.state \in {"greeted", "tls"} /\ "AUTH" \in cli.ext.kw
             /\ Calls
             /\ issue([cli EXCEPT !.op = "auth"], [verb |-> "AUTH", arg |-> m], "auth")
  BY DEF Auth
<1>1. cli.pc = "idle" /\ cli.state # "closed" /\ UNCHANGED <<cfg, srv, rep>>
  BY <1>0 DEF Calls
<1>2. /\ Is(cli', cli.state, cli.base, cli.tls, cli.raw, cli.ext, cli.era, "auth", "auth")
      /\ cli.raw /\ req' = Append(req, [verb |-> "AUTH", arg |-> m])
  <2>1. "auth" \in Ops /\ "auth" \in Steps
    BY DEF Ops, Steps, Pending
  <2>2. issue([cli EXCEPT !.op = "auth"], [verb |-> "AUTH", arg |-> m], "auth")
    BY <1>0
  <2>3. Types /\ RawInv
    BY DEF Inv
  <2>. QED  BY Zenon, <1>1, <2>1, <2>2, <2>3, CallIs
<1>3. /\ "auth" \in Ops /\ "auth" \in Steps \ (Bare \union {"idle", "failed", "hello"})
      /\ "auth" # "dial"
  BY DEF Ops, Steps, Pending, Bare
<1>4. (Types /\ RawInv /\ TransportInv /\ ForeignInv /\ PolicyInv)'
  BY Zenon, <1>1, <1>2, <1>3, CallKeepsRest DEF Inv
<1>5. SyncInv'
  <2>. SUFFICES ASSUME ~cfg.foreign PROVE SyncInv'
    BY <1>1 DEF SyncInv
  <2>1. /\ req' = <<req'[1]>> /\ req'[1].verb = "AUTH" /\ req'[1].arg = m
        /\ rep' = <<>> /\ srv'.at # "new"
        /\ Offered' /\ Login' /\ Transaction'
        /\ cli.state # "transaction" => srv'.phase = "ready"
        /\ ~wrongMode(hello.verb)'
        /\ AtRest
    <3>1. "auth" \in Ops /\ "auth" \in Steps
      BY <1>3
    <3>. QED  BY Zenon, <1>1, <1>2, <3>1, CallFollows
  <2>2. /\ cli'.state \in {"greeted", "tls"} /\ m \in cli'.ext.auth /\ srv'.phase = "ready"
        /\ ~srv'.authed /\ srv'.extended
    BY <1>0, <1>1, <1>2, <2>1 DEF Is, AtRest, Login, Basis, Offered, Inv, Types, Servers
  <2>3. InAuth'
    BY <1>2, <2>1, <2>2 DEF InAuth, Sent, Is
  <2>. QED  BY <1>2, <2>1, <2>3 DEF SyncInv, OneCommand, Verbs, Is
<1>. QED  BY <1>4, <1>5 DEF Inv

\* Mail, up to its read, preserves the invariant: its parameter is of the table.
LEMMA MailKeeps ==
    ASSUME Inv, Mail
    PROVE  Inv'
<1>0. PICK p \in Parameters :
             /\ cli.state \in {"greeted", "tls", "authenticated"}
             /\ parameterExtension(p) \subseteq cli.ext.kw
             /\ Calls
             /\ issue([cli EXCEPT !.op = "mail"], [verb |-> "MAIL", arg |-> p], "mail")
  BY DEF Mail
<1>1. cli.pc = "idle" /\ cli.state # "closed" /\ UNCHANGED <<cfg, srv, rep>>
  BY <1>0 DEF Calls
<1>2. /\ Is(cli', cli.state, cli.base, cli.tls, cli.raw, cli.ext, cli.era, "mail", "mail")
      /\ cli.raw /\ req' = Append(req, [verb |-> "MAIL", arg |-> p])
  <2>1. "mail" \in Ops /\ "mail" \in Steps
    BY DEF Ops, Steps, Pending
  <2>2. issue([cli EXCEPT !.op = "mail"], [verb |-> "MAIL", arg |-> p], "mail")
    BY <1>0
  <2>3. Types /\ RawInv
    BY DEF Inv
  <2>. QED  BY Zenon, <1>1, <2>1, <2>2, <2>3, CallIs
<1>3. /\ "mail" \in Ops /\ "mail" \in Steps \ (Bare \union {"idle", "failed", "hello"})
      /\ "mail" # "dial"
  BY DEF Ops, Steps, Pending, Bare
<1>4. (Types /\ RawInv /\ TransportInv /\ ForeignInv /\ PolicyInv)'
  BY Zenon, <1>1, <1>2, <1>3, CallKeepsRest DEF Inv
<1>5. SyncInv'
  <2>. SUFFICES ASSUME ~cfg.foreign PROVE SyncInv'
    BY <1>1 DEF SyncInv
  <2>1. /\ req' = <<req'[1]>> /\ req'[1].verb = "MAIL" /\ req'[1].arg = p
        /\ rep' = <<>> /\ srv'.at # "new"
        /\ Offered' /\ Login' /\ Transaction'
        /\ cli.state # "transaction" => srv'.phase = "ready"
        /\ ~wrongMode(hello.verb)'
        /\ AtRest
    <3>1. "mail" \in Ops /\ "mail" \in Steps
      BY <1>3
    <3>. QED  BY Zenon, <1>1, <1>2, <3>1, CallFollows
  <2>2. /\ cli'.state # "transaction" /\ srv'.phase = "ready"
        /\ p \in Parameters /\ parameterExtension(p) \subseteq cli'.ext.kw
    BY <1>0, <1>2, <2>1 DEF Is
  <2>3. InMail'
    BY <1>2, <2>1, <2>2 DEF InMail, Sent, Is
  <2>. QED  BY <1>2, <2>1, <2>3 DEF SyncInv, OneCommand, Verbs, Is
<1>. QED  BY <1>4, <1>5 DEF Inv

\* Reset, up to its read, preserves the invariant.
LEMMA ResetKeeps ==
    ASSUME Inv, Reset
    PROVE  Inv'
<1>1. cli.pc = "idle" /\ cli.state # "closed" /\ UNCHANGED <<cfg, srv, rep>>
  BY DEF Reset, Calls
<1>2. /\ Is(cli', cli.state, cli.base, cli.tls, cli.raw, cli.ext, cli.era, "rset", "rset")
      /\ cli.raw /\ req' = Append(req, [verb |-> "RSET", arg |-> "none"])
  <2>1. "rset" \in Ops /\ "rset" \in Steps
    BY DEF Ops, Steps, Pending
  <2>2. issue([cli EXCEPT !.op = "rset"], [verb |-> "RSET", arg |-> "none"], "rset")
    BY DEF Reset
  <2>3. Types /\ RawInv
    BY DEF Inv
  <2>. QED  BY Zenon, <1>1, <2>1, <2>2, <2>3, CallIs
<1>3. /\ "rset" \in Ops /\ "rset" \in Steps \ (Bare \union {"idle", "failed", "hello"})
      /\ "rset" # "dial"
  BY DEF Ops, Steps, Pending, Bare
<1>4. (Types /\ RawInv /\ TransportInv /\ ForeignInv /\ PolicyInv)'
  BY Zenon, <1>1, <1>2, <1>3, CallKeepsRest DEF Inv
<1>5. SyncInv'
  <2>. SUFFICES ASSUME ~cfg.foreign PROVE SyncInv'
    BY <1>1 DEF SyncInv
  <2>1. /\ req' = <<req'[1]>> /\ req'[1].verb = "RSET" /\ req'[1].arg = "none"
        /\ rep' = <<>> /\ srv'.at # "new"
        /\ Offered' /\ Login' /\ Transaction'
        /\ cli.state # "transaction" => srv'.phase = "ready"
        /\ ~wrongMode(hello.verb)'
        /\ AtRest
    <3>1. "rset" \in Ops /\ "rset" \in Steps
      BY <1>3
    <3>. QED  BY Zenon, <1>1, <1>2, <3>1, CallFollows
  <2>2. cli'.pc = "rset"
    BY <1>2 DEF Is
  <2>3. InReset'
    BY <1>2, <2>1, <2>2 DEF InReset, Sent, Is
  <2>. QED  BY <1>2, <2>1, <2>3 DEF SyncInv, OneCommand, Verbs, Is
<1>. QED  BY <1>4, <1>5 DEF Inv

\* A call that poisons and returns preserves the invariant, wherever it stood.
LEMMA LostKeeps ==
    ASSUME Inv, UNCHANGED <<cfg, srv, req>>, rep' \in {rep, <<>>}, cli' = returns(poison(cli), FALSE)
    PROVE  Inv'
<1>1. cli \in Clients
  BY DEF Inv, Types
<1>2. Is(cli', "closed", cli.base, cli.tls, FALSE, cli.ext, cli.era, cli.op,
         IF cli.op = "dial" THEN "failed" ELSE "idle")
  BY Zenon, <1>1, LostIs
<1>3. Types'
  BY Zenon, <1>2 DEF Inv, Types, Is
<1>4. RawInv'
  BY Zenon, <1>2 DEF Inv, RawInv, Is
<1>5. TransportInv'
  BY Zenon, <1>2 DEF Inv, TransportInv, Is, Bare
<1>6. ForeignInv'
  BY Zenon, <1>2 DEF Inv, ForeignInv, Is
<1>7. PolicyInv'
  BY PolicyStays DEF Inv
<1>8. SyncInv'
  <2>1. wrongMode(hello.verb)' <=> wrongMode(hello.verb)
    BY DEF wrongMode, hello
  <2>. QED  BY Zenon, <1>2, <2>1 DEF Inv, SyncInv, OneCommand, Is
<1>. QED  BY <1>3, <1>4, <1>5, <1>6, <1>7, <1>8 DEF Inv

\* A Dial that closes the connection and fails preserves the invariant.
LEMMA DialFails ==
    ASSUME Inv, UNCHANGED <<cfg, srv, req>>, rep' \in {rep, <<>>}, cli.op = "dial",
           cli' = returns(cli, FALSE)
    PROVE  Inv'
<1>1. cli \in Clients /\ FALSE \in BOOLEAN
  BY DEF Inv, Types
<1>2. Is(cli', cli.state, cli.base, cli.tls, FALSE, cli.ext, cli.era, cli.op, "failed")
  BY Zenon, <1>1, ReturnsIs
<1>3. Types'
  BY Zenon, <1>2 DEF Inv, Types, Is
<1>4. RawInv'
  BY Zenon, <1>2 DEF Inv, RawInv, Is
<1>5. TransportInv'
  BY Zenon, <1>2 DEF Inv, TransportInv, Is, Bare
<1>6. ForeignInv'
  BY Zenon, <1>2 DEF Inv, ForeignInv, Is
<1>7. PolicyInv'
  BY PolicyStays DEF Inv
<1>8. SyncInv'
  BY Zenon, <1>2 DEF Inv, SyncInv, OneCommand, Is
<1>. QED  BY <1>3, <1>4, <1>5, <1>6, <1>7, <1>8 DEF Inv

\* A handshake that fails in upgradeTLS preserves the invariant.
LEMMA HandshakeFailsKeeps ==
    ASSUME Inv, HandshakeFails
    PROVE  Inv'
<1>1. CASE cli.op = "dial"
  BY <1>1, DialFails DEF HandshakeFails
<1>2. CASE cli.op # "dial"
  BY <1>2, LostKeeps DEF HandshakeFails
<1>. QED  BY <1>1, <1>2

\* A read that ends without a reply (pipeline.read) preserves the invariant.
LEMMA ReadFailsKeeps ==
    ASSUME Inv, ReadFails
    PROVE  Inv'
  BY LostKeeps DEF ReadFails

\* The watcher of a handshake that poisons late preserves the invariant,
\* wherever the call stands by then.
LEMMA LatePoisonKeeps ==
    ASSUME Inv, LatePoison
    PROVE  Inv'
<1>1. UNCHANGED <<cfg, srv, req, rep>> /\ cli \in Clients
  BY DEF Inv, Types, LatePoison
<1>2. Is(cli', "closed", cli.base, cli.tls, FALSE, cli.ext, cli.era, cli.op, cli.pc)
  BY Zenon, <1>1, PoisonIs DEF LatePoison
<1>3. Types'
  BY <1>1, <1>2 DEF Inv, Types, Is
<1>4. RawInv'
  BY <1>2 DEF Inv, RawInv, Is
<1>5. TransportInv'
  BY <1>1, <1>2 DEF Inv, TransportInv, Is
<1>6. ForeignInv'
  BY <1>1, <1>2 DEF Inv, ForeignInv, Is
<1>7. PolicyInv'
  BY <1>1, PolicyStays DEF Inv
<1>8. SyncInv'
  <2>. SUFFICES ASSUME ~cfg.foreign PROVE SyncInv'
    BY <1>1 DEF SyncInv
  <2>1. /\ Silent' <=> Silent
        /\ Unknown' <=> Unknown
        /\ Offered' <=> Offered
        /\ Login' /\ Transaction'
    BY <1>1, <1>2 DEF Silent, Unknown, Offered, Login, Transaction, Is
  <2>2. wrongMode(hello.verb)' <=> wrongMode(hello.verb)
    BY <1>1 DEF wrongMode, hello
  <2>3. /\ InHandshake => InHandshake'
        /\ InGreeting => InGreeting'
    BY <1>1, <1>2, <2>1 DEF InHandshake, InGreeting, Is
  <2>4. /\ InHello => InHello'
        /\ InStartTLS => InStartTLS'
    BY <1>1, <1>2, <2>1 DEF InHello, InStartTLS, Sent, Said, Is
  <2>5. InEHLO => InEHLO'
    BY <1>1, <2>2, <2>4 DEF InEHLO, Sent, Said, hello
  <2>6. InHELO => InHELO'
    BY <1>1, <1>2 DEF InHELO, Sent, Said, Is, wrongMode
  <2>7. InAuth => InAuth'
    BY <1>1, <1>2, <2>1 DEF InAuth, Sent, Said, Is
  <2>8. InMail => InMail'
    BY <1>1, <1>2, <2>1 DEF InMail, Sent, Said, Is
  <2>9. InReset => InReset'
    BY <1>1, <1>2, <2>1 DEF InReset, Sent, Said, Is
  <2>. QED  BY <1>1, <1>2, <2>1, <2>2, <2>3, <2>4, <2>5, <2>6, <2>7, <2>8, <2>9 DEF Inv, SyncInv, OneCommand, Is
<1>. QED  BY <1>3, <1>4, <1>5, <1>6, <1>7, <1>8 DEF Inv

\* The end of the handshake preserves the invariant: StartTLS leaves a state
\* that is closed as it is.
LEMMA UpgradedKeeps ==
    ASSUME Inv, Upgraded
    PROVE  Inv'
<1>1. UNCHANGED <<cfg, srv, req, rep>> /\ cli \in Clients /\ cli.pc = "upgraded"
  BY DEF Inv, Types, Upgraded
<1>2. CASE cli.op = "dial"
  <2>1. Is(cli', cli.state, cli.base, cli.tls, cli.raw, cli.ext, cli.era, cli.op, "greeting")
    BY <1>1, <1>2 DEF Upgraded, Is, Clients, Steps, Pending
  <2>2. Types' /\ RawInv' /\ ForeignInv'
    BY <1>1, <2>1 DEF Inv, Types, RawInv, ForeignInv, Is
  <2>3. TransportInv'
    BY <1>1, <1>2, <2>1 DEF Inv, TransportInv, Is, Bare
  <2>4. PolicyInv'
    BY <1>1, PolicyStays DEF Inv
  <2>5. SyncInv'
    BY <1>1, <1>2, <2>1 DEF Inv, SyncInv, OneCommand, InGreeting, Unknown, Is
  <2>. QED  BY <2>2, <2>3, <2>4, <2>5 DEF Inv
<1>3. CASE cli.op # "dial"
  <2>1. Is(cli', IF cli.state = "closed" THEN "closed" ELSE "tls", cli.base, cli.tls, cli.raw, cli.ext,
           cli.era, cli.op, "hello")
    BY Zenon, <1>1, <1>3 DEF Upgraded, Is, Clients, Steps, Pending, States
  <2>2. Types' /\ ForeignInv'
    BY <1>1, <2>1 DEF Inv, Types, ForeignInv, Is
  <2>3. RawInv'
    BY <1>1, <2>1 DEF Inv, RawInv, Is
  <2>4. TransportInv'
    BY <1>1, <1>3, <2>1 DEF Inv, TransportInv, Is, Bare
  <2>5. PolicyInv'
    BY <1>1, PolicyStays DEF Inv
  <2>6. SyncInv'
    <3>. SUFFICES ASSUME ~cfg.foreign PROVE SyncInv'
      BY <1>1 DEF SyncInv
    <3>1. Silent /\ Unknown /\ ~wrongMode(hello.verb)
      BY <1>1, <1>3 DEF Inv, SyncInv, TransportInv
    <3>2. Silent' /\ InHello'
      BY <1>1, <2>1, <3>1 DEF Silent, Unknown, InHello, Login, Transaction, Basis, Is
    <3>3. ~wrongMode(hello.verb)'
      BY <1>1, <3>1 DEF wrongMode, hello
    <3>. QED  BY <2>1, <3>2, <3>3 DEF SyncInv, OneCommand, Silent, Is
  <2>. QED  BY <2>2, <2>3, <2>4, <2>5, <2>6 DEF Inv
<1>. QED  BY <1>2, <1>3

\* newClient's state after the greeting preserves the invariant.
LEMMA WelcomedKeeps ==
    ASSUME Inv, Welcomed
    PROVE  Inv'
<1>1. UNCHANGED <<cfg, srv, req, rep>> /\ cli \in Clients /\ cli.pc = "welcomed" /\ cli.op = "dial"
  BY DEF Inv, Types, Welcomed, TransportInv
<1>2. Is(cli', IF cfg.implicit THEN "tls" ELSE "greeted", cli.base, cli.tls, cli.raw, cli.ext,
         cli.era, cli.op, "hello")
  BY Zenon, <1>1 DEF Welcomed, Is, Clients, Steps, Pending, States
<1>3. Types' /\ ForeignInv'
  BY <1>1, <1>2 DEF Inv, Types, ForeignInv, Is
<1>4. RawInv'
  BY <1>1, <1>2 DEF Inv, RawInv, Is
<1>5. TransportInv'
  BY <1>1, <1>2 DEF Inv, TransportInv, Is, Bare
<1>6. PolicyInv'
  BY <1>1, PolicyStays DEF Inv
<1>7. SyncInv'
  <2>. SUFFICES ASSUME ~cfg.foreign PROVE SyncInv'
    BY <1>1 DEF SyncInv
  <2>1. Silent /\ Unknown
    BY <1>1 DEF Inv, SyncInv
  <2>2. Silent' /\ InHello'
    BY <1>1, <1>2, <2>1 DEF Silent, Unknown, InHello, Login, Transaction, Basis, Is
  <2>. QED  BY <1>1, <1>2, <2>2 DEF SyncInv, OneCommand, Silent, Is
<1>. QED  BY <1>3, <1>4, <1>5, <1>6, <1>7 DEF Inv

\* The write of EHLO, or its refusal on a closed connection, preserves the
\* invariant.
LEMMA HelloKeeps ==
    ASSUME Inv, Hello
    PROVE  Inv'
<1>1. UNCHANGED <<cfg, srv, rep>> /\ cli \in Clients /\ cli.pc = "hello" /\ issue(cli, hello, "ehlo")
  BY DEF Inv, Types, Hello
<1>2. CASE cli.state = "closed" \/ ~cli.raw
  BY Zenon, <1>1, <1>2, LostKeeps DEF issue
<1>3. CASE ~(cli.state = "closed" \/ ~cli.raw)
  <2>. DEFINE d == [cli EXCEPT !.pc = "ehlo"]
  <2>1. Is(d, cli.state, cli.base, cli.tls, cli.raw, cli.ext, cli.era, cli.op, "ehlo")
    BY <1>1 DEF Is, Clients, Steps, Pending
  <2>2. cli' = d /\ req' = Append(req, hello)
    BY <1>1, <1>3 DEF issue
  <2>. HIDE DEF d
  <2>3. Is(cli', cli.state, cli.base, cli.tls, cli.raw, cli.ext, cli.era, cli.op, "ehlo")
    BY <2>1, <2>2
  <2>4. Types' /\ ForeignInv'
    BY <1>1, <2>3 DEF Inv, Types, ForeignInv, Is
  <2>5. RawInv'
    BY <1>1, <1>3, <2>3 DEF Inv, RawInv, Is
  <2>6. TransportInv'
    BY <1>1, <2>3 DEF Inv, TransportInv, Is, Bare
  <2>7. PolicyInv'
    BY <1>1, PolicyStays DEF Inv
  <2>8. SyncInv'
    <3>. SUFFICES ASSUME ~cfg.foreign PROVE SyncInv'
      BY <1>1 DEF SyncInv
    <3>1. Silent /\ InHello
      BY <1>1 DEF Inv, SyncInv
    <3>2. InHello'
      BY <1>1, <2>3, <3>1 DEF InHello, Login, Transaction, Basis, Is
    <3>3. hello' = hello /\ (wrongMode(hello.verb)' <=> wrongMode(hello.verb))
      BY <1>1 DEF wrongMode, hello
    <3>4. req' = <<req'[1]>> /\ req'[1].verb = hello.verb /\ rep' = <<>> /\ srv'.at # "new"
      BY <1>1, <2>2, <3>1 DEF Silent
    <3>5. InEHLO'
      BY <3>2, <3>3, <3>4 DEF InEHLO, Sent
    <3>6. OneCommand'
      BY <3>4 DEF OneCommand, hello, Verbs
    <3>. QED  BY <2>3, <3>3, <3>5, <3>6 DEF Inv, SyncInv, Is
  <2>. QED  BY <2>4, <2>5, <2>6, <2>7, <2>8 DEF Inv
<1>. QED  BY <1>2, <1>3

\* The empty table is a table.
LEMMA NoTableTyped == NoTable \in Tables
  BY DEF NoTable, Tables

\* What a reply that ends a call leaves: c is the client as the handler set it.
LEMMA EndKeepsRest ==
    ASSUME Types, RawInv, TransportInv, ForeignInv, PolicyInv, UNCHANGED <<cfg, srv>>, rep' = <<>>,
           cli.pc \in Pending, cli.raw, NEW ok \in BOOLEAN,
           NEW c \in Clients, c.state # "closed", c.base # "closed", c.raw, c.tls = cli.tls, c.op = cli.op,
           c.ext # NoTable => c.era = c.tls, cfg.foreign => c.ext.mailmax = 0,
           cli' = returns(c, ok)
    PROVE  (Types /\ RawInv /\ TransportInv /\ ForeignInv /\ PolicyInv)'
<1>1. \/ Is(cli', c.state, c.base, c.tls, FALSE, c.ext, c.era, c.op, "failed") /\ c.op = "dial"
      \/ Is(cli', c.state, c.base, c.tls, c.raw, c.ext, c.era, c.op, "idle")
  BY Zenon, ReturnsIs
<1>2. Types'
  BY Zenon, <1>1 DEF Types, Is
<1>3. RawInv'
  BY Zenon, <1>1 DEF RawInv, Is
<1>4. TransportInv'
  BY Zenon, <1>1 DEF TransportInv, Is, Bare, Pending
<1>5. ForeignInv'
  BY Zenon, <1>1 DEF ForeignInv, Is
<1>6. PolicyInv'
  BY PolicyStays
<1>. QED  BY <1>2, <1>3, <1>4, <1>5, <1>6

\* The greeting, as newClient reads it, preserves the invariant.
LEMMA GreetingKeeps ==
    ASSUME Inv, ReadReply, HandleGreeting(rep[1])
    PROVE  Inv'
<1>1. /\ UNCHANGED <<cfg, srv, req>> /\ rep # <<>> /\ rep' = <<>> /\ cli.raw
      /\ cli \in Clients /\ cli.pc = "greeting" /\ cli.op = "dial"
  BY DEF Inv, Types, TransportInv, ReadReply, HandleGreeting
<1>2. CASE rep[1].code # 220
  BY <1>1, <1>2, DialFails DEF HandleGreeting
<1>3. CASE rep[1].code = 220
  <2>1. Is(cli', cli.state, cli.base, cli.tls, cli.raw, cli.ext, cli.era, cli.op, "welcomed")
    BY Zenon, <1>1, <1>3 DEF HandleGreeting, Is, Clients, Steps, Pending
  <2>2. Types' /\ ForeignInv'
    BY <1>1, <2>1 DEF Inv, Types, ForeignInv, Is
  <2>3. RawInv'
    BY <1>1, <2>1 DEF Inv, RawInv, Is
  <2>4. TransportInv'
    BY <1>1, <2>1 DEF Inv, TransportInv, Is, Bare
  <2>5. PolicyInv'
    BY <1>1, PolicyStays DEF Inv
  <2>6. SyncInv'
    BY <1>1, <2>1 DEF Inv, SyncInv, OneCommand, InGreeting, Silent, Unknown, Is
  <2>. QED  BY <2>2, <2>3, <2>4, <2>5, <2>6 DEF Inv
<1>. QED  BY <1>2, <1>3

\* learns takes the table of the reply and the transport it came on.
LEMMA LearnsIs ==
    ASSUME NEW c \in Clients, NEW r \in Replies, c.state # "closed"
    PROVE  Is(learns(c, r), c.state, c.base, c.tls, c.raw, r.ext, r.tls, c.op, "idle")
<1>. DEFINE d == [c EXCEPT !.ext = r.ext, !.era = r.tls]
<1>1. Is(d, c.state, c.base, c.tls, c.raw, r.ext, r.tls, c.op, c.pc)
  BY Zenon DEF Is, Clients, Replies
<1>2. learns(c, r) = returns(d, TRUE)
  BY DEF learns
<1>. HIDE DEF d
<1>3. d \in Clients /\ TRUE \in BOOLEAN
  BY <1>1 DEF Is
<1>4. Is(returns(d, TRUE), d.state, d.base, d.tls, d.raw, d.ext, d.era, d.op, "idle")
  BY Zenon, <1>3, ReturnsIs
<1>. QED  BY Zenon, <1>1, <1>2, <1>4 DEF Is

\* A table just read was read on the transport of now.
LEMMA LearnKeepsRest ==
    ASSUME Types, RawInv, TransportInv, ForeignInv, PolicyInv, UNCHANGED <<cfg, srv>>, rep' = <<>>,
           cli.pc \in Pending, cli.raw, NEW r \in Replies,
           r.tls = srv.tls, cfg.foreign => r.ext.mailmax = 0, cli' = learns(cli, r)
    PROVE  /\ (Types /\ RawInv /\ TransportInv /\ ForeignInv /\ PolicyInv)'
           /\ Is(cli', cli.state, cli.base, cli.tls, cli.raw, r.ext, r.tls, cli.op, "idle")
<1>1. Is(cli', cli.state, cli.base, cli.tls, cli.raw, r.ext, r.tls, cli.op, "idle")
  BY Zenon, LearnsIs DEF Types, RawInv
<1>2. Types'
  BY <1>1 DEF Types, Is
<1>3. RawInv'
  BY <1>1 DEF RawInv, Is
<1>4. TransportInv'
  BY <1>1 DEF TransportInv, Is, Bare, Pending
<1>5. ForeignInv'
  BY <1>1 DEF ForeignInv, Is
<1>6. PolicyInv'
  BY PolicyStays
<1>. QED  BY Zenon, <1>1, <1>2, <1>3, <1>4, <1>5, <1>6

\* The reply to EHLO, as ehloLocked takes it, preserves the invariant: a table,
\* a refusal that ends the call, or the fallback to HELO, which this server
\* gives no reason for but to a client of the other mode.
LEMMA EHLOKeeps ==
    ASSUME Inv, ReadReply, HandleEHLO(rep[1]), rep[1].code # 421
    PROVE  Inv'
<1>. DEFINE r == rep[1]
<1>1. /\ UNCHANGED <<cfg, srv>> /\ rep # <<>> /\ rep' = <<>> /\ cli.raw /\ cli.state # "closed" /\ cli.base # "closed"
      /\ cli \in Clients /\ cli.pc = "ehlo" /\ cli.pc \in Pending /\ r \in Replies
      /\ r.tls = srv.tls /\ (cfg.foreign => r.ext.mailmax = 0) /\ FALSE \in BOOLEAN
      /\ cli.ext # NoTable => cli.era = cli.tls
      /\ cfg.foreign => cli.ext.mailmax = 0
  BY DEF Inv, Types, RawInv, TransportInv, ForeignInv, ReadReply, HandleEHLO, Pending
<1>2. ~cfg.foreign =>
        /\ req = <<>> /\ InHello /\ srv.at # "new"
        /\ \/ r.code = 500 /\ wrongMode(hello.verb)
           \/ /\ r.code = 250 /\ ~wrongMode(hello.verb) /\ ~r.bad
              /\ r.ext = capabilities(cfg, srv) /\ srv.extended /\ srv.phase = "ready"
              /\ validateExtensionSession(cfg)
        /\ cli.op # "dial" => ~wrongMode(hello.verb)
  BY <1>1 DEF Inv, SyncInv, InEHLO, Sent, Said
<1>3. wrongMode(hello.verb)' <=> wrongMode(hello.verb)
  BY <1>1 DEF wrongMode, hello
<1>. HIDE DEF r
<1>4. CASE r.code \in {500, 502} /\ ~cfg.clientLMTP
  <2>. DEFINE d == [cli EXCEPT !.pc = "helo"]
              m == [verb |-> "HELO", arg |-> "none"]
  <2>1. Is(d, cli.state, cli.base, cli.tls, cli.raw, cli.ext, cli.era, cli.op, "helo")
    <3>1. cli \in Clients
      BY <1>1
    <3>. QED  BY <3>1 DEF Is, Clients, Steps, Pending
  <2>2. cli' = d /\ req' = Append(req, m)
    BY <1>1, <1>4 DEF issue, HandleEHLO, r
  <2>. HIDE DEF d
  <2>3. Is(cli', cli.state, cli.base, cli.tls, cli.raw, cli.ext, cli.era, cli.op, "helo")
    BY <2>1, <2>2
  <2>4. Types' /\ ForeignInv'
    BY <1>1, <2>3 DEF Inv, Types, ForeignInv, Is
  <2>5. RawInv'
    BY <1>1, <2>3 DEF Inv, RawInv, Is
  <2>6. TransportInv'
    BY <1>1, <2>3 DEF Inv, TransportInv, Is, Bare
  <2>7. PolicyInv'
    BY <1>1, PolicyStays DEF Inv
  <2>8. SyncInv'
    <3>. SUFFICES ASSUME ~cfg.foreign PROVE SyncInv'
      BY <1>1 DEF SyncInv
    <3>1. wrongMode(hello.verb) /\ cli.op = "dial" /\ req = <<>> /\ srv.at # "new"
      BY <1>2, <1>4
    <3>2. wrongMode("HELO")'
      BY <1>1, <1>4, <3>1 DEF wrongMode, hello
    <3>3. req' = <<req'[1]>> /\ req'[1].verb = "HELO"
      BY <2>2, <3>1
    <3>4. InHELO'
      BY <1>1, <2>3, <3>1, <3>2, <3>3 DEF InHELO, Sent, Is
    <3>. QED  BY <2>3, <3>1, <3>3, <3>4 DEF SyncInv, OneCommand, Verbs, Is
  <2>. QED  BY <2>4, <2>5, <2>6, <2>7, <2>8 DEF Inv
<1>5. CASE ~(r.code \in {500, 502} /\ ~cfg.clientLMTP) /\ r.code # 250
  <2>1. cli' = returns(cli, FALSE) /\ req' = req
    BY Zenon, <1>5 DEF HandleEHLO, r
  <2>2. (Types /\ RawInv /\ TransportInv /\ ForeignInv /\ PolicyInv)'
    BY Zenon, <1>1, <2>1, EndKeepsRest DEF Inv
  <2>3. CASE cli.op = "dial"
    BY <1>1, <2>1, <2>3, DialFails
  <2>4. CASE cli.op # "dial"
    <3>1. cfg.foreign'
      BY <1>1, <1>2, <1>5, <2>4
    <3>. QED  BY <2>2, <3>1 DEF Inv, SyncInv
  <2>. QED  BY <2>3, <2>4
<1>6. CASE r.code = 250 /\ r.bad
  BY <1>1, <1>6, LostKeeps DEF HandleEHLO, r
<1>7. CASE r.code = 250 /\ ~r.bad
  <2>1. cli' = learns(cli, r) /\ req' = req
    BY <1>7 DEF HandleEHLO, r
  <2>2. /\ (Types /\ RawInv /\ TransportInv /\ ForeignInv /\ PolicyInv)'
        /\ Is(cli', cli.state, cli.base, cli.tls, cli.raw, r.ext, r.tls, cli.op, "idle")
    BY Zenon, <1>1, <2>1, LearnKeepsRest DEF Inv
  <2>3. SyncInv'
    <3>. SUFFICES ASSUME ~cfg.foreign PROVE SyncInv'
      BY <1>1 DEF SyncInv
    <3>1. /\ req = <<>> /\ InHello /\ srv.at # "new" /\ ~wrongMode(hello.verb)
          /\ r.ext = capabilities(cfg, srv) /\ srv.extended /\ srv.phase = "ready"
          /\ validateExtensionSession(cfg)
      BY <1>2, <1>7
    <3>2. Silent' /\ Offered'
      BY <1>1, <2>1, <2>2, <3>1 DEF Silent, Offered, Is
    <3>3. Login' /\ Transaction'
      BY <1>1, <2>2, <3>1 DEF InHello, Login, Transaction, Basis, Is
    <3>4. AtRest'
      BY <1>3, <3>1, <3>2, <3>3 DEF AtRest
    <3>. QED  BY <1>3, <2>1, <2>2, <3>1, <3>4 DEF SyncInv, OneCommand, Is
  <2>. QED  BY <2>2, <2>3 DEF Inv
<1>. QED  BY <1>1, <1>4, <1>5, <1>6, <1>7 DEF Replies

\* The reply to HELO, as heloLocked takes it, preserves the invariant.
LEMMA HELOKeeps ==
    ASSUME Inv, ReadReply, HandleHELO(rep[1])
    PROVE  Inv'
<1>. DEFINE r == rep[1]
            h == [r EXCEPT !.ext = NoTable]
<1>1. /\ UNCHANGED <<cfg, srv, req>> /\ rep # <<>> /\ rep' = <<>> /\ cli.raw
      /\ cli.state # "closed" /\ cli.base # "closed"
      /\ cli \in Clients /\ cli.pc = "helo" /\ cli.pc \in Pending /\ r \in Replies
      /\ r.tls = srv.tls /\ FALSE \in BOOLEAN
      /\ cli.ext # NoTable => cli.era = cli.tls
      /\ cfg.foreign => cli.ext.mailmax = 0
  BY DEF Inv, Types, RawInv, TransportInv, ForeignInv, ReadReply, HandleHELO, Pending
<1>2. ~cfg.foreign => r.code = 500 /\ cli.op = "dial"
  BY <1>1 DEF Inv, SyncInv, InHELO, Said
<1>. HIDE DEF r
<1>3. CASE r.code # 250
  <2>1. cli' = returns(cli, FALSE)
    BY <1>3 DEF HandleHELO, r
  <2>2. CASE cli.op = "dial"
    BY <1>1, <2>1, <2>2, DialFails
  <2>3. CASE cli.op # "dial"
    <3>1. cfg.foreign'
      BY <1>1, <1>2, <2>3
    <3>2. (Types /\ RawInv /\ TransportInv /\ ForeignInv /\ PolicyInv)'
      BY Zenon, <1>1, <2>1, EndKeepsRest DEF Inv
    <3>. QED  BY <3>1, <3>2 DEF Inv, SyncInv
  <2>. QED  BY <2>2, <2>3
<1>4. CASE r.code = 250
  <2>1. cli' = learns(cli, h)
    BY <1>4 DEF HandleHELO, r
  <2>2. h \in Replies /\ h.tls = srv.tls /\ h.ext.mailmax = 0
    BY <1>1 DEF Replies, Tables, NoTable
  <2>. HIDE DEF h
  <2>3. (Types /\ RawInv /\ TransportInv /\ ForeignInv /\ PolicyInv)'
    BY Zenon, <1>1, <2>1, <2>2, LearnKeepsRest DEF Inv
  <2>4. cfg.foreign'
    BY <1>1, <1>2, <1>4
  <2>. QED  BY <2>3, <2>4 DEF Inv, SyncInv
<1>. QED  BY <1>3, <1>4

\* The reply to STARTTLS preserves the invariant: the table goes before the
\* handshake.
LEMMA STARTTLSKeeps ==
    ASSUME Inv, ReadReply, HandleStartTLS(rep[1])
    PROVE  Inv'
<1>1. /\ UNCHANGED <<cfg, srv, req>> /\ rep # <<>> /\ rep' = <<>> /\ cli.raw
      /\ cli.state # "closed" /\ cli.base # "closed"
      /\ cli \in Clients /\ cli.pc = "starttls" /\ cli.pc \in Pending /\ cli.op = "starttls"
      /\ FALSE \in BOOLEAN
      /\ cli.ext # NoTable => cli.era = cli.tls
      /\ cfg.foreign => cli.ext.mailmax = 0
  BY DEF Inv, Types, RawInv, TransportInv, ForeignInv, ReadReply, HandleStartTLS, Pending
<1>2. ~cfg.foreign =>
        /\ rep[1].code = 220 /\ req = <<>> /\ srv.at # "new" /\ cli.state # "transaction"
        /\ ~wrongMode(hello.verb) /\ ~srv.tls
  BY <1>1 DEF Inv, SyncInv, InStartTLS, Sent, Said
<1>3. CASE rep[1].code # 220
  <2>1. cli' = returns(cli, FALSE)
    BY <1>3 DEF HandleStartTLS
  <2>2. (Types /\ RawInv /\ TransportInv /\ ForeignInv /\ PolicyInv)'
    BY Zenon, <1>1, <2>1, EndKeepsRest DEF Inv
  <2>3. cfg.foreign'
    BY <1>1, <1>2, <1>3
  <2>. QED  BY <2>2, <2>3 DEF Inv, SyncInv
<1>4. CASE rep[1].code = 220
  <2>. DEFINE d == [cli EXCEPT !.ext = NoTable, !.pc = "handshake"]
  <2>1. Is(d, cli.state, cli.base, cli.tls, cli.raw, NoTable, cli.era, cli.op, "handshake")
    <3>1. cli \in Clients
      BY <1>1
    <3>. QED  BY Zenon, <3>1, NoTableTyped DEF Is, Clients, Steps
  <2>2. cli' = d
    BY <1>4 DEF HandleStartTLS, startTLSClears
  <2>. HIDE DEF d
  <2>3. Is(cli', cli.state, cli.base, cli.tls, cli.raw, NoTable, cli.era, cli.op, "handshake")
    BY <2>1, <2>2
  <2>4. Types'
    BY <1>1, <2>3 DEF Inv, Types, Is
  <2>5. ForeignInv'
    BY <1>1, <2>3 DEF ForeignInv, Is, NoTable
  <2>6. RawInv'
    BY <1>1, <2>3 DEF Inv, RawInv, Is
  <2>7. TransportInv'
    BY <1>1, <2>3 DEF Inv, TransportInv, Is, Bare
  <2>8. PolicyInv'
    BY <1>1, PolicyStays DEF Inv
  <2>9. SyncInv'
    <3>. SUFFICES ASSUME ~cfg.foreign PROVE SyncInv'
      BY <1>1 DEF SyncInv
    <3>1. InHandshake'
      BY <1>1, <1>2, <2>3 DEF InHandshake, Silent, Is
    <3>2. ~wrongMode(hello.verb)'
      BY <1>1, <1>2 DEF wrongMode, hello
    <3>. QED  BY <1>1, <1>2, <2>3, <3>1, <3>2 DEF SyncInv, OneCommand, Is
  <2>. QED  BY <2>4, <2>5, <2>6, <2>7, <2>8, <2>9 DEF Inv
<1>. QED  BY <1>3, <1>4

\* The reply that ends AUTH preserves the invariant: after 235 the table is
\* stale until the EHLO that follows.
LEMMA AUTHKeeps ==
    ASSUME Inv, ReadReply, HandleAuth(rep[1])
    PROVE  Inv'
<1>1. /\ UNCHANGED <<cfg, srv, req>> /\ rep # <<>> /\ rep' = <<>> /\ cli.raw
      /\ cli.state # "closed" /\ cli.base # "closed"
      /\ cli \in Clients /\ cli.pc = "auth" /\ cli.pc \in Pending /\ FALSE \in BOOLEAN
      /\ cli.ext # NoTable => cli.era = cli.tls
      /\ cfg.foreign => cli.ext.mailmax = 0
  BY DEF Inv, Types, RawInv, TransportInv, ForeignInv, ReadReply, HandleAuth, Pending
<1>2. ~cfg.foreign =>
        /\ req = <<>> /\ srv.at # "new" /\ srv.phase = "ready" /\ cli.op = "auth"
        /\ cli.state \in {"greeted", "tls"} /\ ~wrongMode(hello.verb)
        /\ \/ rep[1].code = 235 /\ srv.authed
           \/ rep[1].code # 235 /\ Offered /\ ~srv.authed
  BY <1>1 DEF Inv, SyncInv, InAuth, Sent, Said
<1>3. wrongMode(hello.verb)' <=> wrongMode(hello.verb)
  BY <1>1 DEF wrongMode, hello
<1>4. CASE rep[1].code # 235
  <2>1. cli' = returns(cli, FALSE)
    BY <1>4 DEF HandleAuth
  <2>2. (Types /\ RawInv /\ TransportInv /\ ForeignInv /\ PolicyInv)'
    BY Zenon, <1>1, <2>1, EndKeepsRest DEF Inv
  <2>3. SyncInv'
    <3>. SUFFICES ASSUME ~cfg.foreign PROVE SyncInv'
      BY <1>1 DEF SyncInv
    <3>1. Is(cli', cli.state, cli.base, cli.tls, cli.raw, cli.ext, cli.era, cli.op, "idle")
      BY Zenon, <1>1, <1>2, <2>1, ReturnsIs
    <3>2. Silent' /\ Offered'
      BY <1>1, <1>2, <1>4, <3>1 DEF Silent, Offered, Is
    <3>3. Login' /\ Transaction'
      BY <1>1, <1>2, <1>4, <3>1 DEF Login, Transaction, Basis, Is, Inv, Types, Servers
    <3>4. AtRest'
      BY <1>2, <1>3, <3>2, <3>3 DEF AtRest
    <3>. QED  BY <1>1, <1>2, <1>3, <3>1, <3>4 DEF SyncInv, OneCommand, Is
  <2>. QED  BY <2>2, <2>3 DEF Inv
<1>5. CASE rep[1].code = 235
  <2>. DEFINE d == [cli EXCEPT !.state = "authenticated", !.pc = "hello"]
  <2>1. Is(d, "authenticated", cli.base, cli.tls, cli.raw, cli.ext, cli.era, cli.op, "hello")
    <3>1. cli \in Clients
      BY <1>1
    <3>. QED  BY Zenon, <3>1 DEF Is, Clients, Steps, States
  <2>2. cli' = d
    BY <1>1, <1>5 DEF HandleAuth
  <2>. HIDE DEF d
  <2>3. Is(cli', "authenticated", cli.base, cli.tls, cli.raw, cli.ext, cli.era, cli.op, "hello")
    BY <2>1, <2>2
  <2>4. Types' /\ ForeignInv'
    BY <1>1, <2>3 DEF Inv, Types, ForeignInv, Is
  <2>5. RawInv'
    BY <1>1, <2>3 DEF Inv, RawInv, Is
  <2>6. TransportInv'
    BY <1>1, <2>3 DEF Inv, TransportInv, Is, Bare
  <2>7. PolicyInv'
    BY <1>1, PolicyStays DEF Inv
  <2>8. SyncInv'
    <3>. SUFFICES ASSUME ~cfg.foreign PROVE SyncInv'
      BY <1>1 DEF SyncInv
    <3>1. Silent'
      BY <1>1, <1>2 DEF Silent
    <3>2. InHello'
      BY <1>1, <1>2, <1>5, <2>3 DEF InHello, Login, Transaction, Basis, Is, Inv, Types, Servers
    <3>. QED  BY <1>1, <1>2, <1>3, <2>3, <3>1, <3>2 DEF SyncInv, OneCommand, Is
  <2>. QED  BY <2>4, <2>5, <2>6, <2>7, <2>8 DEF Inv
<1>. QED  BY <1>4, <1>5

\* The reply to MAIL preserves the invariant: both ends open the transaction.
LEMMA MAILKeeps ==
    ASSUME Inv, ReadReply, HandleMail(rep[1]), rep[1].code # 421
    PROVE  Inv'
<1>1. /\ UNCHANGED <<cfg, srv, req>> /\ rep # <<>> /\ rep' = <<>> /\ cli.raw
      /\ cli.state # "closed" /\ cli.base # "closed"
      /\ cli \in Clients /\ cli.pc = "mail" /\ cli.pc \in Pending
      /\ cli.ext # NoTable => cli.era = cli.tls
      /\ cfg.foreign => cli.ext.mailmax = 0
  BY DEF Inv, Types, RawInv, TransportInv, ForeignInv, ReadReply, HandleMail, Pending
<1>2. ~cfg.foreign =>
        /\ req = <<>> /\ srv.at # "new" /\ cli.op = "mail" /\ cli.state # "transaction"
        /\ Offered /\ Login /\ ~wrongMode(hello.verb)
        /\ \/ rep[1].code = 250 /\ srv.phase = "mail"
           \/ rep[1].code # 250 /\ srv.phase = "ready"
  BY <1>1 DEF Inv, SyncInv, InMail, Sent, Said
<1>3. wrongMode(hello.verb)' <=> wrongMode(hello.verb)
  BY <1>1 DEF wrongMode, hello
<1>. DEFINE ok == rep[1].code = 250
            c == IF ~ok THEN cli ELSE [cli EXCEPT !.base = cli.state, !.state = "transaction"]
<1>4. Is(c, IF ok THEN "transaction" ELSE cli.state, IF ok THEN cli.state ELSE cli.base, cli.tls, cli.raw,
         cli.ext, cli.era, cli.op, cli.pc)
  <2>1. cli \in Clients
    BY <1>1
  <2>2. CASE ok
    <3>. DEFINE b == [cli EXCEPT !.base = cli.state]
                d == [b EXCEPT !.state = "transaction"]
    <3>1. Is(b, cli.state, cli.state, cli.tls, cli.raw, cli.ext, cli.era, cli.op, cli.pc)
      BY <2>1 DEF Is, Clients
    <3>2. c = d
      BY <2>2
    <3>. HIDE DEF b
    <3>3. Is(d, "transaction", b.base, b.tls, b.raw, b.ext, b.era, b.op, b.pc)
      BY <3>1 DEF Is, Clients, States
    <3>. HIDE DEF d
    <3>4. Is(d, "transaction", cli.state, cli.tls, cli.raw, cli.ext, cli.era, cli.op, cli.pc)
      BY <3>1, <3>3 DEF Is
    <3>. QED  BY <2>2, <3>2, <3>4
  <2>3. CASE ~ok
    BY <2>1, <2>3 DEF Is
  <2>. QED  BY <2>2, <2>3
<1>5. cli' = returns(c, ok) /\ ok \in BOOLEAN
  BY <1>1 DEF HandleMail
<1>. HIDE DEF c
<1>6. (Types /\ RawInv /\ TransportInv /\ ForeignInv /\ PolicyInv)'
  <2>1. /\ c \in Clients /\ c.state # "closed" /\ c.base # "closed" /\ c.raw /\ c.tls = cli.tls /\ c.op = cli.op
        /\ c.ext # NoTable => c.era = c.tls
        /\ cfg.foreign => c.ext.mailmax = 0
    BY <1>1, <1>4 DEF Is
  <2>. QED  BY Zenon, <1>1, <1>5, <2>1, EndKeepsRest DEF Inv
<1>7. SyncInv'
  <2>. SUFFICES ASSUME ~cfg.foreign PROVE SyncInv'
    BY <1>1 DEF SyncInv
  <2>1. c \in Clients /\ c.op # "dial"
    BY <1>2, <1>4 DEF Is
  <2>2. Is(cli', c.state, c.base, c.tls, c.raw, c.ext, c.era, c.op, "idle")
    <3>. HIDE DEF ok
    <3>. QED  BY Zenon, <1>5, <2>1, ReturnsIs
  <2>3. Is(cli', IF ok THEN "transaction" ELSE cli.state, IF ok THEN cli.state ELSE cli.base, cli.tls,
           cli.raw, cli.ext, cli.era, cli.op, "idle")
    BY <1>4, <2>2 DEF Is
  <2>4. Silent' /\ Offered'
    BY <1>1, <1>2, <2>3 DEF Silent, Offered, Is
  <2>5. Login' /\ Transaction'
    BY <1>1, <1>2, <2>3 DEF Login, Transaction, Basis, Is
  <2>6. AtRest'
    BY <1>2, <1>3, <2>4, <2>5 DEF AtRest
  <2>. QED  BY <1>1, <1>2, <1>3, <2>3, <2>6 DEF SyncInv, OneCommand, Is
<1>. QED  BY <1>6, <1>7 DEF Inv

\* The reply to RSET preserves the invariant: both ends end the transaction.
LEMMA RSETKeeps ==
    ASSUME Inv, ReadReply, HandleReset(rep[1])
    PROVE  Inv'
<1>1. /\ UNCHANGED <<cfg, srv, req>> /\ rep # <<>> /\ rep' = <<>> /\ cli.raw
      /\ cli.state # "closed" /\ cli.base # "closed"
      /\ cli \in Clients /\ cli.pc = "rset" /\ cli.pc \in Pending
      /\ cli.ext # NoTable => cli.era = cli.tls
      /\ cfg.foreign => cli.ext.mailmax = 0
  BY DEF Inv, Types, RawInv, TransportInv, ForeignInv, ReadReply, HandleReset, Pending
<1>2. ~cfg.foreign =>
        /\ req = <<>> /\ srv.at # "new" /\ cli.op = "rset"
        /\ Offered /\ Login /\ ~wrongMode(hello.verb)
        /\ rep[1].code = 250 /\ srv.phase = "ready"
  BY <1>1 DEF Inv, SyncInv, InReset, Sent, Said
<1>3. wrongMode(hello.verb)' <=> wrongMode(hello.verb)
  BY <1>1 DEF wrongMode, hello
<1>. DEFINE ok == rep[1].code = 250
            undo == ok /\ cli.state = "transaction"
            c == IF undo THEN [cli EXCEPT !.state = cli.base] ELSE cli
<1>4. Is(c, IF undo THEN cli.base ELSE cli.state, cli.base, cli.tls, cli.raw, cli.ext, cli.era, cli.op, cli.pc)
  <2>1. cli \in Clients
    BY <1>1
  <2>. QED  BY <2>1 DEF Is, Clients, States
<1>5. cli' = returns(c, ok) /\ ok \in BOOLEAN
  BY DEF HandleReset
<1>. HIDE DEF c
<1>6. (Types /\ RawInv /\ TransportInv /\ ForeignInv /\ PolicyInv)'
  <2>1. /\ c \in Clients /\ c.state # "closed" /\ c.base # "closed" /\ c.raw /\ c.tls = cli.tls /\ c.op = cli.op
        /\ c.ext # NoTable => c.era = c.tls
        /\ cfg.foreign => c.ext.mailmax = 0
    BY <1>1, <1>4 DEF Is
  <2>. QED  BY Zenon, <1>1, <1>5, <2>1, EndKeepsRest DEF Inv
<1>7. SyncInv'
  <2>. SUFFICES ASSUME ~cfg.foreign PROVE SyncInv'
    BY <1>1 DEF SyncInv
  <2>1. c \in Clients /\ c.op # "dial"
    BY <1>2, <1>4 DEF Is
  <2>2. Is(cli', c.state, c.base, c.tls, c.raw, c.ext, c.era, c.op, "idle")
    <3>. HIDE DEF ok
    <3>. QED  BY Zenon, <1>5, <2>1, ReturnsIs
  <2>3. Is(cli', IF undo THEN cli.base ELSE cli.state, cli.base, cli.tls, cli.raw, cli.ext, cli.era, cli.op,
           "idle")
    BY <1>4, <2>2 DEF Is
  <2>4. Silent' /\ Offered'
    BY <1>1, <1>2, <2>3 DEF Silent, Offered, Is
  <2>5. Login' /\ Transaction'
    BY <1>1, <1>2, <2>3 DEF Login, Transaction, Basis, Is
  <2>6. AtRest'
    BY <1>2, <1>3, <2>4, <2>5 DEF AtRest
  <2>. QED  BY <1>1, <1>2, <1>3, <2>3, <2>6 DEF SyncInv, OneCommand, Is
<1>. QED  BY <1>6, <1>7 DEF Inv

\* Every reply preserves the invariant, a 421 by poisoning.
LEMMA ReadReplyKeeps ==
    ASSUME Inv, ReadReply
    PROVE  Inv'
<1>1. Head(rep) = rep[1] /\ UNCHANGED <<cfg, srv>> /\ rep' = <<>>
  BY DEF Inv, Types, ReadReply
<1>2. CASE rep[1].code = 421
  BY Zenon, <1>1, <1>2, LostKeeps DEF ReadReply
<1>3. CASE rep[1].code # 421
  <2>1. \/ HandleGreeting(rep[1]) \/ HandleEHLO(rep[1]) \/ HandleHELO(rep[1]) \/ HandleStartTLS(rep[1])
        \/ HandleAuth(rep[1]) \/ HandleMail(rep[1]) \/ HandleReset(rep[1])
    BY Zenon, <1>1, <1>3 DEF ReadReply
  <2>. QED  BY <1>3, <2>1, GreetingKeeps, EHLOKeeps, HELOKeeps, STARTTLSKeeps, AUTHKeeps, MAILKeeps, RSETKeeps
<1>. QED  BY <1>2, <1>3

\* The fields of a server.
Sv(s, at, phase, tls, cert, authed, extended, attempts) ==
    /\ s \in Servers
    /\ s.at = at /\ s.phase = phase /\ s.tls = tls /\ s.cert = cert
    /\ s.authed = authed /\ s.extended = extended /\ s.attempts = attempts

\* capabilities returns a table whose MAILMAX is the limit that execute counts
\* against.
LEMMA CapabilitiesTyped ==
    ASSUME NEW c \in Configs, NEW s \in Servers
    PROVE  /\ capabilities(c, s) \in Tables
           /\ capabilities(c, s).mailmax > 0 => capabilities(c, s).mailmax = maxTransactions(c)
<1>1. maxTransactions(c) \in Int
  BY ConfigsAssumption DEF maxTransactions
<1>2. authMechanisms(c, s) \subseteq Mechanisms
  BY DEF authMechanisms, availableAuthMechanisms, Mechanisms
<1>3. {k \in c.exts : k = "FUTURERELEASE" => ~c.lmtp} \subseteq Words
  BY DEF Words
<1>4. frameworkCapabilities \subseteq Words
  BY DEF Words
<1>5. capabilities(c, s).kw \subseteq Words
  BY <1>3, <1>4 DEF capabilities, frameworkCapabilities
<1>. QED  BY <1>1, <1>2, <1>5 DEF capabilities, Tables

\* The fields of a plain reply.
LEMMA ReplyIs ==
    ASSUME srv \in Servers, NEW n \in Nat
    PROVE  /\ reply(n) \in Replies
           /\ reply(n).code = n /\ ~reply(n).bad /\ ~reply(n).limit
           /\ reply(n).ext = NoTable /\ reply(n).tls = srv.tls
  BY NoTableTyped DEF reply, Replies, Servers

\* What a plain answer puts under way.
LEMMA SaysIs ==
    ASSUME srv \in Servers, NEW n \in Nat, Says(n)
    PROVE  /\ rep' = <<rep'[1]>> /\ rep' # <<>> /\ rep'[1] \in Replies
           /\ rep'[1].code = n /\ ~rep'[1].limit /\ rep'[1].tls = srv.tls
           /\ rep'[1].ext = NoTable
  BY ReplyIs DEF Says

\* The mechanisms depend on the transport only, and on whether EHLO was taken.
LEMMA SameMechanisms ==
    ASSUME NEW s \in Servers, NEW t \in Servers, s.tls = t.tls, s.cert = t.cert
    PROVE  /\ authReachable(cfg, s) = authReachable(cfg, t)
           /\ s.extended = t.extended => authMechanisms(cfg, s) = authMechanisms(cfg, t)
           /\ s.extended = t.extended /\ s.authed = t.authed => capabilities(cfg, s) = capabilities(cfg, t)
<1>1. authReachable(cfg, s) = authReachable(cfg, t)
  BY DEF authReachable
<1>2. s.extended = t.extended => authMechanisms(cfg, s) = authMechanisms(cfg, t)
  BY DEF authMechanisms
<1>3. s.extended = t.extended /\ s.authed = t.authed => capabilities(cfg, s) = capabilities(cfg, t)
  BY <1>2 DEF capabilities
<1>. QED  BY <1>1, <1>2, <1>3

\* What any answer of the server leaves.
Answered ==
    /\ srv' \in Servers /\ srv'.tls = srv.tls /\ srv'.cert = srv.cert
    /\ srv'.at \in {"loop", "closed", "handshake"}
    /\ rep' = <<rep'[1]>> /\ rep' # <<>> /\ rep'[1] \in Replies /\ rep'[1].tls = srv.tls
    /\ \/ srv'.extended = srv.extended /\ (srv.authed => srv'.authed)
       \/ srv'.at # "loop"
       \/ ~(cfg.requireAuth /\ srv'.tls /\ ~srv'.authed /\ authMechanisms(cfg, srv') = {})

\* An answer leaves the transport, the client and a policy that can be met.
LEMMA AnswerKeepsRest ==
    ASSUME Types, RawInv, TransportInv, ForeignInv, PolicyInv, ~cfg.foreign, UNCHANGED <<cfg, cli>>,
           srv.at = "loop", Answered
    PROVE  (Types /\ RawInv /\ TransportInv /\ ForeignInv /\ PolicyInv)'
<1>1. Types'
  BY DEF Types, Answered
<1>2. RawInv'
  BY DEF RawInv
<1>3. TransportInv'
  BY DEF TransportInv, Answered
<1>4. ForeignInv'
  BY DEF ForeignInv
<1>5. PolicyInv'
  <2>1. srv \in Servers /\ srv' \in Servers /\ srv'.tls = srv.tls /\ srv'.cert = srv.cert /\ srv'.at # "new"
    BY DEF Types, Answered
  <2>2. /\ authReachable(cfg, srv') = authReachable(cfg, srv)
        /\ srv'.extended = srv.extended => authMechanisms(cfg, srv') = authMechanisms(cfg, srv)
    BY <2>1, SameMechanisms
  <2>3. Met'
    BY <2>1, <2>2 DEF PolicyInv, Met
  <2>. QED  BY <2>1, <2>2, <2>3 DEF PolicyInv, Answered
<1>. QED  BY <1>1, <1>2, <1>3, <1>4, <1>5

\* handleHello answers with the table of the session as it leaves it, or ends
\* a session that could not log in.
LEMMA HelloAnswers ==
    ASSUME Types, NEW v \in {"EHLO", "HELO", "LHLO"}, handleHello(v), srv.at = "loop"
    PROVE  /\ Answered
           /\ srv'.phase = "ready" /\ srv'.authed = srv.authed /\ srv'.at # "handshake"
           /\ srv'.extended = (v # "HELO")
           /\ \/ rep'[1].code = 421
              \/ /\ rep'[1].code = 250 /\ ~rep'[1].bad
                 /\ v # "HELO" => rep'[1].ext = capabilities(cfg, srv')
<1>. DEFINE s == [srv EXCEPT !.phase = "ready", !.extended = (v # "HELO")]
            z == [s EXCEPT !.at = "closed"]
<1>1. srv \in Servers /\ cfg \in Configs
  BY DEF Types
<1>2. Sv(s, srv.at, "ready", srv.tls, srv.cert, srv.authed, v # "HELO", srv.attempts)
  BY Zenon, <1>1 DEF Sv, Servers
<1>3. \/ /\ Says(421) /\ srv' = z
      \/ /\ ~(cfg.requireAuth /\ s.tls /\ ~s.authed /\ authMechanisms(cfg, s) = {})
         /\ srv' = s
         /\ rep' = <<[reply(250) EXCEPT !.ext = IF s.extended THEN capabilities(cfg, s) ELSE NoTable]>>
  BY DEF handleHello
<1>. HIDE DEF s
<1>4. CASE Says(421) /\ srv' = z
  <2>1. Sv(z, "closed", s.phase, s.tls, s.cert, s.authed, s.extended, s.attempts)
    BY <1>2 DEF Sv, Servers
  <2>2. /\ rep' = <<rep'[1]>> /\ rep' # <<>> /\ rep'[1] \in Replies
        /\ rep'[1].code = 421 /\ rep'[1].tls = srv.tls
    BY <1>1, <1>4, SaysIs
  <2>. HIDE DEF z
  <2>. QED  BY <1>2, <1>4, <2>1, <2>2 DEF Answered, Sv
<1>5. CASE /\ ~(cfg.requireAuth /\ s.tls /\ ~s.authed /\ authMechanisms(cfg, s) = {})
           /\ srv' = s
           /\ rep' = <<[reply(250) EXCEPT !.ext = IF s.extended THEN capabilities(cfg, s) ELSE NoTable]>>
  <2>. DEFINE x == IF s.extended THEN capabilities(cfg, s) ELSE NoTable
              r == [reply(250) EXCEPT !.ext = x]
  <2>1. s \in Servers /\ s.extended = (v # "HELO")
    BY <1>2 DEF Sv
  <2>2. x \in Tables
    BY <1>1, <2>1, CapabilitiesTyped, NoTableTyped
  <2>3. v # "HELO" => x = capabilities(cfg, s)
    BY Zenon, <2>1
  <2>. HIDE DEF x
  <2>4. reply(250) \in Replies /\ reply(250).code = 250 /\ ~reply(250).bad /\ reply(250).tls = srv.tls
    BY <1>1, ReplyIs
  <2>5. r \in Replies /\ r.code = 250 /\ ~r.bad /\ r.tls = srv.tls /\ r.ext = x
    BY <2>2, <2>4 DEF Replies
  <2>6. rep' = <<r>>
    BY <1>5 DEF x
  <2>. HIDE DEF r
  <2>7. rep' = <<rep'[1]>> /\ rep' # <<>> /\ rep'[1] = r
    BY <2>6
  <2>. QED  BY <1>2, <1>5, <2>3, <2>5, <2>7 DEF Answered, Sv
<1>. QED  BY <1>3, <1>4, <1>5

\* A refusal leaves the server as it was.
LEMMA RefusalAnswers ==
    ASSUME Types, srv.at = "loop", NEW n \in Nat, Says(n), UNCHANGED srv
    PROVE  Answered /\ rep'[1].code = n
<1>1. srv \in Servers
  BY DEF Types
<1>2. /\ rep' = <<rep'[1]>> /\ rep' # <<>> /\ rep'[1] \in Replies
      /\ rep'[1].code = n /\ rep'[1].tls = srv.tls
  BY <1>1, SaysIs
<1>. QED  BY <1>1, <1>2 DEF Answered

\* handleSTARTTLS takes what it has offered.
LEMMA StartTLSAnswers ==
    ASSUME Types, srv.at = "loop", handleSTARTTLS
    PROVE  /\ Answered
           /\ srv.extended /\ cfg.tls =>
                /\ rep'[1].code = 220 /\ srv'.phase = srv.phase /\ srv'.authed = srv.authed
                /\ srv'.extended = srv.extended
<1>1. srv \in Servers /\ 502 \in Nat /\ 220 \in Nat
  BY DEF Types
<1>2. CASE ~srv.extended \/ ~cfg.tls
  BY <1>1, <1>2, RefusalAnswers DEF handleSTARTTLS
<1>3. CASE ~(~srv.extended \/ ~cfg.tls)
  <2>. DEFINE z == [srv EXCEPT !.at = "handshake"]
  <2>1. Sv(z, "handshake", srv.phase, srv.tls, srv.cert, srv.authed, srv.extended, srv.attempts)
    BY <1>1 DEF Sv, Servers
  <2>2. Says(220) /\ srv' = z
    BY <1>3 DEF handleSTARTTLS
  <2>3. /\ rep' = <<rep'[1]>> /\ rep' # <<>> /\ rep'[1] \in Replies
        /\ rep'[1].code = 220 /\ rep'[1].tls = srv.tls
    BY <1>1, <2>2, SaysIs
  <2>. HIDE DEF z
  <2>. QED  BY <2>1, <2>2, <2>3 DEF Answered, Sv
<1>. QED  BY <1>2, <1>3

\* handleAUTH takes a mechanism that it has offered.
LEMMA AuthAnswers ==
    ASSUME Types, srv.at = "loop", NEW m, handleAUTH(m)
    PROVE  /\ Answered
           /\ m \in authMechanisms(cfg, srv) =>
                /\ srv'.phase = srv.phase /\ srv'.extended = srv.extended /\ srv'.at = srv.at
                /\ \/ rep'[1].code = 235 /\ srv'.authed
                   \/ rep'[1].code \in {454, 535} /\ srv' = srv
<1>1. srv \in Servers /\ 504 \in Nat /\ 235 \in Nat /\ 454 \in Nat /\ 535 \in Nat
  BY DEF Types
<1>2. CASE m \notin authMechanisms(cfg, srv)
  BY <1>1, <1>2, RefusalAnswers DEF handleAUTH
<1>3. CASE m \in authMechanisms(cfg, srv) /\ Says(235) /\ srv' = [srv EXCEPT !.authed = TRUE]
  <2>. DEFINE z == [srv EXCEPT !.authed = TRUE]
  <2>1. Sv(z, srv.at, srv.phase, srv.tls, srv.cert, TRUE, srv.extended, srv.attempts)
    BY Zenon, <1>1 DEF Sv, Servers
  <2>2. /\ rep' = <<rep'[1]>> /\ rep' # <<>> /\ rep'[1] \in Replies
        /\ rep'[1].code = 235 /\ rep'[1].tls = srv.tls
    BY <1>1, <1>3, SaysIs
  <2>3. srv' = z
    BY <1>3
  <2>. HIDE DEF z
  <2>. QED  BY <2>1, <2>2, <2>3 DEF Answered, Sv
<1>4. ASSUME m \in authMechanisms(cfg, srv), NEW n \in {454, 535}, Says(n), UNCHANGED srv
      PROVE  Answered /\ rep'[1].code = n /\ srv' = srv
  BY <1>1, <1>4, RefusalAnswers
<1>. QED  BY <1>2, <1>3, <1>4 DEF handleAUTH

\* handleRSET ends the transaction and keeps the login and the table.
LEMMA ResetAnswers ==
    ASSUME Types, srv.at = "loop", handleRSET
    PROVE  /\ Answered /\ rep'[1].code = 250 /\ srv'.phase = "ready" /\ srv'.at = srv.at
           /\ srv'.authed = srv.authed /\ srv'.extended = srv.extended
<1>1. srv \in Servers /\ 250 \in Nat
  BY DEF Types
<1>. DEFINE z == [srv EXCEPT !.phase = "ready"]
<1>2. Sv(z, srv.at, "ready", srv.tls, srv.cert, srv.authed, srv.extended, srv.attempts)
  BY <1>1 DEF Sv, Servers
<1>3. srv' = z /\ Says(250)
  BY DEF handleRSET
<1>4. /\ rep' = <<rep'[1]>> /\ rep' # <<>> /\ rep'[1] \in Replies
      /\ rep'[1].code = 250 /\ rep'[1].tls = srv.tls
  BY <1>1, <1>3, SaysIs
<1>. HIDE DEF z
<1>. QED  BY <1>2, <1>3, <1>4 DEF Answered, Sv

\* The table means to the handlers what it means to the encoders: a parameter
\* whose extension is in the table passes the tests of mailParameterFeatures.
LEMMA OfferedIsTaken ==
    ASSUME NEW s \in Servers, validateExtensionSession(cfg), s.extended,
           NEW p \in Parameters, parameterExtension(p) \subseteq capabilities(cfg, s).kw
    PROVE  mailParameterFeatures(cfg, s, p)
<1>. DEFINE kw == capabilities(cfg, s).kw
<1>1. /\ cfg.exts \intersect frameworkCapabilities = {}
  BY DEF validateExtensionSession
<1>2. "BINARYMIME" \in kw => cfg.chunking /\ cfg.binary
  BY <1>1 DEF capabilities, frameworkCapabilities
<1>3. "AUTH" \in kw => authMechanisms(cfg, s) # {}
  BY <1>1 DEF capabilities, frameworkCapabilities
<1>4. /\ "DSN" \in kw => "DSN" \in cfg.exts
      /\ "MTRK" \in kw => "MTRK" \in cfg.exts
      /\ "REQUIRETLS" \in kw => "REQUIRETLS" \in cfg.exts
      /\ "FUTURERELEASE" \in kw => "FUTURERELEASE" \in cfg.exts /\ ~cfg.lmtp
  BY DEF capabilities
<1>5. parameterExtension(p) \subseteq kw
  OBVIOUS
<1>. HIDE DEF kw
<1>6. CASE p \in {"none", "SIZE", "7BIT", "8BITMIME", "SMTPUTF8"}
  BY Zenon, <1>6 DEF mailParameterFeatures
<1>7. CASE p = "BINARYMIME"
  BY <1>2, <1>5, <1>7 DEF mailParameterFeatures, parameterExtension
<1>8. CASE p = "AUTH"
  BY <1>3, <1>5, <1>8 DEF mailParameterFeatures, parameterExtension
<1>9. CASE p = "RET"
  BY <1>4, <1>5, <1>9 DEF mailParameterFeatures, parameterExtension
<1>10. CASE p = "MTRK"
  BY <1>4, <1>5, <1>10 DEF mailParameterFeatures, parameterExtension
<1>11. CASE p = "HOLDFOR"
  BY <1>4, <1>5, <1>11 DEF mailParameterFeatures, parameterExtension
<1>12. CASE p = "REQUIRETLS"
  BY <1>4, <1>5, <1>12 DEF mailParameterFeatures, parameterExtension
<1>. QED  BY <1>6, <1>7, <1>8, <1>9, <1>10, <1>11, <1>12 DEF Parameters

\* MAIL is answered with the limit exactly when the attempt is past it, and a
\* MAIL the table allows is taken, or refused by policy or by the backend.
LEMMA MailAnswers ==
    ASSUME Types, srv.at = "loop", NEW p, handleMail(p)
    PROVE  /\ Answered
           /\ srv'.authed = srv.authed /\ srv'.extended = srv.extended /\ srv'.at # "handshake"
           /\ rep'[1].limit <=> srv'.attempts > maxTransactions(cfg)
           /\ srv.phase = "ready" /\ srv.extended /\ validateExtensionSession(cfg) /\ p \in Parameters
                /\ parameterExtension(p) \subseteq capabilities(cfg, srv).kw =>
                \/ rep'[1].code = 250 /\ srv'.phase = "mail"
                \/ rep'[1].code \in {421, 451, 530} /\ srv'.phase = "ready"
<1>. DEFINE s == [srv EXCEPT !.attempts = @ + 1]
            over == s.attempts > maxTransactions(cfg)
            fit == srv.phase = "ready" /\ srv.extended /\ validateExtensionSession(cfg) /\ p \in Parameters
                     /\ parameterExtension(p) \subseteq capabilities(cfg, srv).kw
<1>1. srv \in Servers /\ cfg \in Configs /\ maxTransactions(cfg) \in Int
  BY ConfigsAssumption DEF Types, maxTransactions
<1>2. Sv(s, "loop", srv.phase, srv.tls, srv.cert, srv.authed, srv.extended, srv.attempts + 1)
  BY <1>1 DEF Sv, Servers
<1>3. \/ /\ over
         /\ rep' = <<[reply(421) EXCEPT !.limit = TRUE]>> /\ srv' = [s EXCEPT !.at = "closed"]
      \/ /\ ~over
         /\ \/ s.phase \notin {"ready", "mail"} /\ Says(503) /\ srv' = s
            \/ Says(530) /\ srv' = s
            \/ ((~s.extended /\ p # "none") \/ ~mailParameterFeatures(cfg, s, p)) /\ Says(501) /\ srv' = s
            \/ Says(250) /\ srv' = [s EXCEPT !.phase = "mail"]
            \/ Says(451) /\ srv' = [s EXCEPT !.phase = "ready"]
  BY DEF handleMail
<1>. HIDE DEF s
<1>4. s \in Servers
  BY <1>2 DEF Sv
<1>5. CASE over /\ rep' = <<[reply(421) EXCEPT !.limit = TRUE]>> /\ srv' = [s EXCEPT !.at = "closed"]
  <2>. DEFINE z == [s EXCEPT !.at = "closed"]
              r == [reply(421) EXCEPT !.limit = TRUE]
  <2>1. Sv(z, "closed", s.phase, s.tls, s.cert, s.authed, s.extended, s.attempts)
    BY <1>4 DEF Sv, Servers
  <2>2. reply(421) \in Replies /\ reply(421).code = 421 /\ reply(421).tls = srv.tls
    BY <1>1, ReplyIs
  <2>3. r \in Replies /\ r.code = 421 /\ r.tls = srv.tls /\ r.limit
    BY Zenon, <2>2 DEF Replies
  <2>4. srv' = z /\ rep' = <<r>>
    BY <1>5
  <2>. HIDE DEF z, r
  <2>5. rep' = <<rep'[1]>> /\ rep' # <<>> /\ rep'[1] = r
    BY <2>4
  <2>6. srv'.attempts = s.attempts
    BY <2>1, <2>4 DEF Sv
  <2>7. srv'.attempts > maxTransactions(cfg)
    BY <1>5, <2>6
  <2>. QED  BY <1>2, <2>1, <2>3, <2>4, <2>5, <2>7 DEF Answered, Sv
<1>6. ASSUME NEW n \in {503, 530, 501, 250, 451}, NEW ph \in {"ready", "mail", s.phase},
             ~over, Says(n), srv' = [s EXCEPT !.phase = ph]
      PROVE  /\ Answered
             /\ srv'.authed = srv.authed /\ srv'.extended = srv.extended /\ srv'.at # "handshake"
             /\ rep'[1].limit <=> srv'.attempts > maxTransactions(cfg)
             /\ rep'[1].code = n /\ srv'.phase = ph
  <2>. DEFINE z == [s EXCEPT !.phase = ph]
  <2>1. ph \in {"connected", "ready", "mail"}
    BY <1>4 DEF Servers
  <2>2. Sv(z, s.at, ph, s.tls, s.cert, s.authed, s.extended, s.attempts)
    BY <1>4, <2>1 DEF Sv, Servers
  <2>3. /\ rep' = <<rep'[1]>> /\ rep' # <<>> /\ rep'[1] \in Replies
        /\ rep'[1].code = n /\ ~rep'[1].limit /\ rep'[1].tls = srv.tls
    <3>1. n \in Nat
      OBVIOUS
    <3>. QED  BY <1>1, <1>6, <3>1, SaysIs
  <2>4. srv' = z
    BY <1>6
  <2>. HIDE DEF z
  <2>5. srv'.attempts = s.attempts
    BY <2>2, <2>4 DEF Sv
  <2>6. ~(srv'.attempts > maxTransactions(cfg))
    BY <1>6, <2>5
  <2>. QED  BY <1>2, <2>2, <2>3, <2>4, <2>6 DEF Answered, Sv
<1>7. s = [s EXCEPT !.phase = s.phase]
  BY <1>4 DEF Servers
<1>8. fit => s.extended /\ s.phase = "ready" /\ mailParameterFeatures(cfg, s, p)
  <2>1. s.extended = srv.extended /\ s.phase = srv.phase /\ capabilities(cfg, s) = capabilities(cfg, srv)
    BY <1>1, <1>2, <1>4, SameMechanisms DEF Sv
  <2>. QED  BY Zenon, <1>4, <2>1, OfferedIsTaken
<1>. HIDE DEF over, fit
<1>9. CASE s.phase \notin {"ready", "mail"} /\ Says(503) /\ srv' = s /\ ~over
  <2>1. ~fit
    BY <1>8, <1>9
  <2>. QED  BY <1>6, <1>7, <1>9, <2>1 DEF fit
<1>10. CASE Says(530) /\ srv' = s /\ ~over
  <2>1. fit => s.phase = "ready"
    BY <1>8
  <2>. QED  BY <1>6, <1>7, <1>10, <2>1 DEF fit
<1>11. CASE /\ (~s.extended /\ p # "none") \/ ~mailParameterFeatures(cfg, s, p)
            /\ Says(501) /\ srv' = s /\ ~over
  <2>1. ~fit
    BY <1>8, <1>11
  <2>. QED  BY <1>6, <1>7, <1>11, <2>1 DEF fit
<1>12. CASE Says(250) /\ srv' = [s EXCEPT !.phase = "mail"] /\ ~over
  BY <1>6, <1>12
<1>13. CASE Says(451) /\ srv' = [s EXCEPT !.phase = "ready"] /\ ~over
  BY <1>6, <1>13
<1>. QED  BY <1>3, <1>5, <1>9, <1>10, <1>11, <1>12, <1>13

\* The branches of execute, by verb.
LEMMA ExecuteCases ==
    ASSUME Inv, execute
    PROVE  /\ srv.at = "loop" /\ ~cfg.foreign /\ req # <<>> /\ req = <<req[1]>> /\ rep = <<>>
           /\ req' = <<>> /\ UNCHANGED <<cfg, cli>> /\ req[1].verb \in Verbs
           /\ \/ req[1].verb = "MAIL" /\ handleMail(req[1].arg)
              \/ req[1].verb # "MAIL" /\ wrongMode(req[1].verb) /\ Says(500) /\ UNCHANGED srv
              \/ /\ req[1].verb # "MAIL" /\ ~wrongMode(req[1].verb) /\ wrongState(req[1].verb)
                 /\ Says(503) /\ UNCHANGED srv
              \/ /\ req[1].verb # "MAIL" /\ ~wrongMode(req[1].verb) /\ ~wrongState(req[1].verb)
                 /\ \/ req[1].verb \in {"EHLO", "HELO", "LHLO"} /\ handleHello(req[1].verb)
                    \/ req[1].verb = "STARTTLS" /\ handleSTARTTLS
                    \/ req[1].verb = "AUTH" /\ handleAUTH(req[1].arg)
                    \/ req[1].verb = "RSET" /\ handleRSET
<1>1. /\ srv.at = "loop" /\ ~cfg.foreign /\ req # <<>> /\ req = <<req[1]>> /\ rep = <<>>
      /\ req' = <<>> /\ UNCHANGED <<cfg, cli>> /\ req[1].verb \in Verbs
  BY DEF Inv, SyncInv, OneCommand, execute
<1>2. handle(req[1])
  <2>1. Head(req) = req[1]
    BY <1>1
  <2>. QED  BY <2>1 DEF execute
<1>3. \/ req[1].verb = "MAIL" /\ handleMail(req[1].arg)
      \/ req[1].verb # "MAIL" /\ wrongMode(req[1].verb) /\ Says(500) /\ UNCHANGED srv
      \/ /\ req[1].verb # "MAIL" /\ ~wrongMode(req[1].verb) /\ wrongState(req[1].verb)
         /\ Says(503) /\ UNCHANGED srv
      \/ /\ req[1].verb # "MAIL" /\ ~wrongMode(req[1].verb) /\ ~wrongState(req[1].verb)
         /\ \/ req[1].verb \in {"EHLO", "HELO", "LHLO"} /\ handleHello(req[1].verb)
            \/ req[1].verb = "STARTTLS" /\ handleSTARTTLS
            \/ req[1].verb = "AUTH" /\ handleAUTH(req[1].arg)
            \/ req[1].verb = "RSET" /\ handleRSET
  <2>1. CASE req[1].verb = "MAIL"
    BY <1>2, <2>1 DEF handle
  <2>2. CASE req[1].verb # "MAIL" /\ wrongMode(req[1].verb)
    BY <1>2, <2>2 DEF handle
  <2>3. CASE req[1].verb # "MAIL" /\ ~wrongMode(req[1].verb) /\ wrongState(req[1].verb)
    BY <1>2, <2>3 DEF handle
  <2>4. CASE req[1].verb # "MAIL" /\ ~wrongMode(req[1].verb) /\ ~wrongState(req[1].verb)
    BY Zenon, <1>1, <1>2, <2>4 DEF handle, Verbs
  <2>. QED  BY <2>1, <2>2, <2>3, <2>4
<1>. QED  BY <1>1, <1>3

\* Each of them is an answer.
LEMMA ExecuteAnswers ==
    ASSUME Inv, execute
    PROVE  Answered
<1>1. Types /\ srv.at = "loop" /\ 500 \in Nat /\ 503 \in Nat
  BY DEF Inv, execute
<1>2. CASE handleMail(req[1].arg)
  BY <1>1, <1>2, MailAnswers
<1>3. CASE Says(500) /\ UNCHANGED srv
  BY <1>1, <1>3, RefusalAnswers
<1>4. CASE Says(503) /\ UNCHANGED srv
  BY <1>1, <1>4, RefusalAnswers
<1>5. CASE req[1].verb \in {"EHLO", "HELO", "LHLO"} /\ handleHello(req[1].verb)
  BY <1>1, <1>5, HelloAnswers
<1>6. CASE handleSTARTTLS
  BY <1>1, <1>6, StartTLSAnswers
<1>7. CASE handleAUTH(req[1].arg)
  BY <1>1, <1>7, AuthAnswers
<1>8. CASE handleRSET
  BY <1>1, <1>8, ResetAnswers
<1>. QED  BY <1>2, <1>3, <1>4, <1>5, <1>6, <1>7, <1>8, ExecuteCases

\* The answer to each command is one of those the call that waits expects.
LEMMA ExecuteInStep ==
    ASSUME Inv, execute
    PROVE  SyncInv'
<1>1. /\ srv.at = "loop" /\ ~cfg.foreign /\ req # <<>> /\ req = <<req[1]>> /\ rep = <<>>
      /\ req' = <<>> /\ UNCHANGED <<cfg, cli>> /\ req[1].verb \in Verbs
  BY ExecuteCases
<1>2. /\ srv \in Servers /\ srv' \in Servers /\ srv'.tls = srv.tls /\ srv'.cert = srv.cert
      /\ srv'.at # "new" /\ rep' # <<>> /\ Types
  BY ExecuteAnswers DEF Answered, Inv, Types
<1>3. wrongMode(hello.verb)' <=> wrongMode(hello.verb)
  BY <1>1 DEF wrongMode, hello
<1>4. cli.op # "dial" => ~wrongMode(hello.verb)
  BY <1>1 DEF Inv, SyncInv
<1>5. srv'.extended = srv.extended /\ srv'.authed = srv.authed => capabilities(cfg, srv') = capabilities(cfg, srv)
  BY <1>2, SameMechanisms
<1>6. validateExtensionSession(cfg)
  BY <1>1 DEF Inv, PolicyInv, Met
<1>7. cli.pc \in Steps
  BY <1>2 DEF Types, Clients
<1>8. cli.pc \notin {"handshake", "welcomed", "hello", "upgraded", "greeting"}
  BY <1>1 DEF Inv, SyncInv, TransportInv, InHandshake, InGreeting, Silent
<1>9. CASE cli.pc = "ehlo"
  <2>1. InEHLO /\ req[1].verb = hello.verb
    BY <1>1, <1>9 DEF Inv, SyncInv, InEHLO, Sent
  <2>2. hello.verb \in {"EHLO", "LHLO"} /\ ~wrongState(hello.verb) /\ 500 \in Nat
    BY DEF hello, wrongState
  <2>3. CASE wrongMode(hello.verb)
    <3>1. Says(500) /\ srv' = srv
      BY <2>1, <2>2, <2>3, ExecuteCases
    <3>2. rep'[1].code = 500
      BY <1>1, <1>2, <3>1, <2>2, RefusalAnswers
    <3>3. InEHLO'
      BY <1>1, <1>2, <1>3, <2>1, <2>3, <3>1, <3>2 DEF InEHLO, Sent, Said, InHello, Login, Transaction, Basis
    <3>. QED  BY <1>1, <1>3, <1>4, <1>9, <3>3 DEF SyncInv, OneCommand
  <2>4. CASE ~wrongMode(hello.verb)
    <3>1. handleHello(hello.verb)
      BY <2>1, <2>2, <2>4, ExecuteCases
    <3>2. /\ srv'.phase = "ready" /\ srv'.authed = srv.authed /\ srv'.extended
          /\ \/ rep'[1].code = 421
             \/ rep'[1].code = 250 /\ ~rep'[1].bad /\ rep'[1].ext = capabilities(cfg, srv')
      BY Zenon, <1>1, <1>2, <2>2, <3>1, HelloAnswers
    <3>3. InHello'
      BY <1>1, <1>2, <2>1, <3>2 DEF InEHLO, InHello, Login, Transaction, Basis, Servers
    <3>4. InEHLO'
      BY <1>1, <1>2, <1>3, <1>6, <2>4, <3>2, <3>3 DEF InEHLO, Sent, Said
    <3>. QED  BY <1>1, <1>3, <1>4, <1>9, <3>4 DEF SyncInv, OneCommand
  <2>. QED  BY <2>3, <2>4
<1>10. CASE cli.pc = "helo"
  <2>1. InHELO /\ req[1].verb = "HELO" /\ wrongMode("HELO") /\ 500 \in Nat
    BY <1>1, <1>10 DEF Inv, SyncInv, InHELO, Sent
  <2>2. Says(500) /\ srv' = srv
    BY <2>1, ExecuteCases
  <2>3. rep'[1].code = 500
    BY <1>1, <1>2, <2>1, <2>2, RefusalAnswers
  <2>4. wrongMode("HELO")'
    BY <1>1, <2>1 DEF wrongMode
  <2>5. InHELO'
    BY <1>1, <1>2, <2>1, <2>3, <2>4 DEF InHELO, Sent, Said
  <2>. QED  BY <1>1, <1>3, <1>4, <1>10, <2>5 DEF SyncInv, OneCommand
<1>11. CASE cli.pc = "starttls"
  <2>1. InStartTLS /\ req[1].verb = "STARTTLS"
    BY <1>1, <1>11 DEF Inv, SyncInv, InStartTLS, Sent
  <2>2. ~srv.tls /\ cfg.tls /\ srv.extended /\ srv.phase = "ready"
    BY <2>1 DEF InStartTLS, Offered, capabilities, validateExtensionSession, frameworkCapabilities
  <2>3. ~wrongMode("STARTTLS") /\ ~wrongState("STARTTLS")
    BY <2>2 DEF wrongMode, wrongState
  <2>4. handleSTARTTLS
    BY <2>1, <2>3, ExecuteCases
  <2>5. rep'[1].code = 220 /\ srv'.phase = srv.phase /\ srv'.authed = srv.authed /\ srv'.extended = srv.extended
    BY Zenon, <1>1, <1>2, <2>2, <2>4, StartTLSAnswers
  <2>6. InStartTLS'
    BY <1>1, <1>2, <1>5, <2>1, <2>5 DEF InStartTLS, Sent, Said, Offered
  <2>. QED  BY <1>1, <1>3, <1>4, <1>11, <2>6 DEF SyncInv, OneCommand
<1>12. CASE cli.pc = "auth"
  <2>1. InAuth /\ req[1].verb = "AUTH"
    BY <1>1, <1>12 DEF Inv, SyncInv, InAuth, Sent
  <2>2. Offered /\ ~srv.authed /\ srv.phase = "ready" /\ req[1].arg \in cli.ext.auth
    BY <1>1, <2>1 DEF InAuth
  <2>3. req[1].arg \in authMechanisms(cfg, srv)
    BY <2>2 DEF Offered, capabilities
  <2>4. ~wrongMode("AUTH") /\ ~wrongState("AUTH")
    BY <2>2 DEF wrongMode, wrongState
  <2>5. handleAUTH(req[1].arg)
    BY <2>1, <2>4, ExecuteCases
  <2>6. /\ srv'.phase = srv.phase /\ srv'.extended = srv.extended
        /\ \/ rep'[1].code = 235 /\ srv'.authed
           \/ rep'[1].code \in {454, 535} /\ srv' = srv
    BY <1>1, <1>2, <2>3, <2>5, AuthAnswers
  <2>7. InAuth'
    BY <1>1, <1>2, <2>1, <2>2, <2>6 DEF InAuth, Sent, Said, Offered
  <2>. QED  BY <1>1, <1>3, <1>4, <1>12, <2>7 DEF SyncInv, OneCommand
<1>13. CASE cli.pc = "mail"
  <2>1. InMail /\ req[1].verb = "MAIL"
    BY <1>1, <1>13 DEF Inv, SyncInv, InMail, Sent
  <2>2. /\ srv.phase = "ready" /\ srv.extended /\ req[1].arg \in Parameters
        /\ parameterExtension(req[1].arg) \subseteq capabilities(cfg, srv).kw
    BY <1>1, <2>1 DEF InMail, Offered
  <2>3. handleMail(req[1].arg)
    BY <2>1, ExecuteCases
  <2>4. /\ srv'.authed = srv.authed /\ srv'.extended = srv.extended
        /\ rep'[1].limit <=> srv'.attempts > maxTransactions(cfg)
        /\ \/ rep'[1].code = 250 /\ srv'.phase = "mail"
           \/ rep'[1].code \in {421, 451, 530} /\ srv'.phase = "ready"
    BY Zenon, <1>1, <1>2, <1>6, <2>2, <2>3, MailAnswers
  <2>5. Offered' /\ Login'
    BY <1>1, <1>5, <2>1, <2>4 DEF InMail, Offered, Login, Basis
  <2>6. InMail'
    BY <1>1, <1>2, <2>1, <2>4, <2>5 DEF InMail, Sent, Said
  <2>. QED  BY <1>1, <1>3, <1>4, <1>13, <2>6 DEF SyncInv, OneCommand
<1>14. CASE cli.pc = "rset"
  <2>1. InReset /\ req[1].verb = "RSET" /\ srv.phase # "connected"
    BY <1>1, <1>14 DEF Inv, SyncInv, InReset, Sent, Offered
  <2>2. ~wrongMode("RSET") /\ ~wrongState("RSET")
    BY <1>2, <2>1 DEF wrongMode, wrongState, Servers
  <2>3. handleRSET
    BY <2>1, <2>2, ExecuteCases
  <2>4. /\ rep'[1].code = 250 /\ srv'.phase = "ready"
        /\ srv'.authed = srv.authed /\ srv'.extended = srv.extended
    BY <1>1, <1>2, <2>3, ResetAnswers
  <2>5. Offered' /\ Login'
    BY <1>1, <1>5, <2>1, <2>4 DEF InReset, Offered, Login, Basis
  <2>6. InReset'
    BY <1>1, <1>2, <2>1, <2>4, <2>5 DEF InReset, Sent, Said
  <2>. QED  BY <1>1, <1>3, <1>4, <1>14, <2>6 DEF SyncInv, OneCommand
<1>15. CASE cli.pc = "idle"
  <2>1. cli.state = "closed"
    BY <1>1, <1>15 DEF Inv, SyncInv, AtRest, Silent
  <2>. QED  BY <1>1, <1>3, <1>4, <1>15, <2>1 DEF SyncInv, OneCommand
<1>16. CASE cli.pc = "failed"
  BY <1>1, <1>3, <1>4, <1>16 DEF SyncInv, OneCommand
<1>. QED  BY <1>7, <1>8, <1>9, <1>10, <1>11, <1>12, <1>13, <1>14, <1>15, <1>16 DEF Steps, Pending

\* execute preserves the invariant.
LEMMA ExecuteKeeps ==
    ASSUME Inv, execute
    PROVE  Inv'
<1>1. ~cfg.foreign /\ UNCHANGED <<cfg, cli>> /\ srv.at = "loop" /\ Answered
  BY ExecuteAnswers DEF execute
<1>2. (Types /\ RawInv /\ TransportInv /\ ForeignInv /\ PolicyInv)'
  BY <1>1, AnswerKeepsRest DEF Inv
<1>. QED  BY <1>2, ExecuteInStep DEF Inv

\* The greeting, and the refusal to greet, preserve the invariant.
LEMMA GreetKeeps ==
    ASSUME Inv, Greet
    PROVE  Inv'
<1>1. /\ srv.at = "new" /\ ~cfg.foreign /\ UNCHANGED <<cfg, cli, req>>
      /\ srv \in Servers /\ 220 \in Nat /\ 421 \in Nat
  BY DEF Inv, Types, Greet
<1>2. PICK n \in {220, 421} :
        /\ Says(n) /\ srv' = [srv EXCEPT !.at = IF n = 220 THEN "loop" ELSE "closed"]
        /\ n = 220 => validateExtensionSession(cfg) /\ (cfg.requireAuth => authReachable(cfg, srv))
  BY DEF Greet
<1>. DEFINE a == IF n = 220 THEN "loop" ELSE "closed"
            z == [srv EXCEPT !.at = a]
<1>3. Sv(z, a, srv.phase, srv.tls, srv.cert, srv.authed, srv.extended, srv.attempts)
  BY <1>1 DEF Sv, Servers
<1>4. srv' = z
  BY <1>2
<1>5. /\ rep' = <<rep'[1]>> /\ rep' # <<>> /\ rep'[1] \in Replies /\ rep'[1].tls = srv.tls
  <2>1. n \in Nat
    OBVIOUS
  <2>. QED  BY <1>1, <1>2, <2>1, SaysIs
<1>. HIDE DEF z
<1>6. Sv(srv', a, srv.phase, srv.tls, srv.cert, srv.authed, srv.extended, srv.attempts)
  BY <1>3, <1>4
<1>7. Types'
  BY <1>1, <1>5, <1>6 DEF Inv, Types, Sv
<1>8. RawInv' /\ ForeignInv'
  BY <1>1 DEF Inv, RawInv, ForeignInv
<1>9. TransportInv'
  BY <1>1, <1>5, <1>6 DEF Inv, TransportInv, Sv
<1>10. PolicyInv'
  <2>1. srv'.at = "loop" => Met'
    <3>1. srv' \in Servers /\ srv'.tls = srv.tls /\ srv'.cert = srv.cert
      BY <1>6 DEF Sv
    <3>2. authReachable(cfg, srv') = authReachable(cfg, srv)
      BY <1>1, <3>1, SameMechanisms
    <3>. QED  BY <1>1, <1>2, <1>6, <3>1, <3>2 DEF Met, Sv
  <2>2. ~srv'.extended /\ srv'.at \in {"loop", "closed"}
    BY <1>1, <1>6 DEF Sv, Inv, PolicyInv
  <2>. QED  BY <2>1, <2>2 DEF PolicyInv
<1>11. SyncInv'
  <2>1. cli.pc \notin {"handshake", "welcomed", "hello"} /\ ~(cli.pc = "upgraded" /\ cli.op = "starttls")
    BY <1>1 DEF Inv, SyncInv, InHandshake, Silent
  <2>2. cli.pc \notin {"ehlo", "helo", "starttls", "auth", "mail", "rset"}
    BY <1>1 DEF Inv, SyncInv, InEHLO, InHELO, InStartTLS, InAuth, InMail, InReset, Sent
  <2>3. ~(cli.pc = "idle" /\ cli.state # "closed")
    BY <1>1 DEF Inv, SyncInv, AtRest, Silent
  <2>4. InGreeting => InGreeting'
    BY <1>1, <1>6 DEF InGreeting, Unknown, Sv
  <2>5. wrongMode(hello.verb)' <=> wrongMode(hello.verb)
    BY <1>1 DEF wrongMode, hello
  <2>. QED  BY <1>1, <2>1, <2>2, <2>3, <2>4, <2>5 DEF Inv, SyncInv, OneCommand
<1>. QED  BY <1>7, <1>8, <1>9, <1>10, <1>11 DEF Inv

\* A handshake preserves the invariant: the server forgets what it learned in
\* the clear, and the client holds no table.
LEMMA HandshakeKeeps ==
    ASSUME Inv, Handshake
    PROVE  Inv'
<1>1. /\ cli.pc = "handshake" /\ cli.raw /\ srv.at = "handshake" /\ rep = <<>>
      /\ UNCHANGED <<cfg, req, rep>> /\ cli \in Clients /\ srv \in Servers /\ cli.op \in {"dial", "starttls"}
      /\ cli.ext = NoTable
  BY DEF Inv, Types, Handshake, TransportInv, Bare
<1>2. Is(cli', cli.state, cli.base, TRUE, cli.raw, cli.ext, cli.era, cli.op, "upgraded")
  <2>. DEFINE d == [cli EXCEPT !.tls = TRUE, !.pc = "upgraded"]
  <2>1. Is(d, cli.state, cli.base, TRUE, cli.raw, cli.ext, cli.era, cli.op, "upgraded")
    <3>1. cli \in Clients
      BY <1>1
    <3>. QED  BY Zenon, <3>1 DEF Is, Clients, Steps
  <2>2. cli' = d
    BY DEF Handshake
  <2>. HIDE DEF d
  <2>. QED  BY Zenon, <2>1, <2>2
<1>. DEFINE a == IF cfg.implicit THEN "new" ELSE "loop"
<1>3. PICK cert \in BOOLEAN :
        srv' = [srv EXCEPT !.tls = TRUE, !.cert = cert, !.authed = FALSE, !.extended = FALSE,
                           !.phase = "connected", !.at = a]
  BY Zenon DEF Handshake
<1>4. Sv(srv', a, "connected", TRUE, cert, FALSE, FALSE, srv.attempts)
  <2>. DEFINE z1 == [srv EXCEPT !.tls = TRUE, !.cert = cert]
              z2 == [z1 EXCEPT !.authed = FALSE, !.extended = FALSE]
              z3 == [z2 EXCEPT !.phase = "connected", !.at = a]
  <2>1. srv' = z3
    BY <1>3
  <2>2. Sv(z1, srv.at, srv.phase, TRUE, cert, srv.authed, srv.extended, srv.attempts)
    BY Zenon, <1>1 DEF Sv, Servers
  <2>. HIDE DEF z1
  <2>3. Sv(z2, z1.at, z1.phase, TRUE, cert, FALSE, FALSE, z1.attempts)
    BY Zenon, <2>2 DEF Sv, Servers
  <2>. HIDE DEF z2
  <2>4. Sv(z3, a, "connected", TRUE, cert, FALSE, FALSE, z2.attempts)
    BY Zenon, <2>3 DEF Sv, Servers
  <2>. HIDE DEF z3
  <2>. QED  BY <2>1, <2>2, <2>3, <2>4 DEF Sv
<1>5. Types'
  BY <1>1, <1>2, <1>4 DEF Inv, Types, Is, Sv
<1>6. RawInv' /\ ForeignInv'
  BY <1>1, <1>2 DEF Inv, RawInv, ForeignInv, Is
<1>7. TransportInv'
  BY Zenon, <1>1, <1>2, <1>4 DEF Inv, TransportInv, Is, Sv, Bare
<1>8. PolicyInv'
  <2>. SUFFICES ASSUME ~cfg.foreign PROVE PolicyInv'
    BY <1>1 DEF PolicyInv
  <2>1. ~cfg.implicit => validateExtensionSession(cfg)
    BY <1>1 DEF Inv, PolicyInv, Met
  <2>. QED  BY <1>1, <1>4, <2>1 DEF PolicyInv, Met, Sv
<1>9. SyncInv'
  <2>. SUFFICES ASSUME ~cfg.foreign PROVE SyncInv'
    BY <1>1 DEF SyncInv
  <2>1. InHandshake
    BY <1>1 DEF Inv, SyncInv
  <2>2. InGreeting'
    BY <1>1, <1>4, <2>1 DEF InGreeting, InHandshake, Silent, Unknown, Sv
  <2>3. cli.op = "starttls" => Silent' /\ Unknown' /\ cli'.state # "transaction"
    <3>1. cli.op = "starttls" => ~cfg.implicit
      BY <1>1, <2>1 DEF Inv, InHandshake, TransportInv
    <3>. QED  BY <1>1, <1>2, <1>4, <2>1, <3>1 DEF InHandshake, Silent, Unknown, Is, Sv
  <2>4. wrongMode(hello.verb)' <=> wrongMode(hello.verb)
    BY <1>1 DEF wrongMode, hello
  <2>. QED  BY <1>1, <1>2, <2>2, <2>3, <2>4 DEF Inv, SyncInv, OneCommand, Is
<1>. QED  BY <1>5, <1>6, <1>7, <1>8, <1>9 DEF Inv

\* The loss of the connection preserves the invariant.
LEMMA GoneKeeps ==
    ASSUME Inv, Gone
    PROVE  Inv'
<1>1. UNCHANGED <<cfg, cli, rep>> /\ req' = <<>> /\ srv \in Servers
  BY DEF Inv, Types, Gone
<1>2. Sv(srv', "closed", srv.phase, srv.tls, srv.cert, srv.authed, srv.extended, srv.attempts)
  BY <1>1 DEF Gone, Sv, Servers
<1>3. Types'
  BY <1>1, <1>2 DEF Inv, Types, Sv
<1>4. RawInv' /\ ForeignInv'
  BY <1>1 DEF Inv, RawInv, ForeignInv
<1>5. TransportInv'
  BY <1>1, <1>2 DEF Inv, TransportInv, Sv
<1>6. PolicyInv'
  BY <1>2 DEF PolicyInv, Sv
<1>7. SyncInv'
  <2>. SUFFICES ASSUME ~cfg.foreign PROVE SyncInv'
    BY <1>1 DEF SyncInv
  <2>1. srv' \in Servers /\ capabilities(cfg, srv') = capabilities(cfg, srv)
    BY <1>1, <1>2, SameMechanisms DEF Sv
  <2>2. /\ Silent => Silent'
        /\ Unknown => Unknown'
        /\ Offered => Offered'
        /\ Login => Login'
        /\ Transaction => Transaction'
    BY <1>1, <1>2, <2>1 DEF Silent, Unknown, Offered, Login, Transaction, Basis, Sv
  <2>3. wrongMode(hello.verb)' <=> wrongMode(hello.verb)
    BY <1>1 DEF wrongMode, hello
  <2>4. /\ InHandshake => InHandshake'
        /\ InGreeting => InGreeting'
        /\ InHello => InHello'
    BY <1>1, <1>2, <2>2 DEF InHandshake, InGreeting, InHello, Sv
  <2>5. InStartTLS => InStartTLS'
    BY <1>1, <1>2, <2>2 DEF InStartTLS, Sent, Said, Sv
  <2>6. InEHLO => InEHLO'
    BY <1>1, <1>2, <2>1, <2>3, <2>4 DEF InEHLO, Sent, Said, hello, Sv
  <2>7. InHELO => InHELO'
    BY <1>1, <1>2 DEF InHELO, Sent, Said, wrongMode, Sv
  <2>8. InAuth => InAuth'
    BY <1>1, <1>2, <2>2 DEF InAuth, Sent, Said, Sv
  <2>9. InMail => InMail'
    BY <1>1, <1>2, <2>2 DEF InMail, Sent, Said, Sv
  <2>10. InReset => InReset'
    BY <1>1, <1>2, <2>2 DEF InReset, Sent, Said, Sv
  <2>11. AtRest => AtRest'
    BY <2>2, <2>3 DEF AtRest
  <2>. QED  BY <1>1, <2>2, <2>3, <2>4, <2>5, <2>6, <2>7, <2>8, <2>9, <2>10, <2>11 DEF Inv, SyncInv, OneCommand
<1>. QED  BY <1>3, <1>4, <1>5, <1>6, <1>7 DEF Inv

\* Any answer of another implementation preserves the invariant.
LEMMA ForeignReplyKeeps ==
    ASSUME Inv, ForeignReply
    PROVE  Inv'
<1>1. cfg.foreign /\ rep = <<>> /\ UNCHANGED <<cfg, cli>> /\ srv \in Servers
  BY DEF Inv, Types, ForeignReply
<1>2. NoTable.mailmax = 0 /\ \A t \in ForeignTables : t \in Tables /\ t.mailmax = 0
  <2>1. {"STARTTLS", "DSN"} \subseteq Words /\ {"AUTH", "REQUIRETLS"} \subseteq Words
    BY DEF Words, frameworkCapabilities
  <2>2. {"PLAIN"} \subseteq Mechanisms
    BY DEF Mechanisms
  <2>. QED  BY <2>1, <2>2 DEF ForeignTables, NoTable, Tables
<1>3. \A n \in {220, 235, 250, 421, 454, 500, 502, 535, 550, 554} :
        /\ reply(n) \in Replies /\ reply(n).tls = srv.tls /\ reply(n).ext.mailmax = 0
  BY <1>1, <1>2, ReplyIs
<1>4. \A t \in ForeignTables :
        LET r == [reply(250) EXCEPT !.ext = t]
        IN  r \in Replies /\ r.tls = srv.tls /\ r.ext.mailmax = 0
  BY <1>2, <1>3 DEF Replies
<1>5. LET r == [reply(250) EXCEPT !.bad = TRUE]
      IN  r \in Replies /\ r.tls = srv.tls /\ r.ext.mailmax = 0
  <2>1. reply(250) \in Replies /\ reply(250).tls = srv.tls /\ reply(250).ext.mailmax = 0
    BY <1>3
  <2>. QED  BY Zenon, <2>1 DEF Replies
<1>6. ASSUME NEW v, NEW r \in ForeignAnswers(v)
      PROVE  r \in Replies /\ r.tls = srv.tls /\ r.ext.mailmax = 0
  <2>1. \/ r \in {reply(n) : n \in {220, 235, 250, 421, 454, 500, 502, 535, 550}}
        \/ r = [reply(250) EXCEPT !.bad = TRUE]
        \/ \E t \in ForeignTables : r = [reply(250) EXCEPT !.ext = t]
    <3>1. CASE v \in {"EHLO", "LHLO"}
      BY <1>6, <3>1 DEF ForeignAnswers
    <3>2. CASE v = "HELO"
      BY <1>6, <3>2 DEF ForeignAnswers
    <3>3. CASE v = "STARTTLS"
      BY <1>6, <3>3 DEF ForeignAnswers
    <3>4. CASE v = "AUTH"
      BY <1>6, <3>4 DEF ForeignAnswers
    <3>5. CASE v \notin {"EHLO", "LHLO", "HELO", "STARTTLS", "AUTH"}
      BY <1>6, <3>5 DEF ForeignAnswers
    <3>. QED  BY <3>1, <3>2, <3>3, <3>4, <3>5
  <2>2. CASE r \in {reply(n) : n \in {220, 235, 250, 421, 454, 500, 502, 535, 550}}
    BY <1>3, <2>2
  <2>3. CASE r = [reply(250) EXCEPT !.bad = TRUE]
    BY <1>5, <2>3
  <2>4. CASE \E t \in ForeignTables : r = [reply(250) EXCEPT !.ext = t]
    BY <1>4, <2>4
  <2>. QED  BY <2>1, <2>2, <2>3, <2>4
<1>7. \E r \in Replies : rep' = <<r>> /\ r.tls = srv.tls /\ r.ext.mailmax = 0
  <2>1. CASE rep' \in {<<reply(c)>> : c \in {220, 554}}
    BY <1>3, <2>1
  <2>2. CASE \E r \in ForeignAnswers(Head(req).verb) : rep' = <<r>>
    BY <1>6, <2>2
  <2>. QED  BY <2>1, <2>2 DEF ForeignReply
<1>8. rep' = <<rep'[1]>> /\ rep'[1] \in Replies /\ rep'[1].tls = srv.tls /\ rep'[1].ext.mailmax = 0
  BY <1>7
<1>9. srv' \in Servers /\ srv'.tls = srv.tls
  <2>1. \/ srv' = srv \/ srv' = [srv EXCEPT !.at = "loop"] \/ srv' = [srv EXCEPT !.at = "handshake"]
    BY DEF ForeignReply
  <2>. QED  BY <1>1, <2>1 DEF Servers
<1>10. Types'
  BY <1>1, <1>8, <1>9 DEF Inv, Types
<1>11. RawInv' /\ ForeignInv'
  BY <1>1, <1>8 DEF Inv, RawInv, ForeignInv
<1>12. TransportInv'
  BY <1>1, <1>8, <1>9 DEF Inv, TransportInv
<1>13. PolicyInv' /\ SyncInv'
  BY <1>1 DEF PolicyInv, SyncInv
<1>. QED  BY <1>10, <1>11, <1>12, <1>13 DEF Inv

\* Dial and the accepted connection satisfy the invariant.
LEMMA InitEstablishes == Init => Inv
<1>. SUFFICES ASSUME Init PROVE Inv
  OBVIOUS
<1>1. cfg \in Configs /\ NewServer(cfg) /\ req = <<>> /\ rep = <<>>
  BY DEF Init
<1>2. Is(cli, "connected", "connected", FALSE, TRUE, NoTable, FALSE, "dial",
         IF cfg.implicit THEN "handshake" ELSE "greeting")
  BY NoTableTyped DEF Init, newClient, Is, Clients, States, Steps, Pending
<1>3. Sv(srv, IF cfg.implicit THEN "handshake" ELSE "new", "connected", FALSE, FALSE, FALSE, FALSE, 0)
  BY DEF Init, newCommandSession, Sv, Servers
<1>4. Types
  BY <1>1, <1>2, <1>3 DEF Types, Is, Sv
<1>5. RawInv
  BY <1>2 DEF RawInv, Is
<1>6. TransportInv
  BY Zenon, <1>1, <1>2, <1>3 DEF TransportInv, Is, Sv
<1>7. ForeignInv
  BY <1>1, <1>2 DEF ForeignInv, Is, NoTable
<1>8. PolicyInv
  BY <1>3 DEF PolicyInv, Sv
<1>9. SyncInv
  BY <1>1, <1>2, <1>3 DEF SyncInv, OneCommand, InHandshake, InGreeting, Silent, Unknown, Is, Sv
<1>. QED  BY <1>4, <1>5, <1>6, <1>7, <1>8, <1>9 DEF Inv

\* Every step preserves the invariant.
LEMMA NextKeeps == Inv /\ [Next]_vars => Inv'
<1>. SUFFICES ASSUME Inv, [Next]_vars PROVE Inv'
  OBVIOUS
<1>1. CASE UNCHANGED vars
  <2>1. UNCHANGED <<cfg, cli, srv, req, rep>>
    BY <1>1 DEF vars
  <2>2. (Types /\ RawInv /\ TransportInv /\ ForeignInv)'
    BY <2>1 DEF Inv, Types, RawInv, TransportInv, ForeignInv
  <2>3. PolicyInv'
    BY <2>1, PolicyStays DEF Inv
  <2>4. /\ Silent' = Silent /\ Unknown' = Unknown /\ Offered' = Offered
        /\ Login' = Login /\ Transaction' = Transaction /\ OneCommand' = OneCommand
    BY <2>1 DEF Silent, Unknown, Offered, Login, Transaction, Basis, OneCommand
  <2>5. wrongMode(hello.verb)' = wrongMode(hello.verb) /\ wrongMode("HELO")' = wrongMode("HELO")
    BY <2>1 DEF wrongMode, hello
  <2>6. /\ InHandshake' = InHandshake /\ InGreeting' = InGreeting /\ InHello' = InHello
    BY <2>1, <2>4 DEF InHandshake, InGreeting, InHello
  <2>7. /\ InEHLO' = InEHLO /\ InHELO' = InHELO
    BY <2>1, <2>5, <2>6 DEF InEHLO, InHELO, Sent, Said, hello
  <2>8. /\ InStartTLS' = InStartTLS /\ InAuth' = InAuth
    BY <2>1, <2>4 DEF InStartTLS, InAuth, Sent, Said
  <2>9. /\ InMail' = InMail /\ InReset' = InReset
    BY <2>1, <2>4 DEF InMail, InReset, Sent, Said
  <2>10. AtRest' = AtRest
    BY <2>4, <2>5 DEF AtRest
  <2>11. SyncInv'
    BY <2>1, <2>4, <2>5, <2>6, <2>7, <2>8, <2>9, <2>10 DEF Inv, SyncInv
  <2>. QED  BY <2>2, <2>3, <2>11 DEF Inv
<1>2. CASE Next
  BY <1>2, StartTLSKeeps, AuthKeeps, MailKeeps, ResetKeeps, HandshakeFailsKeeps, UpgradedKeeps, WelcomedKeeps,
     HelloKeeps, ReadFailsKeeps, ReadReplyKeeps, LatePoisonKeeps, GreetKeeps, ExecuteKeeps, HandshakeKeeps,
     GoneKeeps, ForeignReplyKeeps DEF Next, ClientStep
<1>. QED  BY <1>1, <1>2

\* Wherever a call stands, the client, the server and what is under way between
\* them fit together, for any options that NewServer accepts, any Session and
\* any order of calls, losses, late poisons and deadlines (smtpclient/ehlo.go,
\* starttls.go against smtpserver/cmd_server.go, floor_extensions.go).
THEOREM NegotiationInvariance == Spec => []Inv
  BY InitEstablishes, NextKeeps, PTL DEF Spec

\* Between calls, the two ends agree on the transport, the login, the
\* transaction and the table: what Extension() reads is what the server would
\* send now.
THEOREM SessionsAgree == Spec => []SessionAgrees
<1>1. Inv => SessionAgrees
  <2>. SUFFICES ASSUME Inv, cli.pc = "idle", cli.state # "closed", srv.at = "loop", ~cfg.foreign
                PROVE  SessionAgrees
    BY DEF SessionAgrees
  <2>1. AtRest /\ cli.tls = srv.tls
    BY DEF Inv, SyncInv, TransportInv
  <2>. QED  BY <2>1 DEF SessionAgrees, AtRest, Silent, Offered, Login, Basis, Transaction
<1>. QED  BY NegotiationInvariance, <1>1, PTL

\* What the client's own tests let through, the server never refuses as
\* unknown, out of order or unsupported, and the MAILMAX it states is the one
\* it enforces, to the attempt.
THEOREM TableIsHonoured == Spec => []TableHonoured
<1>1. Inv => TableHonoured
  <2>. SUFFICES ASSUME Inv, rep # <<>> PROVE TableHonoured
    BY DEF TableHonoured
  <2>1. Head(rep) = rep[1]
    BY DEF Inv, Types
  <2>2. ASSUME ~cfg.foreign, cli.pc \in {"starttls", "auth", "mail", "rset"}
        PROVE  rep[1].code \notin {500, 501, 502, 503, 504}
    BY <2>2 DEF Inv, SyncInv, InStartTLS, InAuth, InMail, InReset, Said
  <2>3. ASSUME cli.pc = "mail", cli.ext.mailmax > 0
        PROVE  rep[1].limit <=> srv.attempts > cli.ext.mailmax
    <3>1. ~cfg.foreign
      BY <2>3 DEF Inv, ForeignInv
    <3>2. cli.ext = capabilities(cfg, srv) /\ (rep[1].limit <=> srv.attempts > maxTransactions(cfg))
      BY <2>3, <3>1 DEF Inv, SyncInv, InMail, Offered
    <3>3. cfg \in Configs /\ srv \in Servers
      BY DEF Inv, Types
    <3>. QED  BY <2>3, <3>2, <3>3, CapabilitiesTyped
  <2>. QED  BY <2>1, <2>2, <2>3 DEF TableHonoured
<1>. QED  BY NegotiationInvariance, <1>1, PTL

\* No table of the clear is readable once the transport is being upgraded,
\* whatever server sent it.
THEOREM TableIsFresh == Spec => []TableFresh
<1>1. Inv => TableFresh
  BY DEF Inv, TransportInv, Bare, TableFresh
<1>. QED  BY NegotiationInvariance, <1>1, PTL

\* The server serves no session that can neither send mail nor take a step
\* towards it: NewServer's tests, authReachable before the greeting and the
\* second look of handleHello after TLS leave no gap.
THEOREM NeverDeadEnd == Spec => []NoDeadEnd
<1>1. Inv => NoDeadEnd
  <2>. SUFFICES ASSUME Inv, srv.at = "loop", srv.phase = "ready", srv.extended, ~cfg.foreign,
                       ~((cfg.requireTLS => srv.tls) /\ (cfg.requireAuth => srv.authed))
                PROVE  {"STARTTLS", "AUTH"} \intersect capabilities(cfg, srv).kw # {}
    BY DEF NoDeadEnd
  <2>1. /\ ~srv.tls /\ cfg.tls => "STARTTLS" \in capabilities(cfg, srv).kw
        /\ authMechanisms(cfg, srv) # {} /\ ~srv.authed => "AUTH" \in capabilities(cfg, srv).kw
    BY DEF capabilities
  <2>2. CASE cfg.requireTLS /\ ~srv.tls
    BY <2>1, <2>2 DEF Inv, Types, NewServer
  <2>3. CASE cfg.requireAuth /\ ~srv.authed /\ srv.tls
    BY <2>1, <2>3 DEF Inv, PolicyInv
  <2>4. CASE cfg.requireAuth /\ ~srv.authed /\ ~srv.tls
    <3>1. authReachable(cfg, srv)
      BY <2>4 DEF Inv, PolicyInv, Met
    <3>2. availableAuthMechanisms(cfg.before, cfg.verifiers, FALSE, FALSE) \subseteq
                            availableAuthMechanisms(cfg.before, cfg.verifiers, srv.tls, srv.cert)
      BY DEF availableAuthMechanisms
    <3>3. cfg.tls \/ authMechanisms(cfg, srv) # {}
      BY Zenon, <2>4, <3>1, <3>2 DEF authReachable, authMechanisms
    <3>. QED  BY <2>1, <2>4, <3>3
  <2>. QED  BY <2>2, <2>3, <2>4
<1>. QED  BY NegotiationInvariance, <1>1, PTL

\* A client in its caller's hands that is not closed has an open connection,
\* however late the handshake's watcher acts.
THEOREM OpenMeansOpen == Spec => []OpenIsOpen
<1>1. Inv => OpenIsOpen
  BY DEF Inv, RawInv, OpenIsOpen
<1>. QED  BY NegotiationInvariance, <1>1, PTL

=============================================================================
