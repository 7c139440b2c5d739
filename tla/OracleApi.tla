----------------------------- MODULE OracleApi -----------------------------
(***************************************************************************)
(* How a name gets to the oracles: the web page asks for a name, the       *)
(* frontend collects a proof-of-work challenge from every oracle it knows, *)
(* the browser solves them one after the other, and the frontend submits   *)
(* the name with each oracle's token to that oracle.  Oracle servers may   *)
(* stop and start again in between, requests may fail or time out, and     *)
(* other clients talk to the oracles too.                                  *)
(*                                                                         *)
(* A challenge is a hash of a name, a time and the oracle's secret, and is *)
(* represented by the three.  A name is spelled with a final dot or        *)
(* without one, the normal form.  What an oracle does with a name it       *)
(* accepts is OracleNetwork's subject.                                     *)
(***************************************************************************)
EXTENDS Integers, FiniteSets

CONSTANTS
  Oracles,    \* oracle servers
  Names,      \* names to be enrolled
  Sessions,   \* visits of the web page
  Window,     \* age in seconds up to which a token is good
  MaxTime,    \* bound: the last time considered
  MaxStops,   \* bound: number of times that oracles stop
  MaxDirect   \* bound: number of requests of other clients that are accepted

ASSUME WindowAssumption == Window \in Nat

VARIABLES
  now,         \* the time; oracles compare only their own readings of it
  file,        \* file[o]: pow_secret.hex, {} before it exists
  secret,      \* secret[o]: pow_secret of the running server, {} when it is down
  drawn,       \* how many secrets were drawn
  stops,       \* how often oracles stopped
  registered,  \* the oracles of the chain's config
  oracles,     \* config.oracleEndpoints of the frontend, {} before it is set
  session,     \* the state of each visit
  issued,      \* history: challenges that oracles handed out
  accepted     \* history: requests that oracles accepted

serverVars == <<file, secret, drawn, stops>>
vars == <<now, serverVars, registered, oracles, session, issued, accepted>>

----------------------------------------------------------------------------
(* Challenges and tokens.                                                  *)

Spellings == [name : Names, normal : BOOLEAN]

Normalized(spelling) == [spelling EXCEPT !.normal = TRUE]

\* The frontend adds the final dot to the name it submits.
Dotted(spelling) == [spelling EXCEPT !.normal = FALSE]

\* The contents of pow_secret.hex when its first write was cut short.
EmptyFile == {0}

\* Mutant: a challenge is good for any name.
MutantChallenge(spelling, time, s) ==
  [domain |-> [spelling EXCEPT !.name = "any"], timestamp |-> time, secret |-> s]

\* generate_pow_challenge
Challenge(spelling, time, s) == [domain |-> spelling, timestamp |-> time, secret |-> s]

Token(challenge, solved) ==
  [challenge |-> challenge, timestamp |-> challenge.timestamp, solved |-> solved]

Age(time) == IF now >= time THEN now - time ELSE time - now

\* validate_pow_token
Validates(o, token, spelling) ==
  /\ token.challenge = Challenge(spelling, token.timestamp, secret[o])
  /\ Age(token.timestamp) <= Window
  /\ token.solved

\* handle_observe up to the observation.
Accepts(o, token, spelling) == Validates(o, token, Normalized(spelling))

----------------------------------------------------------------------------
(* Oracle servers.                                                         *)

Up(o) == secret[o] # {}

\* Mutant: every start draws a secret of its own.
MutantStart(o) ==
  /\ ~Up(o)
  /\ drawn' = drawn + 1
  /\ file' = [file EXCEPT ![o] = {drawn'}]
  /\ secret' = [secret EXCEPT ![o] = {drawn'}]
  /\ UNCHANGED <<now, stops, registered, oracles, session, issued, accepted>>

\* load_or_generate_pow_secret, then the server runs.
Start(o) ==
  /\ ~Up(o)
  /\ drawn' = IF file[o] = {} THEN drawn + 1 ELSE drawn
  /\ file' = [file EXCEPT ![o] = IF @ = {} THEN {drawn'} ELSE @]
  /\ secret' = [secret EXCEPT ![o] = file'[o]]
  /\ UNCHANGED <<now, stops, registered, oracles, session, issued, accepted>>

\* The server stops while it starts: the file may be there without its contents,
\* which the next start takes for the secret.
StartCutShort(o) ==
  /\ ~Up(o) /\ file[o] = {}
  /\ stops < MaxStops /\ stops' = stops + 1
  /\ file' = [file EXCEPT ![o] = EmptyFile]
  /\ UNCHANGED <<now, secret, drawn, registered, oracles, session, issued, accepted>>

Stop(o) ==
  /\ Up(o)
  /\ stops < MaxStops /\ stops' = stops + 1
  /\ secret' = [secret EXCEPT ![o] = {}]
  /\ UNCHANGED <<now, file, drawn, registered, oracles, session, issued, accepted>>

\* The challenges a client can present: those that were issued, and those it makes up
\* itself, with a time of its choice, for a secret that is known because it is empty.
Presentable ==
  {i.challenge : i \in issued}
    \cup {Challenge(d, t, EmptyFile) : d \in Spellings, t \in 0..(MaxTime + Window)}

\* A client of its own accord: any challenge it has, solved or not, for any name.
DirectObserve(o) ==
  /\ Up(o)
  /\ Cardinality({a \in accepted : a.by = "direct"}) < MaxDirect
  /\ \E c \in Presentable, d \in Spellings, solved \in BOOLEAN :
       /\ Accepts(o, Token(c, solved), d)
       /\ accepted' = accepted \cup
            {[oracle |-> o, name |-> d.name, at |-> now, solved |-> solved, by |-> "direct"]}
  /\ UNCHANGED <<now, serverVars, registered, oracles, session, issued>>

----------------------------------------------------------------------------
(* The frontend and the web page.                                          *)

Idle == [step |-> "idle"]

\* A reconfiguration of the chain makes o one of its oracles.
Register(o) ==
  /\ o \notin registered
  /\ registered' = registered \cup {o}
  /\ UNCHANGED <<now, serverVars, oracles, session, issued, accepted>>

\* GET /api/oracles keeps the list it got from the chain, an empty one too.
GetOracles ==
  /\ oracles = {}
  /\ oracles' = {registered}
  /\ UNCHANGED <<now, serverVars, registered, session, issued, accepted>>

\* GET /api/pow-challenge, for the name as the page took it from the input.  A list
\* that is not known yet is fetched, and kept unless it is empty.
RequestChallenges(s, d) ==
  /\ session[s].step = "idle"
  /\ oracles' = IF oracles = {} /\ registered # {} THEN {registered} ELSE oracles
  /\ oracles' # {}
  /\ session' = [session EXCEPT ![s] =
                   [step |-> "challenges", domain |-> d,
                    waiting |-> UNION oracles', tokens |-> {}]]
  /\ UNCHANGED <<now, serverVars, registered, issued, accepted>>

\* An oracle's answer; difficulty is left out, the browser meets it or gives up.
HandlePowChallenge(s, o) ==
  LET q == session[s]
      c == Challenge(q.domain, now, secret[o])
  IN  /\ q.step = "challenges" /\ o \in q.waiting
      /\ Up(o)
      /\ session' = [session EXCEPT ![s].waiting = @ \ {o},
                                    ![s].tokens = @ \cup {[oracle |-> o, token |-> Token(c, TRUE)]}]
      /\ issued' = issued \cup {[oracle |-> o, domain |-> q.domain, challenge |-> c]}
      /\ UNCHANGED <<now, serverVars, registered, oracles, accepted>>

\* The request fails, or the browser does not solve the challenge.
NoToken(s, o) ==
  /\ session[s].step = "challenges" /\ o \in session[s].waiting
  /\ session' = [session EXCEPT ![s].waiting = @ \ {o}]
  /\ UNCHANGED <<now, serverVars, registered, oracles, issued, accepted>>

\* POST /api/submit, with the final dot, to all oracles at once, once there is a token.
Submit(s) ==
  LET q == session[s]
  IN  /\ q.step = "challenges" /\ q.waiting = {}
      /\ session' = [session EXCEPT ![s] =
                       IF q.tokens = {} THEN Idle
                       ELSE [step |-> "submit", domain |-> q.domain, tokens |-> q.tokens,
                             waiting |-> UNION oracles, succeeded |-> {}]]
      /\ UNCHANGED <<now, serverVars, registered, oracles, issued, accepted>>

TokensFor(q, o) == {x.token : x \in {y \in q.tokens : y.oracle = o}}

\* The oracle accepts the token, and answers in time that the observation was made.
HandleObserve(s, o) ==
  LET q == session[s]
  IN  /\ q.step = "submit" /\ o \in q.waiting
      /\ Up(o)
      /\ \E token \in TokensFor(q, o) : Accepts(o, token, Dotted(q.domain))
      /\ accepted' = accepted \cup
           {[oracle |-> o, name |-> q.domain.name, at |-> now, solved |-> TRUE, by |-> s]}
      /\ \E answered \in {{o}, {}} :
           session' = [session EXCEPT ![s].waiting = @ \ {o},
                                      ![s].succeeded = @ \cup answered]
      /\ UNCHANGED <<now, serverVars, registered, oracles, issued>>

\* The request is refused, fails or times out.
ObserveFails(s, o) ==
  /\ session[s].step = "submit" /\ o \in session[s].waiting
  /\ session' = [session EXCEPT ![s].waiting = @ \ {o}]
  /\ UNCHANGED <<now, serverVars, registered, oracles, issued, accepted>>

\* Mutant: every request that was settled counts.
MutantCountSuccesses(q) == Cardinality(UNION oracles)

\* successCount
CountSuccesses(q) == Cardinality(q.succeeded)

\* Mutant: the answer waits for an oracle that succeeded.
MutantReportResults(s) ==
  LET q == session[s]
  IN  /\ q.step = "submit" /\ q.succeeded # {}
      /\ session' = [session EXCEPT ![s] =
                       [step |-> "done", domain |-> q.domain, submitted |-> CountSuccesses(q)]]
      /\ UNCHANGED <<now, serverVars, registered, oracles, issued, accepted>>

\* The answer to POST /api/submit, once every request is settled.
ReportResults(s) ==
  LET q == session[s]
  IN  /\ q.step = "submit" /\ q.waiting = {}
      /\ session' = [session EXCEPT ![s] =
                       [step |-> "done", domain |-> q.domain, submitted |-> CountSuccesses(q)]]
      /\ UNCHANGED <<now, serverVars, registered, oracles, issued, accepted>>

----------------------------------------------------------------------------
Init ==
  /\ now = 0
  /\ file = [o \in Oracles |-> {}]
  /\ secret = [o \in Oracles |-> {}]
  /\ drawn = 0 /\ stops = 0
  /\ registered \in SUBSET Oracles
  /\ oracles = {}
  /\ session = [s \in Sessions |-> Idle]
  /\ issued = {} /\ accepted = {}

Tick ==
  /\ now < MaxTime /\ now' = now + 1
  /\ UNCHANGED <<serverVars, registered, oracles, session, issued, accepted>>

Next ==
  \/ \E o \in Oracles : Start(o) \/ StartCutShort(o) \/ Stop(o)
  \/ \E o \in Oracles : DirectObserve(o) \/ Register(o)
  \/ GetOracles
  \/ \E s \in Sessions, d \in Spellings : RequestChallenges(s, d)
  \/ \E s \in Sessions, o \in Oracles :
       HandlePowChallenge(s, o) \/ NoToken(s, o) \/ HandleObserve(s, o) \/ ObserveFails(s, o)
  \/ \E s \in Sessions : Submit(s) \/ ReportResults(s)
  \/ Tick

\* Every request of the frontend has a timeout, and it goes on when all are settled.
Fairness ==
  \A s \in Sessions :
    /\ \A o \in Oracles : WF_vars(NoToken(s, o)) /\ WF_vars(ObserveFails(s, o))
    /\ WF_vars(Submit(s)) /\ WF_vars(ReportResults(s))

Spec == Init /\ [][Next]_vars /\ Fairness

----------------------------------------------------------------------------
(* Properties.                                                             *)

\* A name that was typed without a final dot is not refused for its token: whatever
\* oracles stopped and started since the challenge was issued, and although the
\* frontend submits the name with a dot, the oracle that issued the challenge accepts
\* it within the window.  (A challenge for a name typed with a dot is refused.)
TokenRedeemable ==
  \A s \in Sessions, o \in Oracles :
    session[s].step = "submit" =>
      \A token \in TokensFor(session[s], o) :
        (session[s].domain.normal /\ Up(o) /\ Age(token.timestamp) <= Window)
          => Accepts(o, token, Dotted(session[s].domain))

\* An oracle that drew its secret works only for proofs of work that it asked for
\* itself, for that very name, and not longer ago than the window: neither what other
\* oracles issued nor what clients make up for an empty secret gets past it.  An oracle
\* whose secret was never written is excepted: it has to see a solution, but to a
\* challenge that it need not have issued.
AcceptedOnlyIssued ==
  \A a \in accepted :
    /\ a.solved
    /\ file[a.oracle] # EmptyFile =>
         \E i \in issued :
           /\ i.oracle = a.oracle /\ i.domain.name = a.name
           /\ a.at - i.challenge.timestamp \in 0..Window

\* What the page reports as submitted really was accepted by as many oracles.
ReportTruthful ==
  \A s \in Sessions :
    session[s].step = "done" =>
      session[s].submitted <=
        Cardinality({a.oracle : a \in {b \in accepted :
                                         b.by = s /\ b.name = session[s].domain.name}})

\* A visit never hangs: every submission that was begun comes to an end.
SubmissionEnds ==
  \A s \in Sessions :
    (session[s].step \in {"challenges", "submit"}) ~> (session[s].step \in {"idle", "done"})

=============================================================================
