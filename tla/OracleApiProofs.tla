-------------------------- MODULE OracleApiProofs --------------------------
(***************************************************************************)
(* Proofs about OracleApi, for every number of oracles, names, visits and  *)
(* restarts and every token window.                                        *)
(***************************************************************************)
EXTENDS OracleApi, FiniteSetTheorems, TLAPS

----------------------------------------------------------------------------
(* Secrets.                                                                *)

\* A server runs with the secret of its file.  Secrets that were drawn are different
\* ones; only the contents of files cut short are the same.
ServerInv ==
  /\ now \in Nat /\ drawn \in Nat
  /\ file \in [Oracles -> SUBSET Nat] /\ secret \in [Oracles -> SUBSET Nat]
  /\ \A o \in Oracles : \A n \in file[o] : n <= drawn
  /\ \A o, p \in Oracles : file[o] = file[p] => o = p \/ file[o] \in {{}, EmptyFile}
  /\ \A o \in Oracles : secret[o] = {} \/ secret[o] = file[o]

\* Steps that concern no server keep all of this.
LEMMA ServersUntouched ==
  ASSUME ServerInv, UNCHANGED <<now, serverVars>>
  PROVE  ServerInv'
  BY DEF ServerInv, serverVars

\* A start, whole or cut short, writes the file only if there is none, and draws a
\* secret that no other file has.
LEMMA StartKeepsSecrets ==
  ASSUME ServerInv, NEW o \in Oracles, Start(o)
  PROVE  ServerInv' /\ \A p \in Oracles : file[p] # {} => file'[p] = file[p]
<1>1. /\ now \in Nat /\ drawn \in Nat
      /\ file \in [Oracles -> SUBSET Nat] /\ secret \in [Oracles -> SUBSET Nat]
  BY DEF ServerInv
<1>2. CASE file[o] = {}
  <2>1. /\ drawn' = drawn + 1 /\ now' = now
        /\ file' = [file EXCEPT ![o] = {drawn + 1}]
    BY <1>2 DEF Start
  <2>2. file'[o] = {drawn + 1}
    BY <1>1, <2>1
  <2>3. secret' = [secret EXCEPT ![o] = {drawn + 1}]
    BY <2>2 DEF Start
  <2>4. /\ file' \in [Oracles -> SUBSET Nat] /\ secret' \in [Oracles -> SUBSET Nat]
        /\ now' \in Nat /\ drawn' \in Nat
    BY <1>1, <2>1, <2>3
  <2>5. ASSUME NEW p \in Oracles, p # o
        PROVE  file'[p] = file[p] /\ secret'[p] = secret[p]
    BY <1>1, <2>1, <2>3, <2>5
  <2>6. ASSUME NEW p \in Oracles, NEW n \in file'[p]
        PROVE  n <= drawn'
    <3>1. CASE p = o
      BY <1>1, <2>1, <2>2, <2>6, <3>1
    <3>2. CASE p # o
      <4>1. n \in Nat /\ n <= drawn
        BY <1>1, <2>5, <2>6, <3>2 DEF ServerInv
      <4>2. QED
        BY <1>1, <2>1, <4>1
    <3>3. QED
      BY <3>1, <3>2
  <2>7. \A p \in Oracles : p # o => file'[p] # file'[o]
    <3>1. \A p \in Oracles : drawn + 1 \notin file[p]
      BY <1>1 DEF ServerInv
    <3>2. QED
      BY <2>2, <2>5, <3>1
  <2>8. \A p, q \in Oracles : file'[p] = file'[q] => p = q \/ file'[p] \in {{}, EmptyFile}
    BY <2>5, <2>7 DEF ServerInv
  <2>9. secret'[o] = file'[o]
    BY <1>1, <2>2, <2>3
  <2>10. \A p \in Oracles : secret'[p] = {} \/ secret'[p] = file'[p]
    BY <2>5, <2>9 DEF ServerInv
  <2>11. QED
    BY <1>2, <2>4, <2>5, <2>6, <2>8, <2>10 DEF ServerInv
<1>3. CASE file[o] # {}
  <2>1. drawn' = drawn /\ now' = now /\ file' = [file EXCEPT ![o] = file[o]]
    BY <1>3 DEF Start
  <2>2. file' = file
    BY <1>1, <2>1
  <2>3. secret' = [secret EXCEPT ![o] = file[o]]
    BY <2>2 DEF Start
  <2>4. QED
    BY <1>1, <2>1, <2>2, <2>3 DEF ServerInv
<1>4. QED
  BY <1>2, <1>3

\* Every step keeps the secrets apart, the contents of files that exist, and never
\* turns back the time.
LEMMA ServerStep ==
  ASSUME ServerInv, [Next]_vars
  PROVE  /\ ServerInv'
         /\ \A p \in Oracles : file[p] # {} => file'[p] = file[p]
         /\ now <= now'
<1>1. now \in Nat /\ file \in [Oracles -> SUBSET Nat] /\ secret \in [Oracles -> SUBSET Nat]
  BY DEF ServerInv
<1>2. CASE UNCHANGED <<now, serverVars>>
  BY <1>1, <1>2, ServersUntouched DEF serverVars
<1>3. ASSUME NEW o \in Oracles, Start(o)
      PROVE  /\ ServerInv'
             /\ \A p \in Oracles : file[p] # {} => file'[p] = file[p]
             /\ now <= now'
  <2>1. now' = now
    BY <1>3 DEF Start
  <2>2. ServerInv' /\ \A p \in Oracles : file[p] # {} => file'[p] = file[p]
    BY <1>3, StartKeepsSecrets
  <2>3. QED
    BY <1>1, <2>1, <2>2
<1>4. ASSUME NEW o \in Oracles, StartCutShort(o)
      PROVE  /\ ServerInv'
             /\ \A p \in Oracles : file[p] # {} => file'[p] = file[p]
             /\ now <= now'
  <2>1. /\ now' = now /\ drawn' = drawn /\ secret' = secret /\ secret[o] = {}
        /\ file[o] = {} /\ file' = [file EXCEPT ![o] = EmptyFile]
    BY <1>4 DEF StartCutShort, Up
  <2>2. EmptyFile \in SUBSET Nat /\ \A n \in EmptyFile : n = 0
    BY DEF EmptyFile
  <2>3. file' \in [Oracles -> SUBSET Nat] /\ file'[o] = EmptyFile
        /\ \A p \in Oracles : p # o => file'[p] = file[p]
    BY <1>1, <2>1, <2>2
  <2>4. \A p \in Oracles : \A n \in file'[p] : n <= drawn'
    BY <2>1, <2>2, <2>3 DEF ServerInv
  <2>5. \A p, q \in Oracles : file'[p] = file'[q] => p = q \/ file'[p] \in {{}, EmptyFile}
    BY <2>3 DEF ServerInv
  <2>6. \A p \in Oracles : secret'[p] = {} \/ secret'[p] = file'[p]
    BY <2>1, <2>3 DEF ServerInv
  <2>7. QED
    BY <1>1, <2>1, <2>3, <2>4, <2>5, <2>6 DEF ServerInv
<1>5. ASSUME NEW o \in Oracles, Stop(o)
      PROVE  /\ ServerInv'
             /\ \A p \in Oracles : file[p] # {} => file'[p] = file[p]
             /\ now <= now'
  BY <1>1, <1>5 DEF Stop, ServerInv
<1>6. CASE Tick
  BY <1>1, <1>6 DEF Tick, ServerInv, serverVars
<1>7. QED
  BY <1>2, <1>3, <1>4, <1>5, <1>6
  DEF Next, vars, DirectObserve, Register, GetOracles, RequestChallenges, HandlePowChallenge,
      NoToken, HandleObserve, ObserveFails, Submit, ReportResults

----------------------------------------------------------------------------
(* Challenges, visits and what was accepted.                               *)

Challenges == [domain : Spellings, timestamp : Nat, secret : SUBSET Nat]
Issue(o, d, c) == [oracle |-> o, domain |-> d, challenge |-> c]
Issues == [oracle : Oracles, domain : Spellings, challenge : Challenges]

\* A challenge was made for its name, not in the future, with the secret of its oracle.
IssueOK(i, secrets, time) ==
  /\ i \in Issues
  /\ i.challenge.domain = i.domain
  /\ i.challenge.timestamp <= time
  /\ i.challenge.secret = secrets[i.oracle] /\ secrets[i.oracle] # {}

\* The tokens of a visit: solutions of challenges that were issued for its name.
HeldTokens == [oracle : Oracles, token : {Token(c, TRUE) : c \in Challenges}]

TokensOK(q, seen) ==
  \A x \in q.tokens :
    \E c \in Challenges : x.token = Token(c, TRUE) /\ Issue(x.oracle, q.domain, c) \in seen

\* The oracles that accepted a name from a visit.
Acceptors(s, name, done) == {a.oracle : a \in {b \in done : b.by = s /\ b.name = name}}

Collecting == [step : {"challenges"}, domain : Spellings, waiting : SUBSET Oracles,
               tokens : SUBSET HeldTokens]
Submitting == [step : {"submit"}, domain : Spellings, tokens : SUBSET HeldTokens,
               waiting : SUBSET Oracles, succeeded : SUBSET Oracles]
Finished == [step : {"done"}, domain : Spellings, submitted : Nat]

SessionOK(s, q, seen, done) ==
  \/ q = Idle
  \/ q \in Collecting /\ TokensOK(q, seen)
  \/ /\ q \in Submitting /\ TokensOK(q, seen)
     /\ q.succeeded \subseteq Acceptors(s, q.domain.name, done)
  \/ /\ q \in Finished
     /\ q.submitted <= Cardinality(Acceptors(s, q.domain.name, done))

SessionStates == {Idle} \cup Collecting \cup Submitting \cup Finished

ApiInv ==
  /\ ServerInv
  /\ registered \subseteq Oracles /\ oracles \subseteq SUBSET Oracles
  /\ \A i \in issued : IssueOK(i, file, now)
  /\ IsFiniteSet(accepted)
  /\ AcceptedOnlyIssued
  /\ \A a \in accepted : a.oracle \in Oracles /\ file[a.oracle] # {}
  /\ session \in [Sessions -> SessionStates]
  /\ \A s \in Sessions : SessionOK(s, session[s], issued, accepted)

\* A visit has the fields of its step.
LEMMA SessionFields ==
  ASSUME NEW s, NEW q, NEW seen, NEW done, SessionOK(s, q, seen, done)
  PROVE  /\ q \in SessionStates
         /\ q.step = "challenges" => q \in Collecting /\ TokensOK(q, seen)
         /\ q.step = "submit" => /\ q \in Submitting /\ TokensOK(q, seen)
                                 /\ q.succeeded \subseteq Acceptors(s, q.domain.name, done)
         /\ q.step = "done" =>
              /\ q \in Finished
              /\ q.submitted <= Cardinality(Acceptors(s, q.domain.name, done))
  BY DEF SessionOK, SessionStates, Collecting, Submitting, Finished, Idle

\* The oracles that accepted a name are finitely many, and do not become fewer.
LEMMA AcceptorsGrow ==
  ASSUME NEW s, NEW name, NEW before, NEW after, before \subseteq after, IsFiniteSet(after)
  PROVE  /\ Acceptors(s, name, before) \subseteq Acceptors(s, name, after)
         /\ IsFiniteSet(Acceptors(s, name, after))
         /\ Cardinality(Acceptors(s, name, before)) \in Nat
         /\ Cardinality(Acceptors(s, name, after)) \in Nat
         /\ Cardinality(Acceptors(s, name, before)) <= Cardinality(Acceptors(s, name, after))
<1> DEFINE some == {b \in after : b.by = s /\ b.name = name}
           f == [a \in some |-> a.oracle]
<1>1. IsFiniteSet(some)
  BY FS_Subset
<1>2. f \in Surjection(some, Acceptors(s, name, after))
  BY DEF Surjection, Acceptors
<1>3. IsFiniteSet(Acceptors(s, name, after))
  BY <1>1, <1>2, FS_Surjection
<1>4. Acceptors(s, name, before) \subseteq Acceptors(s, name, after)
  BY DEF Acceptors
<1>5. QED
  BY <1>3, <1>4, FS_Subset, FS_CardinalityType

\* Challenges stay issued and requests accepted, so what holds of visits stays.
LEMMA SessionKept ==
  ASSUME NEW s, NEW q, NEW seen, NEW seen2, NEW done, NEW done2,
         seen \subseteq seen2, done \subseteq done2, IsFiniteSet(done2),
         SessionOK(s, q, seen, done)
  PROVE  SessionOK(s, q, seen2, done2)
<1>1. TokensOK(q, seen) => TokensOK(q, seen2)
  BY DEF TokensOK
<1>2. /\ Acceptors(s, q.domain.name, done) \subseteq Acceptors(s, q.domain.name, done2)
      /\ Cardinality(Acceptors(s, q.domain.name, done)) \in Nat
      /\ Cardinality(Acceptors(s, q.domain.name, done2)) \in Nat
      /\ Cardinality(Acceptors(s, q.domain.name, done))
           <= Cardinality(Acceptors(s, q.domain.name, done2))
  BY AcceptorsGrow
<1>3. CASE /\ q \in Finished
           /\ q.submitted <= Cardinality(Acceptors(s, q.domain.name, done))
  <2>1. q.submitted \in Nat
    BY <1>3 DEF Finished
  <2>2. QED
    BY <1>2, <1>3, <2>1 DEF SessionOK
<1>4. QED
  BY <1>1, <1>2, <1>3 DEF SessionOK

\* Challenges stay good while time goes on: a file that exists is never replaced.
LEMMA IssueKept ==
  ASSUME NEW i, NEW f, NEW f2, NEW t \in Nat, NEW t2 \in Nat, t <= t2,
         \A p \in Oracles : f[p] # {} => f2[p] = f[p], IssueOK(i, f, t)
  PROVE  IssueOK(i, f2, t2)
<1>1. i.oracle \in Oracles /\ i.challenge.timestamp \in Nat
  BY DEF IssueOK, Issues, Challenges
<1>2. QED
  BY <1>1 DEF IssueOK

\* What AcceptedOnlyIssued says of one request.
AcceptedOK(a, seen, secrets) ==
  /\ a.solved
  /\ secrets[a.oracle] # EmptyFile =>
       \E i \in seen :
         /\ i.oracle = a.oracle /\ i.domain.name = a.name
         /\ a.at - i.challenge.timestamp \in 0..Window

\* The server that accepted a request had its secret by then.
Served(a, secrets) == a.oracle \in Oracles /\ secrets[a.oracle] # {}

\* A step keeps the invariant if it keeps it for what it adds.
LEMMA ApiKept ==
  ASSUME ApiInv, [Next]_vars,
         registered' \subseteq Oracles, oracles' \subseteq SUBSET Oracles,
         issued \subseteq issued', accepted \subseteq accepted',
         \A i \in issued' : i \in issued \/ IssueOK(i, file, now),
         \/ accepted' = accepted
         \/ \E a : /\ accepted' = accepted \cup {a}
                  /\ AcceptedOK(a, issued, file) /\ Served(a, file),
         \/ session' = session
         \/ \E s \in Sessions : \E q : /\ session' = [session EXCEPT ![s] = q]
                                       /\ SessionOK(s, q, issued', accepted')
  PROVE  ApiInv'
<1>1. /\ ServerInv' /\ now \in Nat /\ now' \in Nat /\ now <= now'
      /\ \A p \in Oracles : file[p] # {} => file'[p] = file[p]
  BY ServerStep DEF ApiInv, ServerInv
<1>2. \A i \in issued' : IssueOK(i, file, now) /\ IssueOK(i, file', now')
  BY <1>1, IssueKept DEF ApiInv
<1>3. IsFiniteSet(accepted')
  BY FS_AddElement DEF ApiInv
<1>4. \A a \in accepted' : AcceptedOK(a, issued', file) /\ Served(a, file)
  BY DEF ApiInv, AcceptedOnlyIssued, AcceptedOK, Served
<1>5. \A a \in accepted' : a.oracle \in Oracles /\ file'[a.oracle] = file[a.oracle]
  BY <1>1, <1>4 DEF Served
<1>6. /\ AcceptedOnlyIssued'
      /\ \A a \in accepted' : a.oracle \in Oracles /\ file'[a.oracle] # {}
  BY <1>4, <1>5 DEF AcceptedOK, AcceptedOnlyIssued, Served
<1>7. ASSUME NEW s \in Sessions
      PROVE  SessionOK(s, session[s], issued', accepted')
  <2>1. SessionOK(s, session[s], issued, accepted)
    BY DEF ApiInv
  <2>2. QED
    BY <1>3, <2>1, SessionKept
<1>8. session \in [Sessions -> SessionStates]
  BY DEF ApiInv
<1>9. /\ session' \in [Sessions -> SessionStates]
      /\ \A s \in Sessions : SessionOK(s, session'[s], issued', accepted')
  <2>1. CASE session' = session
    BY <1>7, <1>8, <2>1
  <2>2. ASSUME NEW s \in Sessions, NEW q, session' = [session EXCEPT ![s] = q],
               SessionOK(s, q, issued', accepted')
        PROVE  /\ session' \in [Sessions -> SessionStates]
               /\ \A r \in Sessions : SessionOK(r, session'[r], issued', accepted')
    <3>1. q \in SessionStates
      BY <2>2, SessionFields
    <3>2. session'[s] = q /\ \A r \in Sessions : r # s => session'[r] = session[r]
      BY <1>8, <2>2
    <3>3. session' \in [Sessions -> SessionStates]
      BY <1>8, <2>2, <3>1
    <3>4. QED
      BY <1>7, <2>2, <3>2, <3>3
  <2>3. QED
    BY <2>1, <2>2
<1>10. QED
  BY <1>1, <1>2, <1>3, <1>6, <1>9 DEF ApiInv

\* A server accepts a challenge that was issued only for the name it was made for and
\* within the window; a server that drew its secret, only if it made the challenge.
LEMMA AcceptedWasIssued ==
  ASSUME ApiInv, NEW o \in Oracles, Up(o), NEW i \in issued, NEW d \in Spellings,
         NEW solved, Accepts(o, Token(i.challenge, solved), d)
  PROVE  /\ i.domain = Normalized(d)
         /\ file[o] # EmptyFile => i.oracle = o
         /\ now - i.challenge.timestamp \in 0..Window
<1>1. /\ i \in Issues /\ i.challenge \in Challenges /\ i.challenge.domain = i.domain
      /\ i.challenge.timestamp \in Nat /\ i.challenge.timestamp <= now /\ i.oracle \in Oracles
      /\ i.challenge.secret = file[i.oracle] /\ file[i.oracle] # {}
  BY DEF ApiInv, IssueOK, Issues, Challenges
<1>2. now \in Nat /\ secret[o] = file[o]
  BY DEF ApiInv, ServerInv, Up
<1>3. /\ i.challenge = Challenge(Normalized(d), i.challenge.timestamp, secret[o])
      /\ Age(i.challenge.timestamp) <= Window
  BY DEF Accepts, Validates, Token
<1>4. i.challenge.domain = Normalized(d) /\ i.challenge.secret = secret[o]
  BY <1>3 DEF Challenge
<1>5. file[i.oracle] = file[o]
  BY <1>1, <1>2, <1>4
<1>6. now - i.challenge.timestamp \in 0..Window
  BY <1>1, <1>2, <1>3, WindowAssumption DEF Age
<1>7. QED
  BY <1>1, <1>4, <1>5, <1>6 DEF ApiInv, ServerInv

\* A client of its own keeps the invariant, whatever challenges it presents.
LEMMA DirectStep ==
  ASSUME ApiInv, [Next]_vars, NEW o \in Oracles, DirectObserve(o)
  PROVE  ApiInv'
<1>1. /\ registered' = registered /\ oracles' = oracles /\ session' = session
      /\ issued' = issued
  BY DEF DirectObserve
<1>2. PICK c \in Presentable, d \in Spellings, solved \in BOOLEAN :
        /\ Accepts(o, Token(c, solved), d)
        /\ accepted' = accepted \cup
             {[oracle |-> o, name |-> d.name, at |-> now, solved |-> solved, by |-> "direct"]}
  BY DEF DirectObserve
<1> DEFINE a == [oracle |-> o, name |-> d.name, at |-> now, solved |-> solved, by |-> "direct"]
<1>3. Up(o) /\ file[o] # {} /\ secret[o] = file[o]
  BY DEF DirectObserve, ApiInv, ServerInv, Up
<1>4. solved = TRUE /\ c.secret = secret[o]
  BY <1>2 DEF Accepts, Validates, Token, Challenge
<1>5. ASSUME file[o] # EmptyFile
      PROVE  \E i \in issued : /\ i.oracle = o /\ i.domain.name = d.name
                               /\ now - i.challenge.timestamp \in 0..Window
  <2>1. \A e \in Spellings, t \in 0..(MaxTime + Window) : Challenge(e, t, EmptyFile).secret = EmptyFile
    BY DEF Challenge
  <2>2. PICK i \in issued : c = i.challenge
    BY <1>3, <1>4, <1>5, <2>1 DEF Presentable
  <2>3. /\ i.domain = Normalized(d) /\ i.oracle = o
        /\ now - i.challenge.timestamp \in 0..Window
    BY <1>2, <1>3, <1>5, <2>2, AcceptedWasIssued
  <2>4. Normalized(d).name = d.name
    BY DEF Normalized, Spellings
  <2>5. QED
    BY <2>3, <2>4
<1>6. a.solved /\ a.oracle = o /\ a.name = d.name /\ a.at = now
  BY <1>4
<1>7. accepted' = accepted \cup {a}
  BY <1>2
<1> HIDE DEF a
<1>8. AcceptedOK(a, issued, file) /\ Served(a, file)
  BY <1>3, <1>5, <1>6 DEF AcceptedOK, Served
<1>9. QED
  BY <1>1, <1>7, <1>8, ApiKept DEF ApiInv

\* An answer with a challenge gives the visit a token for that oracle.
LEMMA ChallengeStep ==
  ASSUME ApiInv, [Next]_vars, NEW s \in Sessions, NEW o \in Oracles, HandlePowChallenge(s, o)
  PROVE  ApiInv'
<1> DEFINE q == session[s]
           c == Challenge(q.domain, now, secret[o])
           i == Issue(o, q.domain, c)
           x == [oracle |-> o, token |-> Token(c, TRUE)]
           next == [q EXCEPT !.waiting = @ \ {o}, !.tokens = @ \cup {x}]
<1>1. /\ q.step = "challenges" /\ Up(o) /\ issued' = issued \cup {i}
      /\ registered' = registered /\ oracles' = oracles /\ accepted' = accepted
  BY DEF HandlePowChallenge, Issue
<1>2. session' = [session EXCEPT ![s] = next]
  BY DEF HandlePowChallenge
<1>3. q \in Collecting /\ TokensOK(q, issued)
  <2>1. SessionOK(s, q, issued, accepted)
    BY DEF ApiInv
  <2>2. QED
    BY <1>1, <2>1, SessionFields
<1>4. /\ now \in Nat /\ secret[o] = file[o] /\ file[o] # {} /\ secret[o] \in SUBSET Nat
  BY <1>1 DEF ApiInv, ServerInv, Up
<1>5. c \in Challenges /\ c.domain = q.domain /\ c.timestamp = now /\ c.secret = secret[o]
  BY <1>3, <1>4 DEF Challenge, Challenges, Collecting
<1> HIDE DEF c
<1>6. IssueOK(i, file, now)
  <2>1. i \in Issues /\ i.oracle = o /\ i.domain = q.domain /\ i.challenge = c
    BY <1>3, <1>5 DEF Issue, Issues, Collecting
  <2>2. QED
    BY <1>4, <1>5, <2>1 DEF IssueOK
<1>7. x \in HeldTokens
  BY <1>5 DEF HeldTokens
<1>8. x.oracle = o /\ x.token = Token(c, TRUE)
  OBVIOUS
<1> HIDE DEF x
<1>9. /\ next \in Collecting /\ next.domain = q.domain /\ next.tokens = q.tokens \cup {x}
  BY <1>3, <1>7 DEF Collecting
<1> HIDE DEF next
<1>10. TokensOK(next, issued')
  <2>1. \A y \in q.tokens :
          \E e \in Challenges : y.token = Token(e, TRUE) /\ Issue(y.oracle, q.domain, e) \in issued
    BY <1>3 DEF TokensOK
  <2>2. Issue(x.oracle, q.domain, c) \in issued'
    BY <1>1, <1>8
  <2>3. QED
    BY <1>1, <1>5, <1>8, <1>9, <2>1, <2>2 DEF TokensOK
<1>11. SessionOK(s, next, issued', accepted')
  BY <1>9, <1>10 DEF SessionOK
<1> HIDE DEF i
<1>12. QED
  BY <1>1, <1>2, <1>6, <1>11, ApiKept DEF ApiInv

\* A request of the frontend that an oracle accepts.
LEMMA ObserveStep ==
  ASSUME ApiInv, [Next]_vars, NEW s \in Sessions, NEW o \in Oracles, HandleObserve(s, o)
  PROVE  ApiInv'
<1> DEFINE q == session[s]
           a == [oracle |-> o, name |-> q.domain.name, at |-> now, solved |-> TRUE, by |-> s]
<1>1. /\ q.step = "submit" /\ Up(o) /\ accepted' = accepted \cup {a}
      /\ registered' = registered /\ oracles' = oracles /\ issued' = issued
  BY DEF HandleObserve
<1>2. PICK answered \in {{o}, {}} :
        session' = [session EXCEPT ![s].waiting = @ \ {o}, ![s].succeeded = @ \cup answered]
  BY DEF HandleObserve
<1> DEFINE next == [q EXCEPT !.waiting = @ \ {o}, !.succeeded = @ \cup answered]
<1>3. session' = [session EXCEPT ![s] = next]
  BY <1>2
<1>4. PICK token \in TokensFor(q, o) : Accepts(o, token, Dotted(q.domain))
  BY DEF HandleObserve
<1>5. /\ q \in Submitting /\ TokensOK(q, issued)
      /\ q.succeeded \subseteq Acceptors(s, q.domain.name, accepted)
  <2>1. SessionOK(s, q, issued, accepted)
    BY DEF ApiInv
  <2>2. QED
    BY <1>1, <2>1, SessionFields
<1>6. PICK c \in Challenges : token = Token(c, TRUE) /\ Issue(o, q.domain, c) \in issued
  BY <1>5 DEF TokensFor, TokensOK
<1> DEFINE i == Issue(o, q.domain, c)
<1>7. i.oracle = o /\ i.domain = q.domain /\ i.challenge = c /\ i \in issued
  BY <1>6 DEF Issue
<1> HIDE DEF i
<1>8. Dotted(q.domain) \in Spellings
  BY <1>5 DEF Dotted, Spellings, Submitting
<1>9. now - i.challenge.timestamp \in 0..Window
  BY <1>1, <1>4, <1>6, <1>7, <1>8, AcceptedWasIssued
<1>10. AcceptedOK(a, issued, file) /\ Served(a, file)
  BY <1>1, <1>7, <1>9 DEF AcceptedOK, Served, ApiInv, ServerInv, Up
<1>11. a.oracle = o /\ a.name = q.domain.name /\ a.by = s
  OBVIOUS
<1> HIDE DEF a
<1>12. /\ next \in Submitting /\ next.domain = q.domain /\ next.tokens = q.tokens
       /\ next.succeeded = q.succeeded \cup answered
  BY <1>5 DEF Submitting
<1> HIDE DEF next
<1>13. SessionOK(s, next, issued', accepted')
  <2>1. TokensOK(next, issued')
    BY <1>1, <1>5, <1>12 DEF TokensOK
  <2>2. o \in Acceptors(s, q.domain.name, accepted')
    BY <1>1, <1>11 DEF Acceptors
  <2>3. Acceptors(s, q.domain.name, accepted) \subseteq Acceptors(s, q.domain.name, accepted')
    BY <1>1 DEF Acceptors
  <2>4. next.succeeded \subseteq Acceptors(s, next.domain.name, accepted')
    BY <1>5, <1>12, <2>2, <2>3
  <2>5. QED
    BY <1>12, <2>1, <2>4 DEF SessionOK
<1>14. QED
  BY <1>1, <1>3, <1>10, <1>13, ApiKept DEF ApiInv

\* Steps of a visit that concern no oracle.
LEMMA VisitStep ==
  ASSUME ApiInv, [Next]_vars, NEW s \in Sessions,
         \/ \E d \in Spellings : RequestChallenges(s, d)
         \/ \E o \in Oracles : NoToken(s, o) \/ ObserveFails(s, o)
         \/ Submit(s) \/ ReportResults(s)
  PROVE  ApiInv'
<1> DEFINE q == session[s]
<1>1. SessionOK(s, q, issued, accepted) /\ registered \subseteq Oracles
      /\ oracles \subseteq SUBSET Oracles /\ IsFiniteSet(accepted)
  BY DEF ApiInv
<1> HIDE DEF q
<1>2. ASSUME issued' = issued, accepted' = accepted, registered' = registered,
             oracles' \subseteq SUBSET Oracles, NEW next,
             session' = [session EXCEPT ![s] = next], SessionOK(s, next, issued, accepted)
      PROVE  ApiInv'
  BY <1>1, <1>2, ApiKept
<1>3. ASSUME NEW d \in Spellings, RequestChallenges(s, d)
      PROVE  ApiInv'
  <2> DEFINE next == [step |-> "challenges", domain |-> d, waiting |-> UNION oracles', tokens |-> {}]
  <2>1. /\ issued' = issued /\ accepted' = accepted /\ registered' = registered
        /\ session' = [session EXCEPT ![s] = next]
        /\ oracles' = oracles \/ oracles' = {registered}
    BY <1>3 DEF RequestChallenges
  <2>2. oracles' \subseteq SUBSET Oracles
    BY <1>1, <2>1
  <2>3. next \in Collecting /\ TokensOK(next, issued)
    BY <2>2 DEF Collecting, TokensOK
  <2>4. SessionOK(s, next, issued, accepted)
    BY <2>3 DEF SessionOK
  <2> HIDE DEF next
  <2>5. QED
    BY <1>2, <2>1, <2>2, <2>4
<1>4. ASSUME NEW o \in Oracles, NoToken(s, o)
      PROVE  ApiInv'
  <2> DEFINE next == [q EXCEPT !.waiting = @ \ {o}]
  <2>1. /\ issued' = issued /\ accepted' = accepted /\ registered' = registered
        /\ session' = [session EXCEPT ![s] = next] /\ oracles' = oracles
        /\ q.step = "challenges"
    BY <1>4 DEF NoToken, q
  <2>2. q \in Collecting /\ TokensOK(q, issued)
    BY <1>1, <2>1, SessionFields
  <2>3. next \in Collecting /\ next.domain = q.domain /\ next.tokens = q.tokens
    BY <2>2 DEF Collecting
  <2> HIDE DEF next
  <2>4. SessionOK(s, next, issued, accepted)
    BY <2>2, <2>3 DEF SessionOK, TokensOK
  <2>5. QED
    BY <1>1, <1>2, <2>1, <2>4
<1>5. ASSUME NEW o \in Oracles, ObserveFails(s, o)
      PROVE  ApiInv'
  <2> DEFINE next == [q EXCEPT !.waiting = @ \ {o}]
  <2>1. /\ issued' = issued /\ accepted' = accepted /\ registered' = registered
        /\ session' = [session EXCEPT ![s] = next] /\ oracles' = oracles
        /\ q.step = "submit"
    BY <1>5 DEF ObserveFails, q
  <2>2. /\ q \in Submitting /\ TokensOK(q, issued)
        /\ q.succeeded \subseteq Acceptors(s, q.domain.name, accepted)
    BY <1>1, <2>1, SessionFields
  <2>3. /\ next \in Submitting /\ next.domain = q.domain /\ next.tokens = q.tokens
        /\ next.succeeded = q.succeeded
    BY <2>2 DEF Submitting
  <2> HIDE DEF next
  <2>4. SessionOK(s, next, issued, accepted)
    BY <2>2, <2>3 DEF SessionOK, TokensOK
  <2>5. QED
    BY <1>1, <1>2, <2>1, <2>4
<1>6. ASSUME Submit(s)
      PROVE  ApiInv'
  <2> DEFINE next == [step |-> "submit", domain |-> q.domain, tokens |-> q.tokens,
                      waiting |-> UNION oracles, succeeded |-> {}]
  <2>1. /\ issued' = issued /\ accepted' = accepted /\ registered' = registered
        /\ session' = [session EXCEPT ![s] = IF q.tokens = {} THEN Idle ELSE next]
        /\ oracles' = oracles /\ q.step = "challenges"
    BY <1>6 DEF Submit, q
  <2>2. q \in Collecting /\ TokensOK(q, issued)
    BY <1>1, <2>1, SessionFields
  <2>3. /\ next \in Submitting /\ next.domain = q.domain /\ next.tokens = q.tokens
        /\ next.succeeded = {}
    BY <1>1, <2>2 DEF Collecting, Submitting
  <2> HIDE DEF next
  <2>4. SessionOK(s, next, issued, accepted) /\ SessionOK(s, Idle, issued, accepted)
    BY <2>2, <2>3 DEF SessionOK, TokensOK
  <2>5. QED
    BY <1>1, <1>2, <2>1, <2>4
<1>7. ASSUME ReportResults(s)
      PROVE  ApiInv'
  <2> DEFINE next == [step |-> "done", domain |-> q.domain, submitted |-> CountSuccesses(q)]
  <2>1. /\ issued' = issued /\ accepted' = accepted /\ registered' = registered
        /\ session' = [session EXCEPT ![s] = next]
        /\ oracles' = oracles /\ q.step = "submit"
    BY <1>7 DEF ReportResults, q
  <2>2. /\ q \in Submitting
        /\ q.succeeded \subseteq Acceptors(s, q.domain.name, accepted)
    BY <1>1, <2>1, SessionFields
  <2>3. IsFiniteSet(Acceptors(s, q.domain.name, accepted))
    BY <1>1, AcceptorsGrow
  <2>4. /\ CountSuccesses(q) \in Nat
        /\ CountSuccesses(q) <= Cardinality(Acceptors(s, q.domain.name, accepted))
    BY <2>2, <2>3, FS_Subset, FS_CardinalityType DEF CountSuccesses
  <2>5. /\ next \in Finished /\ next.domain = q.domain /\ next.submitted = CountSuccesses(q)
    BY <2>2, <2>4 DEF Finished, Submitting
  <2> HIDE DEF next
  <2>6. SessionOK(s, next, issued, accepted)
    BY <2>4, <2>5 DEF SessionOK
  <2>7. QED
    BY <1>1, <1>2, <2>1, <2>6
<1>8. QED
  BY <1>3, <1>4, <1>5, <1>6, <1>7

----------------------------------------------------------------------------
(* The theorems.                                                           *)

\* At first there are no files, no challenges and no visits.
LEMMA ApiInit == Init => ApiInv
<1> SUFFICES ASSUME Init
             PROVE  ApiInv
  OBVIOUS
<1>1. ServerInv
  BY DEF Init, ServerInv
<1>2. \A s : SessionOK(s, Idle, issued, accepted)
  BY DEF SessionOK
<1>3. session \in [Sessions -> SessionStates] /\ \A s \in Sessions : session[s] = Idle
  BY DEF Init, SessionStates
<1>4. /\ issued = {} /\ accepted = {} /\ registered \subseteq Oracles /\ oracles = {}
  BY DEF Init
<1>5. IsFiniteSet(accepted) /\ AcceptedOnlyIssued
  BY <1>4, FS_EmptySet DEF AcceptedOnlyIssued
<1>6. \A s \in Sessions : SessionOK(s, session[s], issued, accepted)
  BY <1>2, <1>3
<1>7. QED
  BY <1>1, <1>3, <1>4, <1>5, <1>6 DEF ApiInv

\* Every step of servers, clients, the frontend and visits keeps the invariant.
LEMMA ApiStep == ApiInv /\ [Next]_vars => ApiInv'
<1> SUFFICES ASSUME ApiInv, [Next]_vars
             PROVE  ApiInv'
  OBVIOUS
<1>1. ASSUME UNCHANGED <<session, issued, accepted>>,
             registered' \subseteq Oracles, oracles' \subseteq SUBSET Oracles
      PROVE  ApiInv'
  BY <1>1, ApiKept
<1>2. registered \subseteq Oracles /\ oracles \subseteq SUBSET Oracles
  BY DEF ApiInv
<1>3. ASSUME NEW o \in Oracles, Start(o) \/ StartCutShort(o) \/ Stop(o) \/ Register(o)
      PROVE  ApiInv'
  <2>1. /\ UNCHANGED <<session, issued, accepted, oracles>>
        /\ registered' = registered \/ registered' = registered \cup {o}
    BY <1>3 DEF Start, StartCutShort, Stop, Register
  <2>2. QED
    BY <1>1, <1>2, <2>1
<1>4. CASE GetOracles
  <2>1. UNCHANGED <<session, issued, accepted, registered>> /\ oracles' = {registered}
    BY <1>4 DEF GetOracles
  <2>2. QED
    BY <1>1, <1>2, <2>1
<1>5. CASE Tick \/ UNCHANGED vars
  <2>1. UNCHANGED <<session, issued, accepted, registered, oracles>>
    BY <1>5 DEF Tick, vars
  <2>2. QED
    BY <1>1, <1>2, <2>1
<1>6. QED
  BY <1>3, <1>4, <1>5, DirectStep, ChallengeStep, ObserveStep, VisitStep DEF Next

\* The invariant holds in every reachable state.
THEOREM ApiInvariant == Spec => []ApiInv
<1>1. QED
  BY ApiInit, ApiStep, PTL DEF Spec

\* A token for a name typed without a final dot is redeemed, although the frontend
\* submits the name with one and whatever servers stopped and started since: the
\* normal form undoes the dot, and a start reads back the secret that made the
\* challenge.
THEOREM TokensAreRedeemable == Spec => []TokenRedeemable
<1>1. ApiInv => TokenRedeemable
  <2> SUFFICES ASSUME ApiInv, NEW s \in Sessions, NEW o \in Oracles,
                      session[s].step = "submit", NEW token \in TokensFor(session[s], o),
                      session[s].domain.normal, Up(o), Age(token.timestamp) <= Window
               PROVE  Accepts(o, token, Dotted(session[s].domain))
    BY DEF TokenRedeemable
  <2> DEFINE q == session[s]
             d == q.domain
  <2>1. q \in Submitting /\ TokensOK(q, issued)
    <3>1. SessionOK(s, q, issued, accepted)
      BY DEF ApiInv
    <3>2. QED
      BY <3>1, SessionFields
  <2>2. PICK c \in Challenges : token = Token(c, TRUE) /\ Issue(o, d, c) \in issued
    BY <2>1 DEF TokensFor, TokensOK
  <2>3. /\ c.domain = d /\ c.secret = file[o] /\ file[o] # {}
    <3>1. IssueOK(Issue(o, d, c), file, now)
      BY <2>2 DEF ApiInv
    <3>2. QED
      BY <3>1 DEF IssueOK, Issue
  <2>4. secret[o] = file[o]
    BY DEF ApiInv, ServerInv, Up
  <2>5. Normalized(Dotted(d)) = d
    <3>1. d \in Spellings /\ d.normal = TRUE
      BY <2>1 DEF Submitting, Spellings
    <3>2. QED
      BY <3>1 DEF Normalized, Dotted, Spellings
  <2>6. c = Challenge(d, c.timestamp, secret[o])
    BY <2>3, <2>4 DEF Challenges, Challenge
  <2>7. token.challenge = c /\ token.timestamp = c.timestamp /\ token.solved
    BY <2>2 DEF Token
  <2> HIDE DEF q, d
  <2>8. Accepts(o, token, Dotted(d))
    BY <2>5, <2>6, <2>7 DEF Accepts, Validates
  <2>9. QED
    BY <2>8 DEF d, q
<1>2. QED
  BY <1>1, ApiInvariant, PTL

\* An oracle that drew its secret works only for proofs of work that it asked for
\* itself, for that name and within the window, whoever presents them, and although
\* clients can make up challenges for the servers whose secret was never written.  Of
\* those servers it says no more than that a solution was presented.
THEOREM OnlyIssuedIsAccepted == Spec => []AcceptedOnlyIssued
<1>1. ApiInv => AcceptedOnlyIssued
  BY DEF ApiInv
<1>2. QED
  BY <1>1, ApiInvariant, PTL

\* What the page reports as submitted was accepted by as many oracles, although
\* answers may be lost, and requests refused, in any order.
THEOREM ReportsAreTruthful == Spec => []ReportTruthful
<1>1. ApiInv => ReportTruthful
  <2> SUFFICES ASSUME ApiInv, NEW s \in Sessions, session[s].step = "done"
               PROVE  session[s].submitted
                        <= Cardinality(Acceptors(s, session[s].domain.name, accepted))
    BY DEF ReportTruthful, Acceptors
  <2>1. SessionOK(s, session[s], issued, accepted)
    BY DEF ApiInv
  <2>2. QED
    BY <2>1, SessionFields
<1>2. QED
  BY <1>1, ApiInvariant, PTL

=============================================================================
