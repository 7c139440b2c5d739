---------------------------- MODULE Transactions ----------------------------
(***************************************************************************)
(* The way of a transaction: a client builds it from its admin's or        *)
(* oracle's intent, converts it to protobuf, signs it, and submits it; the *)
(* chain verifies the signatures, converts it back, and applies its        *)
(* actions one by one.                                                     *)
(*                                                                         *)
(* Nothing ties what a block includes to what clients submitted, except    *)
(* that signatures cannot be made up: a block may hold a transaction late, *)
(* twice, for another chain, damaged, or put together from actions of      *)
(* others, with signatures taken from wherever there are some.             *)
(*                                                                         *)
(* An optional protobuf field is a set with at most one element.  Hashing  *)
(* is collision free.  Durations are ticks; on the wire they are seconds,  *)
(* in integers of limited width.                                           *)
(***************************************************************************)
EXTENDS Chain

CONSTANTS
  ChainId, OtherChain,  \* this chain, and another one with the same keys
  Keyrings,             \* the sets of identities that one signer holds keys of
  GenesisFiles,         \* configs that the genesis file may hold, as written there
  Intents,              \* configs that admins may ask for, as written in their files
  Observations,         \* what oracles may witness: [domain, zone, hash, stamp]
  I64Max, U32Max,       \* the widest integers
  Grace,                \* not_before_grace of the admin client
  SignatureTimeout,     \* signature_timeout of the admin client
  MaxLag,               \* bound: how far block time is behind the wall clock
  MaxSigned             \* bound: number of transactions that clients sign

ASSUME WidthAssumption == I64Max \in Nat /\ U32Max \in Nat /\ U32Max <= I64Max
ASSUME GraceAssumption ==
  Grace \in Nat /\ MaxLag \in 0..Grace /\ SignatureTimeout \in Nat

\* The Config structure: its version is a u32, other numbers are u64, durations are
\* not negative.
ConfigType ==
  [version : 0..U32Max,
   admins : [voting : VotingType, authorized : SUBSET Identities, entries : Nat, total : Nat],
   oracles : [voting : VotingType, authorized : SUBSET Identities, entries : Nat, total : Nat,
              max_enrolled_subdomains : Nat, observation_timeout : Nat]]

\* The Observation structure; CometBFT's heights are i64.
ObservationType ==
  [domain : Domains, zone : Zones, hash : Hashes \cup {NotFound},
   height : 0..I64Max, appHash : Nat]

ASSUME IntentsAssumption == Intents \cup GenesisFiles \subseteq ConfigType
ASSUME ObservationsAssumption == Observations \subseteq ObservationType
ASSUME KeyringsAssumption == Keyrings \subseteq SUBSET Identities

VARIABLES
  clock,      \* the wall clock of the clients
  signed,     \* signatures that exist: [key, body]
  asked,      \* history: the transactions that clients were asked to submit
  executing   \* actions of the current transaction that are still to be applied

chainVars == vars
txVars == <<chainVars, clock, signed, asked, executing>>

----------------------------------------------------------------------------
(* Conversion to protobuf and back.                                        *)

\* Mutant: a cast, which wraps around.
MutantToI64(n) == IF n > I64Max THEN I64Max - n ELSE n

\* i64::try_from(n).unwrap_or(i64::MAX)
ToI64(n) == IF n > I64Max THEN I64Max ELSE n

\* Whole seconds.
EncodeDuration(ticks) == ToI64(ticks \div TicksPerSecond)

DecodeDuration(seconds) == seconds * TicksPerSecond

\* u64::try_from and u32::try_from succeed.
FitsU64(n) == n >= 0
FitsU32(n) == n \in 0..U32Max

EncodeVoting(v) ==
  [quorum |-> ToI64(v.quorum), timeout |-> EncodeDuration(v.timeout),
   delay |-> EncodeDuration(v.delay)]

DecodesVoting(v) == FitsU64(v.quorum) /\ FitsU64(v.timeout) /\ FitsU64(v.delay)

DecodeVoting(v) ==
  [quorum |-> v.quorum, timeout |-> DecodeDuration(v.timeout),
   delay |-> DecodeDuration(v.delay)]

EncodeAdmins(a) == [a EXCEPT !.total = ToI64(@), !.voting = EncodeVoting(@)]

EncodeOracles(o) ==
  [o EXCEPT !.total = ToI64(@), !.voting = EncodeVoting(@),
            !.max_enrolled_subdomains = ToI64(@),
            !.observation_timeout = EncodeDuration(@)]

DecodeOracles(o) ==
  [o EXCEPT !.voting = DecodeVoting(@), !.observation_timeout = DecodeDuration(@)]

EncodeConfig(c) ==
  [version |-> c.version, admins |-> EncodeAdmins(c.admins),
   oracles |-> EncodeOracles(c.oracles)]

DecodesConfig(c) ==
  /\ FitsU32(c.version)
  /\ FitsU64(c.admins.total) /\ DecodesVoting(c.admins.voting)
  /\ FitsU64(c.oracles.total) /\ DecodesVoting(c.oracles.voting)
  /\ FitsU64(c.oracles.max_enrolled_subdomains)
  /\ FitsU64(c.oracles.observation_timeout)

DecodeConfig(c) ==
  [version |-> c.version,
   admins |-> [c.admins EXCEPT !.voting = DecodeVoting(@)],
   oracles |-> DecodeOracles(c.oracles)]

\* The bytes of a hash: 32 of them, or none when nothing was found.
EncodeHash(x) == IF x = NotFound THEN {} ELSE {x}
DecodesHash(bytes) == bytes = {} \/ bytes \subseteq Hashes
DecodeHash(bytes) == IF bytes = {} THEN NotFound ELSE CHOOSE x \in bytes : TRUE

EncodeObservation(o) == [o EXCEPT !.hash = EncodeHash(@), !.height = ToI64(@)]
DecodesObservation(o) == FitsU64(o.height) /\ DecodesHash(o.hash)
DecodeObservation(o) == [o EXCEPT !.hash = DecodeHash(@)]

\* What a config becomes on the way: durations lose their fraction of a second, and
\* what is too large becomes the largest value.
AsStored(c) == DecodeConfig(EncodeConfig(c))

----------------------------------------------------------------------------
(* Actions and transactions, for clients and on the wire.                  *)

ReconfigureAction(p, c, window) ==
  [kind |-> "reconfigure", identity |-> p, config |-> c, window |-> window]

ObserveAction(p, o) == [kind |-> "observe", identity |-> p, observation |-> o]

\* On the wire an action has the fields of its kind and the signature of its author,
\* which is blank (over nothing) until the transaction is signed.
Blank(p) == {[key |-> p, over |-> {}]}

EncodeAction(a) ==
  IF a.kind = "reconfigure"
  THEN [kind |-> a.kind, signature |-> Blank(a.identity),
        config |-> {EncodeConfig(a.config)}, window |-> {a.window}]
  ELSE [kind |-> a.kind, signature |-> Blank(a.identity),
        observation |-> {EncodeObservation(a.observation)}]

DecodesAction(a) ==
  /\ a.signature # {}
  /\ \/ /\ a.kind = "reconfigure" /\ a.config # {} /\ a.window # {}
        /\ \A c \in a.config : DecodesConfig(c)
     \/ /\ a.kind = "observe" /\ a.observation # {}
        /\ \A o \in a.observation : DecodesObservation(o)

Only(set) == CHOOSE x \in set : TRUE

DecodeAction(a) ==
  IF a.kind = "reconfigure"
  THEN ReconfigureAction(Only(a.signature).key, DecodeConfig(Only(a.config)), Only(a.window))
  ELSE ObserveAction(Only(a.signature).key, DecodeObservation(Only(a.observation)))

Map(f(_), seq) == [i \in DOMAIN seq |-> f(seq[i])]

Encode(tx) == [chain |-> tx.chain, actions |-> Map(EncodeAction, tx.actions)]

----------------------------------------------------------------------------
(* Signatures.                                                             *)

UnsignAction(a) == [a EXCEPT !.signature = {[s EXCEPT !.over = {}] : s \in @}]

\* unsign_all: keys stay, signatures go.
UnsignAll(msg) == [msg EXCEPT !.actions = Map(UnsignAction, @)]

\* Mutant: the chain id is not hashed.
MutantTxHash(msg) == UnsignAll(msg).actions

\* What is signed: everything but the signatures.
TxHash(msg) == UnsignAll(msg)

\* The keys of the signature fields that are there.
Signers(msg) ==
  {s.key : s \in UNION {msg.actions[i].signature : i \in DOMAIN msg.actions}}

\* sign_all fails when it has no key pair for one of the signatures.
SignAll(ring, msg) ==
  /\ Signers(msg) \subseteq ring
  /\ signed' = signed \cup {[key |-> p, body |-> msg] : p \in Signers(msg)}

Verifies(s, msg) == \E b \in s.over : TxHash(b) = TxHash(msg)

\* verify_all looks at the signatures that are there.
VerifyAll(msg) ==
  \A i \in DOMAIN msg.actions : \A s \in msg.actions[i].signature : Verifies(s, msg)

\* AuthenticatedTx::from_proto: all signatures verify, and all actions decode.
Authenticates(msg) ==
  VerifyAll(msg) /\ \A i \in DOMAIN msg.actions : DecodesAction(msg.actions[i])

\* A message with the signatures that its signer made for it.
Signed(msg) ==
  [msg EXCEPT !.actions =
     [i \in DOMAIN msg.actions |->
        [msg.actions[i] EXCEPT !.signature = {[s EXCEPT !.over = {msg}] : s \in @}]]]

----------------------------------------------------------------------------
(* Clients.                                                                *)

\* felidae_admin::reconfigure
Window == [notBefore |-> clock - Grace, notAfter |-> clock + SignatureTimeout]

ActionsOf(p) ==
  {ReconfigureAction(p, c, Window) : c \in Intents}
    \cup {ObserveAction(p, o) : o \in Observations}

\* The Builder takes any number of actions; the clients use one.
TxsOf(ring) ==
  {[chain |-> c, actions |-> <<a>>] : c \in {ChainId, OtherChain},
                                      a \in UNION {ActionsOf(p) : p \in ring}}

\* The client authenticates what it signed before it sends it, which never fails
\* (AskedAuthenticates).
Submit(ring) ==
  /\ Cardinality(asked) < MaxSigned
  /\ \E tx \in TxsOf(ring) :
       /\ SignAll(ring, Encode(tx))
       /\ asked' = asked \cup {tx}
  /\ UNCHANGED <<chainVars, clock, executing>>

\* Fields that a client of another version leaves out, or fills with what does not fit.
Damaged(a) ==
  IF a.kind = "reconfigure"
  THEN {[a EXCEPT !.window = {}],
        [a EXCEPT !.config = {[c EXCEPT !.admins.voting.delay = -1] : c \in @}]}
  ELSE {[a EXCEPT !.observation = {[o EXCEPT !.hash = {"short"}] : o \in @}]}

\* The actions that ever were signed, each as it is, without its signature field, or
\* damaged.
Parts ==
  LET whole == UNION {{s.body.actions[i] : i \in DOMAIN s.body.actions} : s \in signed}
  IN  whole \cup {[a EXCEPT !.signature = {}] : a \in whole}
            \cup UNION {Damaged(a) : a \in whole}

\* Messages of up to two such actions, before anybody signs them.
Bodies ==
  [chain : {ChainId, OtherChain},
   actions : {<<>>} \cup {<<a>> : a \in Parts} \cup {<<a, b>> : a, b \in Parts}]

\* Clients that combine actions of their keys, or are of another version, sign too.
SubmitOther(ring) ==
  /\ Cardinality({s.body : s \in signed}) < MaxSigned
  /\ \E body \in Bodies :
       /\ body.chain = ChainId /\ Signers(body) # {}
       /\ SignAll(ring, body)
       /\ asked' = IF \A i \in DOMAIN body.actions : DecodesAction(body.actions[i])
                   THEN asked \cup {[chain |-> body.chain,
                                     actions |-> Map(DecodeAction, body.actions)]}
                   ELSE asked
  /\ UNCHANGED <<chainVars, clock, executing>>

\* A body with the signatures there are to put in: all that the key of the field ever
\* made, of which the one that verifies, if any, is taken.
WithSignatures(body) ==
  LET signedBy(p) == {x.body : x \in {y \in signed : y.key = p}}
      attach(a) == [a EXCEPT !.signature = {[s EXCEPT !.over = signedBy(s.key)] : s \in @}]
  IN  [body EXCEPT !.actions = Map(attach, @)]

----------------------------------------------------------------------------
(* The chain.                                                              *)

\* The genesis config is stored, and read back from the store ever after.
TxInit ==
  /\ Init
  /\ \E g \in GenesisFiles : DecodesConfig(EncodeConfig(g)) /\ config = AsStored(g)
  /\ clock = 0
  /\ signed = {} /\ asked = {}
  /\ executing = <<>>

\* deliver_tx up to its loop; a message that does not get there changes nothing.
DeliverTx(msg) ==
  /\ Authenticates(msg)
  /\ msg.chain = ChainId
  /\ msg.actions # <<>>
  /\ executing' = Map(DecodeAction, UnsignAll(msg).actions)
  /\ UNCHANGED <<chainVars, clock, signed, asked>>

Accepted(a) ==
  IF a.kind = "reconfigure"
  THEN ReconfigureAccepted(a.identity, a.config, a.window)
  ELSE LET o == a.observation
       IN  ObserveAccepted(a.identity, o.domain, o.zone, o.hash, o.height, o.appHash)

Apply(a) ==
  IF a.kind = "reconfigure" THEN Reconfigure(a.identity, a.config, a.window)
  ELSE LET o == a.observation
       IN  Observe(a.identity, o.domain, o.zone, o.hash, o.height, o.appHash)

\* The actions are applied in order; the first that fails ends the transaction, and
\* what the ones before it did stays.
ApplyAction ==
  /\ executing # <<>>
  /\ IF Accepted(Head(executing))
     THEN Apply(Head(executing)) /\ executing' = Tail(executing)
     ELSE UNCHANGED chainVars /\ executing' = <<>>
  /\ UNCHANGED <<clock, signed, asked>>

\* Block time follows the wall clock.
NextBlock ==
  /\ executing = <<>>
  /\ (\E t \in 1..clock : BeginBlock(t)) \/ EndBlock
  /\ UNCHANGED <<clock, signed, asked, executing>>

Tick ==
  /\ clock < MaxTime /\ clock < now + MaxLag
  /\ clock' = clock + 1
  /\ UNCHANGED <<chainVars, signed, asked, executing>>

TxNext ==
  \/ \E ring \in Keyrings : Submit(ring)
  \/ \E ring \in Keyrings : SubmitOther(ring)
  \/ /\ phase = "delivering" /\ executing = <<>>
     /\ \E body \in Bodies : DeliverTx(WithSignatures(body))
  \/ ApplyAction
  \/ NextBlock
  \/ Tick

TxSpec == TxInit /\ [][TxNext]_txVars

----------------------------------------------------------------------------
(* Properties.                                                             *)

\* What is left of a duration: whole seconds, and no more than a second less, unless
\* it is beyond the largest number.
SameDuration(given, stored) ==
  /\ stored % TicksPerSecond = 0 /\ stored <= given
  /\ given - stored < TicksPerSecond \/ stored = I64Max * TicksPerSecond

SameNumber(given, stored) == stored = given \/ (given > I64Max /\ stored = I64Max)

SameParties(given, stored) ==
  /\ stored.authorized = given.authorized /\ stored.entries = given.entries
  /\ SameNumber(given.total, stored.total)
  /\ SameNumber(given.voting.quorum, stored.voting.quorum)
  /\ SameDuration(given.voting.timeout, stored.voting.timeout)
  /\ SameDuration(given.voting.delay, stored.voting.delay)

SameConfig(given, stored) ==
  /\ stored.version = given.version
  /\ SameParties(given.admins, stored.admins)
  /\ SameParties(given.oracles, stored.oracles)
  /\ SameNumber(given.oracles.max_enrolled_subdomains, stored.oracles.max_enrolled_subdomains)
  /\ SameDuration(given.oracles.observation_timeout, stored.oracles.observation_timeout)

SameAction(given, stored) ==
  /\ stored.kind = given.kind /\ stored.identity = given.identity
  /\ \/ /\ given.kind = "reconfigure" /\ stored.window = given.window
        /\ SameConfig(given.config, stored.config)
     \/ given.kind = "observe" /\ stored.observation = given.observation

\* The chain executes a transaction only as all identities in it asked for and signed
\* it, whole, in its order, and for this chain, however messages were delayed,
\* repeated, damaged or put together from others.
ExecutesOnlyAsked ==
  executing # <<>> =>
    \E tx \in asked :
      LET done == Len(tx.actions) - Len(executing)
      IN  /\ tx.chain = ChainId /\ done >= 0
          /\ \A i \in DOMAIN executing : SameAction(tx.actions[done + i], executing[i])

\* Every vote of an admin that the chain holds, from transactions that failed later
\* too, is one that the admin asked for, cast inside the window of its signature.
BallotsInWindow ==
  \A b \in adminVotes :
    \E tx \in asked : \E i \in DOMAIN tx.actions :
      LET a == tx.actions[i]
      IN  /\ tx.chain = ChainId
          /\ a.kind = "reconfigure" /\ a.identity = b.party /\ SameConfig(a.config, b.value)
          /\ a.window.notBefore <= b.at /\ b.at <= a.window.notAfter

\* What a client signs always passes the chain's authentication and comes out as it
\* was meant, whatever numbers the config file held.
AskedAuthenticates ==
  \A tx \in asked :
    LET msg == Signed(Encode(tx))
    IN  /\ Authenticates(msg)
        /\ \A i \in DOMAIN tx.actions :
             SameAction(tx.actions[i], DecodeAction(msg.actions[i]))

=============================================================================
