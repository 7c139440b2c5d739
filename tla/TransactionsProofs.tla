------------------------- MODULE TransactionsProofs -------------------------
(***************************************************************************)
(* Proofs about Transactions: for any number of clients, keys, configs and *)
(* signed transactions, whatever is put together from them.                *)
(***************************************************************************)
EXTENDS Transactions, ChainProofs

----------------------------------------------------------------------------
(* Numbers and durations.                                                  *)

\* A number of whole seconds has no fraction.
LEMMA WholeSeconds ==
  ASSUME NEW s \in Nat
  PROVE  s * TicksPerSecond \in Nat /\ (s * TicksPerSecond) % TicksPerSecond = 0
<1> DEFINE x == s * TicksPerSecond
           q == x \div TicksPerSecond
           r == x % TicksPerSecond
<1>1. TicksPerSecond \in Nat /\ TicksPerSecond > 0
  BY TimeAssumption
<1>2. x \in Nat
  BY <1>1
<1>3. q \in Int /\ r \in 0..(TicksPerSecond - 1) /\ x = TicksPerSecond * q + r
  <2> HIDE DEF x
  <2>1. QED
    BY <1>1, <1>2
<1>4. TicksPerSecond * (s - q) = r
  BY <1>1, <1>3
<1> HIDE DEF q, r, x
<1>5. CASE s - q >= 1
  <2>1. TicksPerSecond * (s - q) >= TicksPerSecond
    BY <1>1, <1>3, <1>5
  <2>2. QED
    BY <1>1, <1>3, <1>4, <2>1
<1>6. CASE s - q <= -1
  <2>1. TicksPerSecond * (s - q) <= -TicksPerSecond
    BY <1>1, <1>3, <1>6
  <2>2. QED
    BY <1>1, <1>3, <1>4, <2>1
<1>7. CASE s - q = 0
  <2>1. r = 0
    BY <1>1, <1>4, <1>7
  <2>2. QED
    BY <1>2, <2>1 DEF r, x
<1>8. QED
  BY <1>3, <1>5, <1>6, <1>7

\* Saturation keeps a number a number, and keeps it if it fits.
LEMMA SaturatedNumber ==
  ASSUME NEW n \in Nat
  PROVE  ToI64(n) \in 0..I64Max /\ SameNumber(n, ToI64(n)) /\ (n <= I64Max => ToI64(n) = n)
  BY WidthAssumption DEF ToI64, SameNumber

\* A duration comes back from the wire in whole seconds, less than a second shorter
\* unless it is too large.
LEMMA DurationComesBack ==
  ASSUME NEW t \in Nat
  PROVE  /\ EncodeDuration(t) \in Nat
         /\ SameDuration(t, DecodeDuration(EncodeDuration(t)))
<1> DEFINE T == TicksPerSecond
           s == t \div T
           r == t % T
<1>1. T \in Nat /\ T > 0
  BY TimeAssumption
<1>2. s \in Nat /\ r \in 0..(T - 1) /\ t = T * s + r
  <2> HIDE DEF T
  <2>1. QED
    BY <1>1
<1> HIDE DEF r
<1>3. CASE s <= I64Max
  <2>1. EncodeDuration(t) = s
    BY <1>2, <1>3, WidthAssumption DEF EncodeDuration, ToI64
  <2>2. (s * T) % T = 0 /\ s * T \in Nat
    BY <1>2, WholeSeconds
  <2> HIDE DEF s, T
  <2>3. s * T = T * s
    BY <1>1, <1>2
  <2>4. s * T <= t /\ t - s * T < T
    BY <1>1, <1>2, <2>2, <2>3
  <2>5. QED
    BY <1>2, <2>1, <2>2, <2>4 DEF SameDuration, DecodeDuration, T
<1>4. CASE s > I64Max
  <2>1. EncodeDuration(t) = I64Max /\ I64Max \in Nat
    BY <1>2, <1>4, WidthAssumption DEF EncodeDuration, ToI64
  <2>2. (I64Max * T) % T = 0 /\ I64Max * T \in Nat
    BY <2>1, WholeSeconds
  <2> HIDE DEF s, T
  <2>3. I64Max * T <= T * s
    BY <1>1, <1>2, <1>4, <2>1
  <2>4. I64Max * T <= t
    BY <1>1, <1>2, <2>2, <2>3
  <2>5. QED
    BY <2>1, <2>2, <2>4 DEF SameDuration, DecodeDuration, T
<1>5. QED
  BY <1>2, <1>3, <1>4, WidthAssumption

\* A duration that was read from the wire is the same as itself: it has no fraction.
LEMMA DecodedDuration ==
  ASSUME NEW s \in Int, FitsU64(s)
  PROVE  DecodeDuration(s) \in Nat /\ SameDuration(DecodeDuration(s), DecodeDuration(s))
<1>1. s \in Nat
  BY DEF FitsU64
<1>2. DecodeDuration(s) \in Nat /\ DecodeDuration(s) % TicksPerSecond = 0
  BY <1>1, WholeSeconds DEF DecodeDuration
<1>3. QED
  BY <1>2, TimeAssumption DEF SameDuration

----------------------------------------------------------------------------
(* Configs.                                                                *)

\* On the wire numbers may be negative.
WireVoting == [quorum : Int, timeout : Int, delay : Int]
WireAdmins == [voting : WireVoting, authorized : SUBSET Identities, entries : Nat, total : Int]
WireOracles ==
  [voting : WireVoting, authorized : SUBSET Identities, entries : Nat, total : Int,
   max_enrolled_subdomains : Int, observation_timeout : Int]
WireConfig == [version : Int, admins : WireAdmins, oracles : WireOracles]

AdminsType ==
  [voting : VotingType, authorized : SUBSET Identities, entries : Nat, total : Nat]
OraclesType ==
  [voting : VotingType, authorized : SUBSET Identities, entries : Nat, total : Nat,
   max_enrolled_subdomains : Nat, observation_timeout : Nat]

SameVoting(given, stored) ==
  /\ SameNumber(given.quorum, stored.quorum)
  /\ SameDuration(given.timeout, stored.timeout)
  /\ SameDuration(given.delay, stored.delay)

\* A voting config comes back from the wire.
LEMMA VotingComesBack ==
  ASSUME NEW v \in VotingType
  PROVE  /\ EncodeVoting(v) \in WireVoting /\ DecodesVoting(EncodeVoting(v))
         /\ SameVoting(v, DecodeVoting(EncodeVoting(v)))
<1>1. v.quorum \in Nat /\ v.timeout \in Nat /\ v.delay \in Nat
  BY DEF VotingType
<1>2. /\ EncodeVoting(v).quorum = ToI64(v.quorum)
      /\ EncodeVoting(v).timeout = EncodeDuration(v.timeout)
      /\ EncodeVoting(v).delay = EncodeDuration(v.delay)
  BY DEF EncodeVoting
<1>3. /\ ToI64(v.quorum) \in Nat /\ EncodeDuration(v.timeout) \in Nat
      /\ EncodeDuration(v.delay) \in Nat
  BY <1>1, SaturatedNumber, DurationComesBack
<1>4. EncodeVoting(v) \in WireVoting
  BY <1>3 DEF EncodeVoting, WireVoting
<1>5. DecodesVoting(EncodeVoting(v))
  BY <1>2, <1>3 DEF DecodesVoting, FitsU64
<1>6. /\ SameNumber(v.quorum, ToI64(v.quorum))
      /\ SameDuration(v.timeout, DecodeDuration(EncodeDuration(v.timeout)))
      /\ SameDuration(v.delay, DecodeDuration(EncodeDuration(v.delay)))
  BY <1>1, SaturatedNumber, DurationComesBack
<1>7. SameVoting(v, DecodeVoting(EncodeVoting(v)))
  BY <1>2, <1>6 DEF DecodeVoting, SameVoting
<1>8. QED
  BY <1>4, <1>5, <1>7

\* A voting config that was read from the wire is one, and the same as itself.
LEMMA VotingDecoded ==
  ASSUME NEW w \in WireVoting, DecodesVoting(w)
  PROVE  DecodeVoting(w) \in VotingType /\ SameVoting(DecodeVoting(w), DecodeVoting(w))
<1>1. /\ w.quorum \in Int /\ w.timeout \in Int /\ w.delay \in Int
      /\ FitsU64(w.quorum) /\ FitsU64(w.timeout) /\ FitsU64(w.delay)
  BY DEF WireVoting, DecodesVoting
<1>2. /\ DecodeDuration(w.timeout) \in Nat /\ DecodeDuration(w.delay) \in Nat
      /\ SameDuration(DecodeDuration(w.timeout), DecodeDuration(w.timeout))
      /\ SameDuration(DecodeDuration(w.delay), DecodeDuration(w.delay))
  BY <1>1, DecodedDuration
<1>3. w.quorum \in Nat
  BY <1>1 DEF FitsU64
<1>4. DecodeVoting(w) \in VotingType
  BY <1>2, <1>3 DEF DecodeVoting, VotingType
<1>5. /\ DecodeVoting(w).timeout = DecodeDuration(w.timeout)
      /\ DecodeVoting(w).delay = DecodeDuration(w.delay)
  BY DEF DecodeVoting
<1>6. SameVoting(DecodeVoting(w), DecodeVoting(w))
  BY <1>2, <1>5 DEF SameVoting, SameNumber
<1>7. QED
  BY <1>4, <1>6

\* What conversion does to the list of admins, field by field.
LEMMA AdminsConverted ==
  /\ \A a \in AdminsType :
       /\ EncodeAdmins(a).voting = EncodeVoting(a.voting)
       /\ EncodeAdmins(a).authorized = a.authorized
       /\ EncodeAdmins(a).entries = a.entries
       /\ EncodeAdmins(a).total = ToI64(a.total)
       /\ EncodeAdmins(a) \in WireAdmins
  /\ \A w \in WireAdmins : LET b == [w EXCEPT !.voting = DecodeVoting(@)] IN
       /\ b.voting = DecodeVoting(w.voting) /\ b.authorized = w.authorized
       /\ b.entries = w.entries /\ b.total = w.total
       /\ w.total >= 0 /\ DecodesVoting(w.voting) => b \in AdminsType
<1>1. ASSUME NEW a \in AdminsType
      PROVE  /\ EncodeAdmins(a).voting = EncodeVoting(a.voting)
             /\ EncodeAdmins(a).authorized = a.authorized
             /\ EncodeAdmins(a).entries = a.entries
             /\ EncodeAdmins(a).total = ToI64(a.total)
  <2>1. EncodeAdmins(a).voting = EncodeVoting(a.voting)
    BY DEF EncodeAdmins, AdminsType
  <2>2. EncodeAdmins(a).authorized = a.authorized
    BY DEF EncodeAdmins, AdminsType
  <2>3. EncodeAdmins(a).entries = a.entries
    BY DEF EncodeAdmins, AdminsType
  <2>4. EncodeAdmins(a).total = ToI64(a.total)
    BY DEF EncodeAdmins, AdminsType
  <2>5. QED
    BY <2>1, <2>2, <2>3, <2>4
<1>2. ASSUME NEW a \in AdminsType
      PROVE  EncodeAdmins(a) \in WireAdmins
  <2>1. a.voting \in VotingType /\ a.total \in Nat
    BY DEF AdminsType
  <2>2. EncodeVoting(a.voting) \in WireVoting /\ ToI64(a.total) \in Int
    BY <2>1, VotingComesBack, SaturatedNumber
  <2>3. QED
    BY <2>2 DEF EncodeAdmins, AdminsType, WireAdmins
<1>3. ASSUME NEW w \in WireAdmins
      PROVE  LET b == [w EXCEPT !.voting = DecodeVoting(@)] IN
             /\ b.voting = DecodeVoting(w.voting) /\ b.authorized = w.authorized
             /\ b.entries = w.entries /\ b.total = w.total
  BY DEF WireAdmins
<1>4. ASSUME NEW w \in WireAdmins, w.total >= 0, DecodesVoting(w.voting)
      PROVE  [w EXCEPT !.voting = DecodeVoting(@)] \in AdminsType
  <2>1. w.voting \in WireVoting
    BY DEF WireAdmins
  <2>2. DecodeVoting(w.voting) \in VotingType
    BY <1>4, <2>1, VotingDecoded
  <2>3. QED
    BY <1>4, <2>2 DEF AdminsType, WireAdmins
<1>5. QED
  BY <1>1, <1>2, <1>3, <1>4

\* What conversion to the wire does to the list of oracles.
LEMMA OraclesEncoded ==
  ASSUME NEW o \in OraclesType
  PROVE  /\ EncodeOracles(o).voting = EncodeVoting(o.voting)
         /\ EncodeOracles(o).authorized = o.authorized
         /\ EncodeOracles(o).entries = o.entries
         /\ EncodeOracles(o).total = ToI64(o.total)
         /\ EncodeOracles(o).max_enrolled_subdomains = ToI64(o.max_enrolled_subdomains)
         /\ EncodeOracles(o).observation_timeout = EncodeDuration(o.observation_timeout)
         /\ EncodeOracles(o) \in WireOracles
<1>1. EncodeOracles(o).voting = EncodeVoting(o.voting)
  BY DEF EncodeOracles, OraclesType
<1>2. EncodeOracles(o).authorized = o.authorized
  BY DEF EncodeOracles, OraclesType
<1>3. EncodeOracles(o).entries = o.entries
  BY DEF EncodeOracles, OraclesType
<1>4. EncodeOracles(o).total = ToI64(o.total)
  BY DEF EncodeOracles, OraclesType
<1>5. EncodeOracles(o).max_enrolled_subdomains = ToI64(o.max_enrolled_subdomains)
  BY DEF EncodeOracles, OraclesType
<1>6. EncodeOracles(o).observation_timeout = EncodeDuration(o.observation_timeout)
  BY DEF EncodeOracles, OraclesType
<1>7. EncodeOracles(o) \in WireOracles
  <2>1. /\ o.voting \in VotingType /\ o.total \in Nat /\ o.max_enrolled_subdomains \in Nat
        /\ o.observation_timeout \in Nat
    BY DEF OraclesType
  <2>2. /\ EncodeVoting(o.voting) \in WireVoting /\ ToI64(o.total) \in Int
        /\ ToI64(o.max_enrolled_subdomains) \in Int
        /\ EncodeDuration(o.observation_timeout) \in Int
    BY <2>1, VotingComesBack, SaturatedNumber, DurationComesBack
  <2>3. QED
    BY <2>2 DEF EncodeOracles, OraclesType, WireOracles
<1>8. QED
  BY <1>1, <1>2, <1>3, <1>4, <1>5, <1>6, <1>7

\* What conversion from the wire does to it.
LEMMA OraclesDecoded ==
  ASSUME NEW w \in WireOracles
  PROVE  /\ DecodeOracles(w).voting = DecodeVoting(w.voting)
         /\ DecodeOracles(w).authorized = w.authorized
         /\ DecodeOracles(w).entries = w.entries
         /\ DecodeOracles(w).total = w.total
         /\ DecodeOracles(w).max_enrolled_subdomains = w.max_enrolled_subdomains
         /\ DecodeOracles(w).observation_timeout = DecodeDuration(w.observation_timeout)
         /\ (/\ w.total >= 0 /\ DecodesVoting(w.voting) /\ w.max_enrolled_subdomains >= 0
             /\ FitsU64(w.observation_timeout)) => DecodeOracles(w) \in OraclesType
<1>1. DecodeOracles(w).voting = DecodeVoting(w.voting)
  BY DEF DecodeOracles, WireOracles
<1>2. DecodeOracles(w).authorized = w.authorized
  BY DEF DecodeOracles, WireOracles
<1>3. DecodeOracles(w).entries = w.entries
  BY DEF DecodeOracles, WireOracles
<1>4. DecodeOracles(w).total = w.total
  BY DEF DecodeOracles, WireOracles
<1>5. DecodeOracles(w).max_enrolled_subdomains = w.max_enrolled_subdomains
  BY DEF DecodeOracles, WireOracles
<1>6. DecodeOracles(w).observation_timeout = DecodeDuration(w.observation_timeout)
  BY DEF DecodeOracles, WireOracles
<1>7. ASSUME w.total >= 0, DecodesVoting(w.voting), w.max_enrolled_subdomains >= 0,
             FitsU64(w.observation_timeout)
      PROVE  DecodeOracles(w) \in OraclesType
  <2>1. w.voting \in WireVoting /\ w.observation_timeout \in Int
    BY DEF WireOracles
  <2>2. DecodeVoting(w.voting) \in VotingType /\ DecodeDuration(w.observation_timeout) \in Nat
    BY <1>7, <2>1, VotingDecoded, DecodedDuration
  <2>3. w \in [voting : WireVoting, authorized : SUBSET Identities, entries : Nat, total : Nat,
               max_enrolled_subdomains : Nat, observation_timeout : Int]
    BY <1>7 DEF WireOracles
  <2>4. QED
    BY <2>2, <2>3 DEF DecodeOracles, OraclesType
<1>8. QED
  BY <1>1, <1>2, <1>3, <1>4, <1>5, <1>6, <1>7

\* A config comes back from the wire as it was given, but for fractions of a second
\* and for what is beyond the largest number.
LEMMA ConfigComesBack ==
  ASSUME NEW c \in ConfigType
  PROVE  /\ EncodeConfig(c) \in WireConfig /\ DecodesConfig(EncodeConfig(c))
         /\ SameConfig(c, DecodeConfig(EncodeConfig(c)))
<1> DEFINE e == EncodeConfig(c)
           s == DecodeConfig(e)
<1>1. c.version \in 0..U32Max /\ c.admins \in AdminsType /\ c.oracles \in OraclesType
  BY DEF ConfigType, AdminsType, OraclesType
<1>2. /\ e.version = c.version /\ e.admins = EncodeAdmins(c.admins)
      /\ e.oracles = EncodeOracles(c.oracles)
  BY DEF EncodeConfig
<1>3. e.admins \in WireAdmins /\ e.oracles \in WireOracles
  BY <1>1, <1>2, AdminsConverted, OraclesEncoded
<1>4. e \in WireConfig
  BY <1>1, <1>2, <1>3, WidthAssumption DEF EncodeConfig, WireConfig
<1>5. /\ c.admins.voting \in VotingType /\ c.oracles.voting \in VotingType
      /\ c.admins.total \in Nat /\ c.oracles.total \in Nat
      /\ c.oracles.max_enrolled_subdomains \in Nat /\ c.oracles.observation_timeout \in Nat
  BY <1>1 DEF AdminsType, OraclesType
<1>6. /\ e.admins.voting = EncodeVoting(c.admins.voting)
      /\ e.admins.authorized = c.admins.authorized /\ e.admins.entries = c.admins.entries
      /\ e.admins.total = ToI64(c.admins.total)
  BY <1>1, <1>2, AdminsConverted
<1>7. /\ e.oracles.voting = EncodeVoting(c.oracles.voting)
      /\ e.oracles.authorized = c.oracles.authorized /\ e.oracles.entries = c.oracles.entries
      /\ e.oracles.total = ToI64(c.oracles.total)
      /\ e.oracles.max_enrolled_subdomains = ToI64(c.oracles.max_enrolled_subdomains)
      /\ e.oracles.observation_timeout = EncodeDuration(c.oracles.observation_timeout)
  BY <1>1, <1>2, OraclesEncoded
<1>8. /\ s.version = e.version /\ s.admins = [e.admins EXCEPT !.voting = DecodeVoting(@)]
      /\ s.oracles = DecodeOracles(e.oracles)
  BY DEF DecodeConfig
<1> HIDE DEF e, s
<1>9. DecodesConfig(e)
  <2>1. FitsU32(e.version)
    BY <1>1, <1>2 DEF FitsU32
  <2>2. DecodesVoting(e.admins.voting) /\ DecodesVoting(e.oracles.voting)
    BY <1>5, <1>6, <1>7, VotingComesBack
  <2>3. /\ FitsU64(e.admins.total) /\ FitsU64(e.oracles.total)
        /\ FitsU64(e.oracles.max_enrolled_subdomains)
    BY <1>5, <1>6, <1>7, SaturatedNumber DEF FitsU64
  <2>4. FitsU64(e.oracles.observation_timeout)
    BY <1>5, <1>7, DurationComesBack DEF FitsU64
  <2>5. QED
    BY <2>1, <2>2, <2>3, <2>4 DEF DecodesConfig
<1>10. SameParties(c.admins, s.admins)
  <2>1. /\ s.admins.voting = DecodeVoting(EncodeVoting(c.admins.voting))
        /\ s.admins.authorized = c.admins.authorized /\ s.admins.entries = c.admins.entries
        /\ s.admins.total = ToI64(c.admins.total)
    BY <1>3, <1>6, <1>8, AdminsConverted
  <2>2. SameVoting(c.admins.voting, s.admins.voting)
    BY <1>5, <2>1, VotingComesBack
  <2>3. SameNumber(c.admins.total, s.admins.total)
    BY <1>5, <2>1, SaturatedNumber
  <2>4. QED
    BY <2>1, <2>2, <2>3 DEF SameParties, SameVoting
<1>11. /\ SameParties(c.oracles, s.oracles)
       /\ SameNumber(c.oracles.max_enrolled_subdomains, s.oracles.max_enrolled_subdomains)
       /\ SameDuration(c.oracles.observation_timeout, s.oracles.observation_timeout)
  <2>1. /\ s.oracles.voting = DecodeVoting(EncodeVoting(c.oracles.voting))
        /\ s.oracles.authorized = c.oracles.authorized /\ s.oracles.entries = c.oracles.entries
        /\ s.oracles.total = ToI64(c.oracles.total)
        /\ s.oracles.max_enrolled_subdomains = ToI64(c.oracles.max_enrolled_subdomains)
        /\ s.oracles.observation_timeout
             = DecodeDuration(EncodeDuration(c.oracles.observation_timeout))
    BY <1>3, <1>7, <1>8, OraclesDecoded
  <2>2. SameVoting(c.oracles.voting, s.oracles.voting)
    BY <1>5, <2>1, VotingComesBack
  <2>3. /\ SameNumber(c.oracles.total, s.oracles.total)
        /\ SameNumber(c.oracles.max_enrolled_subdomains, s.oracles.max_enrolled_subdomains)
    BY <1>5, <2>1, SaturatedNumber
  <2>4. SameDuration(c.oracles.observation_timeout, s.oracles.observation_timeout)
    BY <1>5, <2>1, DurationComesBack
  <2>5. QED
    BY <2>1, <2>2, <2>3, <2>4 DEF SameParties, SameVoting
<1>12. QED
  BY <1>2, <1>4, <1>8, <1>9, <1>10, <1>11 DEF e, s, SameConfig

\* A config that was read from the wire is one, and the same as itself.
LEMMA ConfigDecoded ==
  ASSUME NEW w \in WireConfig, DecodesConfig(w)
  PROVE  DecodeConfig(w) \in ConfigType /\ SameConfig(DecodeConfig(w), DecodeConfig(w))
<1> DEFINE s == DecodeConfig(w)
<1>1. w.version \in Int /\ w.admins \in WireAdmins /\ w.oracles \in WireOracles
  BY DEF WireConfig
<1>2. /\ s.version = w.version /\ s.admins = [w.admins EXCEPT !.voting = DecodeVoting(@)]
      /\ s.oracles = DecodeOracles(w.oracles)
  BY DEF DecodeConfig
<1>3. s = [version |-> s.version, admins |-> s.admins, oracles |-> s.oracles]
  BY DEF DecodeConfig
<1> HIDE DEF s
<1>4. /\ w.version \in 0..U32Max /\ w.admins.total >= 0 /\ w.oracles.total >= 0
      /\ w.oracles.max_enrolled_subdomains >= 0 /\ FitsU64(w.oracles.observation_timeout)
      /\ DecodesVoting(w.admins.voting) /\ DecodesVoting(w.oracles.voting)
  BY DEF DecodesConfig, FitsU32, FitsU64
<1>5. s.admins \in AdminsType /\ s.oracles \in OraclesType
  BY <1>1, <1>2, <1>4, AdminsConverted, OraclesDecoded
<1>6. s \in ConfigType
  BY <1>2, <1>3, <1>4, <1>5 DEF ConfigType, AdminsType, OraclesType
<1>7. /\ w.admins.voting \in WireVoting /\ w.oracles.voting \in WireVoting
      /\ w.oracles.observation_timeout \in Int
  BY <1>1 DEF WireAdmins, WireOracles
<1>8. /\ s.admins.voting = DecodeVoting(w.admins.voting)
      /\ s.oracles.voting = DecodeVoting(w.oracles.voting)
      /\ s.oracles.observation_timeout = DecodeDuration(w.oracles.observation_timeout)
  BY <1>1, <1>2, AdminsConverted, OraclesDecoded
<1>9. /\ SameVoting(s.admins.voting, s.admins.voting)
      /\ SameVoting(s.oracles.voting, s.oracles.voting)
      /\ SameDuration(s.oracles.observation_timeout, s.oracles.observation_timeout)
  BY <1>4, <1>7, <1>8, VotingDecoded, DecodedDuration
<1>10. \A n : SameNumber(n, n)
  BY DEF SameNumber
<1>11. SameConfig(s, s)
  BY <1>9, <1>10 DEF SameConfig, SameParties, SameVoting
<1>12. QED
  BY <1>6, <1>11 DEF s

----------------------------------------------------------------------------
(* Observations and actions.                                               *)

\* The bytes of a hash may be too short on the wire.
WireObservation ==
  [domain : Domains, zone : Zones, hash : SUBSET (Hashes \cup {"short"}),
   height : 0..I64Max, appHash : Nat]

\* An observation comes back from the wire unchanged.
LEMMA ObservationComesBack ==
  ASSUME NEW o \in ObservationType
  PROVE  /\ EncodeObservation(o) \in WireObservation
         /\ DecodesObservation(EncodeObservation(o))
         /\ DecodeObservation(EncodeObservation(o)) = o
<1> DEFINE e == EncodeObservation(o)
<1>1. o.hash \in Hashes \cup {NotFound} /\ o.height \in 0..I64Max /\ o.height \in Nat
  BY DEF ObservationType
<1>2. ToI64(o.height) = o.height
  BY <1>1, SaturatedNumber
<1>3. /\ EncodeHash(o.hash) \in SUBSET Hashes /\ DecodesHash(EncodeHash(o.hash))
      /\ DecodeHash(EncodeHash(o.hash)) = o.hash
  <2>1. CASE o.hash = NotFound
    BY <2>1 DEF EncodeHash, DecodesHash, DecodeHash
  <2>2. CASE o.hash # NotFound
    <3>1. EncodeHash(o.hash) = {o.hash} /\ o.hash \in Hashes
      BY <1>1, <2>2 DEF EncodeHash
    <3>2. QED
      BY <3>1 DEF DecodesHash, DecodeHash
  <2>3. QED
    BY <2>1, <2>2
<1>4. e = [o EXCEPT !.hash = EncodeHash(o.hash)]
  BY <1>2 DEF EncodeObservation, ObservationType
<1>5. e \in WireObservation /\ e.hash = EncodeHash(o.hash) /\ e.height = o.height
  BY <1>3, <1>4 DEF WireObservation, ObservationType
<1>6. DecodesObservation(e)
  BY <1>1, <1>3, <1>5 DEF DecodesObservation, FitsU64
<1>7. DecodeObservation(e) = [e EXCEPT !.hash = o.hash]
  BY <1>3, <1>5 DEF DecodeObservation
<1>8. [e EXCEPT !.hash = o.hash] = o
  BY <1>4 DEF ObservationType
<1>9. QED
  BY <1>5, <1>6, <1>7, <1>8

\* An observation that was read from the wire is one.
LEMMA ObservationDecoded ==
  ASSUME NEW w \in WireObservation, DecodesObservation(w)
  PROVE  DecodeObservation(w) \in ObservationType
<1>1. DecodeHash(w.hash) \in Hashes \cup {NotFound}
  BY DEF DecodesObservation, DecodesHash, DecodeHash
<1>2. QED
  BY <1>1 DEF DecodeObservation, WireObservation, ObservationType

WindowType == [notBefore : Int, notAfter : Int]

\* What clients are asked for.
ReconfigureType ==
  [kind : {"reconfigure"}, identity : Identities, config : ConfigType, window : WindowType]
ObserveType == [kind : {"observe"}, identity : Identities, observation : ObservationType]
ActionType == ReconfigureType \cup ObserveType

\* An action on the wire that nobody has signed: its fields may be missing.
Unsigned == [key : Identities, over : {{}}]
WireReconfigure ==
  [kind : {"reconfigure"}, signature : SUBSET Unsigned, config : SUBSET WireConfig,
   window : SUBSET WindowType]
WireObserve ==
  [kind : {"observe"}, signature : SUBSET Unsigned, observation : SUBSET WireObservation]
WireAction == WireReconfigure \cup WireObserve

\* What is chosen from a set with one element.
LEMMA OnlyOne == ASSUME NEW x PROVE Only({x}) = x
  BY DEF Only

\* An action that is asked for comes back from the wire as it was meant.
LEMMA ActionComesBack ==
  ASSUME NEW a \in ActionType
  PROVE  /\ EncodeAction(a) \in WireAction
         /\ EncodeAction(a).signature = Blank(a.identity)
         /\ DecodesAction(EncodeAction(a))
         /\ SameAction(a, DecodeAction(EncodeAction(a)))
<1> DEFINE e == EncodeAction(a)
<1>1. a.identity \in Identities
  BY DEF ActionType, ReconfigureType, ObserveType
<1>2. Blank(a.identity) \in SUBSET Unsigned /\ Blank(a.identity) # {}
      /\ Only(Blank(a.identity)).key = a.identity
  <2> DEFINE b == [key |-> a.identity, over |-> {}]
  <2>1. b \in Unsigned /\ b.key = a.identity
    BY <1>1 DEF Unsigned
  <2>2. Blank(a.identity) = {b}
    BY DEF Blank
  <2> HIDE DEF b
  <2>3. QED
    BY <2>1, <2>2, OnlyOne
<1>3. CASE a \in ReconfigureType
  <2>1. a.kind = "reconfigure" /\ a.config \in ConfigType /\ a.window \in WindowType
    BY <1>3 DEF ReconfigureType
  <2>2. e = [kind |-> "reconfigure", signature |-> Blank(a.identity),
             config |-> {EncodeConfig(a.config)}, window |-> {a.window}]
    BY <2>1 DEF EncodeAction
  <2>3. /\ EncodeConfig(a.config) \in WireConfig /\ DecodesConfig(EncodeConfig(a.config))
        /\ SameConfig(a.config, DecodeConfig(EncodeConfig(a.config)))
    BY <2>1, ConfigComesBack
  <2>4. /\ e.kind = "reconfigure" /\ e.signature = Blank(a.identity)
        /\ e.config = {EncodeConfig(a.config)} /\ e.window = {a.window}
    BY <2>2
  <2>5. e \in WireAction
    BY <1>2, <2>1, <2>2, <2>3 DEF WireAction, WireReconfigure
  <2> HIDE DEF e
  <2>6. DecodesAction(e)
    BY <1>2, <2>3, <2>4 DEF DecodesAction
  <2>7. DecodeAction(e)
          = ReconfigureAction(a.identity, DecodeConfig(EncodeConfig(a.config)), a.window)
    BY <1>2, <2>4, OnlyOne DEF DecodeAction
  <2>8. SameAction(a, DecodeAction(e))
    BY <2>1, <2>3, <2>7 DEF SameAction, ReconfigureAction
  <2>9. QED
    BY <2>4, <2>5, <2>6, <2>8 DEF e
<1>4. CASE a \in ObserveType
  <2>1. a.kind = "observe" /\ a.observation \in ObservationType
    BY <1>4 DEF ObserveType
  <2>2. e = [kind |-> "observe", signature |-> Blank(a.identity),
             observation |-> {EncodeObservation(a.observation)}]
    BY <2>1 DEF EncodeAction
  <2>3. /\ EncodeObservation(a.observation) \in WireObservation
        /\ DecodesObservation(EncodeObservation(a.observation))
        /\ DecodeObservation(EncodeObservation(a.observation)) = a.observation
    BY <2>1, ObservationComesBack
  <2>4. /\ e.kind = "observe" /\ e.signature = Blank(a.identity)
        /\ e.observation = {EncodeObservation(a.observation)}
    BY <2>2
  <2>5. e \in WireAction
    BY <1>2, <2>2, <2>3 DEF WireAction, WireObserve
  <2> HIDE DEF e
  <2>6. DecodesAction(e)
    BY <1>2, <2>3, <2>4 DEF DecodesAction
  <2>7. DecodeAction(e) = ObserveAction(a.identity, a.observation)
    BY <1>2, <2>3, <2>4, OnlyOne DEF DecodeAction
  <2>8. SameAction(a, DecodeAction(e))
    BY <2>1, <2>7 DEF SameAction, ObserveAction
  <2>9. QED
    BY <2>4, <2>5, <2>6, <2>8 DEF e
<1>5. QED
  BY <1>3, <1>4 DEF ActionType

\* An action that was read from the wire is one, and the same as itself.
LEMMA ActionDecoded ==
  ASSUME NEW w \in WireAction, DecodesAction(w)
  PROVE  DecodeAction(w) \in ActionType /\ SameAction(DecodeAction(w), DecodeAction(w))
<1>1. \A S : S # {} => Only(S) \in S
  BY DEF Only
<1>2. w.signature # {} /\ w.signature \in SUBSET Unsigned
  BY DEF DecodesAction, WireAction, WireReconfigure, WireObserve
<1>3. Only(w.signature).key \in Identities
  BY <1>1, <1>2 DEF Unsigned
<1>4. CASE w \in WireReconfigure
  <2>1. /\ w.kind = "reconfigure" /\ w.config \in SUBSET WireConfig
        /\ w.window \in SUBSET WindowType
    BY <1>4 DEF WireReconfigure
  <2>2. /\ w.config # {} /\ w.window # {} /\ \A c \in w.config : DecodesConfig(c)
    BY <2>1 DEF DecodesAction
  <2>3. /\ Only(w.config) \in WireConfig /\ DecodesConfig(Only(w.config))
        /\ Only(w.window) \in WindowType
    BY <1>1, <2>1, <2>2
  <2>4. /\ DecodeConfig(Only(w.config)) \in ConfigType
        /\ SameConfig(DecodeConfig(Only(w.config)), DecodeConfig(Only(w.config)))
    BY <2>3, ConfigDecoded
  <2>5. DecodeAction(w) = ReconfigureAction(Only(w.signature).key,
                                            DecodeConfig(Only(w.config)), Only(w.window))
    BY <2>1 DEF DecodeAction
  <2>6. DecodeAction(w) \in ReconfigureType
    BY <1>3, <2>3, <2>4, <2>5 DEF ReconfigureAction, ReconfigureType
  <2>7. SameAction(DecodeAction(w), DecodeAction(w))
    BY <2>4, <2>5 DEF SameAction, ReconfigureAction
  <2>8. QED
    BY <2>6, <2>7 DEF ActionType
<1>5. CASE w \in WireObserve
  <2>1. w.kind = "observe" /\ w.observation \in SUBSET WireObservation
    BY <1>5 DEF WireObserve
  <2>2. w.observation # {} /\ \A o \in w.observation : DecodesObservation(o)
    BY <2>1 DEF DecodesAction
  <2>3. Only(w.observation) \in WireObservation /\ DecodesObservation(Only(w.observation))
    BY <1>1, <2>1, <2>2
  <2>4. DecodeObservation(Only(w.observation)) \in ObservationType
    BY <2>3, ObservationDecoded
  <2>5. DecodeAction(w) = ObserveAction(Only(w.signature).key,
                                        DecodeObservation(Only(w.observation)))
    BY <2>1 DEF DecodeAction
  <2>6. DecodeAction(w) \in ObserveType
    BY <1>3, <2>4, <2>5 DEF ObserveAction, ObserveType
  <2>7. SameAction(DecodeAction(w), DecodeAction(w))
    BY <2>5 DEF SameAction, ObserveAction
  <2>8. QED
    BY <2>6, <2>7 DEF ActionType
<1>6. QED
  BY <1>4, <1>5 DEF WireAction

\* Leaving out or damaging fields of an action gives another one.
LEMMA DamagedAction ==
  ASSUME NEW a \in WireAction
  PROVE  [a EXCEPT !.signature = {}] \in WireAction /\ Damaged(a) \subseteq WireAction
<1>1. [a EXCEPT !.signature = {}] \in WireAction
  BY DEF WireAction, WireReconfigure, WireObserve
<1>2. CASE a \in WireReconfigure
  <2> DEFINE negative(c) == [c EXCEPT !.admins.voting.delay = -1]
             configs == {negative(c) : c \in a.config}
  <2>1. a.config \in SUBSET WireConfig /\ a.kind = "reconfigure"
    BY <1>2 DEF WireReconfigure
  <2>2. ASSUME NEW c \in WireConfig
        PROVE  negative(c) \in WireConfig
    BY DEF WireConfig, WireAdmins, WireVoting
  <2> HIDE DEF negative
  <2>3. configs \in SUBSET WireConfig
    BY <2>1, <2>2
  <2>4. Damaged(a) = {[a EXCEPT !.window = {}], [a EXCEPT !.config = configs]}
    BY <2>1 DEF Damaged, negative
  <2> HIDE DEF configs
  <2>5. [a EXCEPT !.window = {}] \in WireReconfigure
        /\ [a EXCEPT !.config = configs] \in WireReconfigure
    BY <1>2, <2>3 DEF WireReconfigure
  <2>6. QED
    BY <1>1, <2>4, <2>5 DEF WireAction
<1>3. CASE a \in WireObserve
  <2> DEFINE short(o) == [o EXCEPT !.hash = {"short"}]
             observations == {short(o) : o \in a.observation}
  <2>1. a.observation \in SUBSET WireObservation /\ a.kind = "observe"
    BY <1>3 DEF WireObserve
  <2>2. ASSUME NEW o \in WireObservation
        PROVE  short(o) \in WireObservation
    BY DEF WireObservation
  <2> HIDE DEF short
  <2>3. observations \in SUBSET WireObservation
    BY <2>1, <2>2
  <2>4. Damaged(a) = {[a EXCEPT !.observation = observations]}
    BY <2>1 DEF Damaged, short
  <2> HIDE DEF observations
  <2>5. [a EXCEPT !.observation = observations] \in WireObserve
    BY <1>3, <2>3 DEF WireObserve
  <2>6. QED
    BY <1>1, <2>4, <2>5 DEF WireAction
<1>4. QED
  BY <1>2, <1>3 DEF WireAction

----------------------------------------------------------------------------
(* Signatures.                                                             *)

WireMsg == [chain : {ChainId, OtherChain}, actions : Seq(WireAction)]

\* Signature fields without signatures.
Cleared(S) == {[x EXCEPT !.over = {}] : x \in S}

\* Signature fields with signatures over the messages that f names for each.
Over(S, f) == {[x EXCEPT !.over = f[x]] : x \in S}

SignAction(a, sigs) == [a EXCEPT !.signature = sigs]

SignMsg(body, sigs) ==
  [body EXCEPT !.actions =
     [i \in DOMAIN body.actions |-> SignAction(body.actions[i], sigs[i])]]

\* Signing an action and taking the signatures off again changes nothing, and whether
\* it can be decoded does not depend on what the signatures are over.
LEMMA SignAndUnsign ==
  ASSUME NEW a \in WireAction, NEW sigs, Cleared(sigs) = a.signature
  PROVE  /\ SignAction(a, sigs).signature = sigs /\ UnsignAction(SignAction(a, sigs)) = a
         /\ DecodesAction(SignAction(a, sigs)) <=> DecodesAction(a)
<1> DEFINE m == [a EXCEPT !.signature = sigs]
<1> SUFFICES /\ m.signature = sigs /\ UnsignAction(m) = a
             /\ DecodesAction(m) <=> DecodesAction(a)
  BY DEF SignAction
<1>1. m.signature = sigs
  BY DEF WireAction, WireReconfigure, WireObserve
<1>2. UnsignAction(m) = [m EXCEPT !.signature = a.signature]
  <2> HIDE DEF m
  <2>1. QED
    BY <1>1 DEF UnsignAction, Cleared
<1>3. [m EXCEPT !.signature = a.signature] = a
  BY DEF WireAction, WireReconfigure, WireObserve
<1>4. sigs = {} <=> a.signature = {}
  BY DEF Cleared
<1>5. DecodesAction(m) <=> DecodesAction(a)
  <2>1. CASE a \in WireReconfigure
    <3>1. /\ m.kind = "reconfigure" /\ a.kind = "reconfigure" /\ m.config = a.config
          /\ m.window = a.window
      BY <2>1 DEF WireReconfigure
    <3> HIDE DEF m
    <3>2. QED
      BY <1>1, <1>4, <3>1 DEF DecodesAction
  <2>2. CASE a \in WireObserve
    <3>1. m.kind = "observe" /\ a.kind = "observe" /\ m.observation = a.observation
      BY <2>2 DEF WireObserve
    <3> HIDE DEF m
    <3>2. QED
      BY <1>1, <1>4, <3>1 DEF DecodesAction
  <2>3. QED
    BY <2>1, <2>2 DEF WireAction
<1>6. QED
  BY <1>1, <1>2, <1>3, <1>5

\* Signatures put into the fields of an unsigned action, taken off again.
LEMMA OverCleared ==
  ASSUME NEW S \in SUBSET Unsigned, NEW f
  PROVE  Cleared(S) = S /\ Cleared(Over(S, f)) = S
<1> DEFINE clear(x) == [x EXCEPT !.over = {}]
           put(x) == [x EXCEPT !.over = f[x]]
<1>1. \A x \in S : clear(x) = x
  BY DEF Unsigned
<1>2. \A x \in S : clear(put(x)) = x
  BY DEF Unsigned
<1> SUFFICES {clear(x) : x \in S} = S /\ {clear(x) : x \in {put(s) : s \in S}} = S
  BY DEF Cleared, Over
<1> HIDE DEF clear, put
<1>3. {clear(x) : x \in S} = S
  BY <1>1
<1>4. {clear(x) : x \in {put(s) : s \in S}} = S
  BY <1>2
<1>5. QED
  BY <1>3, <1>4

\* A message with signatures put in is the message again once they are taken off.
LEMMA UnsignRestores ==
  ASSUME NEW body \in WireMsg, NEW sigs,
         \A i \in DOMAIN body.actions : Cleared(sigs[i]) = body.actions[i].signature
  PROVE  /\ UnsignAll(SignMsg(body, sigs)) = body
         /\ SignMsg(body, sigs).chain = body.chain
         /\ DOMAIN SignMsg(body, sigs).actions = DOMAIN body.actions
         /\ \A i \in DOMAIN body.actions :
              /\ SignMsg(body, sigs).actions[i] = SignAction(body.actions[i], sigs[i])
              /\ SignMsg(body, sigs).actions[i].signature = sigs[i]
              /\ DecodesAction(SignMsg(body, sigs).actions[i])
                   <=> DecodesAction(body.actions[i])
<1> DEFINE n == DOMAIN body.actions
           msg == SignMsg(body, sigs)
<1>1. body.actions \in Seq(WireAction) /\ \A i \in n : body.actions[i] \in WireAction
  BY DEF WireMsg
<1>2. msg.actions = [i \in n |-> SignAction(body.actions[i], sigs[i])]
      /\ msg.chain = body.chain
  BY DEF WireMsg, SignMsg
<1>3. ASSUME NEW i \in n
      PROVE  /\ SignAction(body.actions[i], sigs[i]).signature = sigs[i]
             /\ UnsignAction(SignAction(body.actions[i], sigs[i])) = body.actions[i]
             /\ DecodesAction(SignAction(body.actions[i], sigs[i]))
                  <=> DecodesAction(body.actions[i])
  BY <1>1, SignAndUnsign
<1>4. DOMAIN msg.actions = n
  BY <1>2
<1>5. Map(UnsignAction, msg.actions) = body.actions
  <2>1. Map(UnsignAction, msg.actions) = [i \in n |-> UnsignAction(msg.actions[i])]
    BY <1>4 DEF Map
  <2>2. body.actions = [i \in n |-> body.actions[i]]
    BY <1>1
  <2>3. \A i \in n : UnsignAction(msg.actions[i]) = body.actions[i]
    BY <1>2, <1>3
  <2> HIDE DEF msg
  <2>4. QED
    BY <2>1, <2>2, <2>3
<1>6. UnsignAll(msg) = [msg EXCEPT !.actions = body.actions]
  BY <1>5 DEF UnsignAll
<1>7. [msg EXCEPT !.actions = body.actions] = body
  BY DEF WireMsg, SignMsg
<1>8. QED
  BY <1>2, <1>3, <1>4, <1>6, <1>7

\* What is hashed of a message nobody has signed is the message.
LEMMA HashOfUnsigned ==
  ASSUME NEW body \in WireMsg
  PROVE  TxHash(body) = body
<1> DEFINE n == DOMAIN body.actions
           sigs == [i \in n |-> body.actions[i].signature]
<1>1. /\ body.actions = [i \in n |-> body.actions[i]]
      /\ \A i \in n : body.actions[i] \in WireAction
  BY DEF WireMsg
<1>2. \A a \in WireAction : a.signature \in SUBSET Unsigned /\ SignAction(a, a.signature) = a
  BY DEF WireAction, WireReconfigure, WireObserve, SignAction
<1>3. \A i \in n : sigs[i] = body.actions[i].signature
  OBVIOUS
<1> HIDE DEF sigs
<1>4. \A i \in n : Cleared(sigs[i]) = body.actions[i].signature
  BY <1>1, <1>2, <1>3, OverCleared
<1>5. UnsignAll(SignMsg(body, sigs)) = body
  BY <1>4, UnsignRestores
<1>6. \A i \in n : SignAction(body.actions[i], sigs[i]) = body.actions[i]
  BY <1>1, <1>2, <1>3
<1>7. [i \in n |-> SignAction(body.actions[i], sigs[i])] = body.actions
  <2>1. [i \in n |-> SignAction(body.actions[i], sigs[i])] = [i \in n |-> body.actions[i]]
    BY <1>6
  <2>2. QED
    BY <1>1, <2>1
<1>8. SignMsg(body, sigs) = body
  BY <1>7 DEF SignMsg, WireMsg
<1>9. QED
  BY <1>5, <1>8 DEF TxHash

\* A message that is put together verifies only if its very body was signed by the
\* key of every signature field.
LEMMA SignedByAll ==
  ASSUME NEW body \in WireMsg, NEW msg, msg = WithSignatures(body),
         \A x \in signed : x.body \in WireMsg
  PROVE  /\ UnsignAll(msg) = body /\ msg.chain = body.chain
         /\ DOMAIN msg.actions = DOMAIN body.actions
         /\ \A j \in DOMAIN body.actions :
              DecodesAction(msg.actions[j]) <=> DecodesAction(body.actions[j])
         /\ VerifyAll(msg) =>
              \A i \in DOMAIN body.actions : \A s \in body.actions[i].signature :
                \E x \in signed : x.key = s.key /\ x.body = body
<1> DEFINE n == DOMAIN body.actions
           by(p) == {x.body : x \in {y \in signed : y.key = p}}
           f == [s \in Unsigned |-> by(s.key)]
           sigs == [j \in n |-> Over(body.actions[j].signature, f)]
<1>1. \A j \in n : body.actions[j].signature \in SUBSET Unsigned
  BY DEF WireMsg, WireAction, WireReconfigure, WireObserve
<1>2. \A s \in Unsigned : f[s] = by(s.key)
  OBVIOUS
<1>3. \A j \in n : sigs[j] = Over(body.actions[j].signature, f)
  OBVIOUS
<1>4. msg = SignMsg(body, sigs)
  <2> DEFINE attach(a) == [a EXCEPT !.signature = {[s EXCEPT !.over = by(s.key)] : s \in @}]
  <2>1. msg = [body EXCEPT !.actions = Map(attach, @)]
    BY DEF WithSignatures
  <2>2. Map(attach, body.actions) = [j \in n |-> attach(body.actions[j])]
    BY DEF Map
  <2>3. ASSUME NEW j \in n
        PROVE  attach(body.actions[j]) = SignAction(body.actions[j], sigs[j])
    <3> HIDE DEF by
    <3>1. {[s EXCEPT !.over = by(s.key)] : s \in body.actions[j].signature}
            = Over(body.actions[j].signature, f)
      <4> HIDE DEF f
      <4>1. QED
        BY <1>1, <1>2 DEF Over
    <3>2. QED
      BY <1>3, <3>1 DEF SignAction
  <2> HIDE DEF attach, sigs
  <2>4. [j \in n |-> attach(body.actions[j])]
          = [j \in n |-> SignAction(body.actions[j], sigs[j])]
    BY <2>3
  <2>5. QED
    BY <2>1, <2>2, <2>4 DEF SignMsg
<1> HIDE DEF sigs, f
<1>5. \A j \in n : Cleared(sigs[j]) = body.actions[j].signature
  BY <1>1, <1>3, OverCleared
<1>6. /\ UnsignAll(msg) = body /\ msg.chain = body.chain
      /\ DOMAIN msg.actions = n
      /\ \A j \in n :
           /\ msg.actions[j].signature = sigs[j]
           /\ DecodesAction(msg.actions[j]) <=> DecodesAction(body.actions[j])
  BY <1>4, <1>5, UnsignRestores
<1>7. ASSUME VerifyAll(msg), NEW i \in n, NEW s \in body.actions[i].signature
      PROVE  \E x \in signed : x.key = s.key /\ x.body = body
  <2> DEFINE t == [s EXCEPT !.over = f[s]]
  <2>1. t \in msg.actions[i].signature
    BY <1>3, <1>6 DEF Over
  <2>2. t.over = by(s.key)
    BY <1>1, <1>2 DEF Unsigned
  <2> HIDE DEF t
  <2>3. PICK b \in t.over : TxHash(b) = TxHash(msg)
    BY <1>6, <1>7, <2>1 DEF VerifyAll, Verifies
  <2>4. PICK x \in signed : x.key = s.key /\ x.body = b
    BY <2>2, <2>3
  <2>5. TxHash(b) = b /\ TxHash(msg) = body
    BY <1>6, <2>4, HashOfUnsigned DEF TxHash
  <2>6. QED
    BY <2>3, <2>4, <2>5
<1>8. QED
  BY <1>6, <1>7

TxType == [chain : {ChainId, OtherChain}, actions : Seq(ActionType)]

\* A sequence is mapped to a sequence.
LEMMA MappedSeq ==
  ASSUME NEW S, NEW T, NEW seq \in Seq(S), NEW m \in [DOMAIN seq -> T]
  PROVE  m \in Seq(T) /\ Len(m) = Len(seq) /\ DOMAIN m = DOMAIN seq
<1>1. DOMAIN seq = 1..Len(seq) /\ Len(seq) \in Nat
  OBVIOUS
<1>2. QED
  BY <1>1

\* What a client makes of a transaction that it is asked for.
LEMMA EncodedTx ==
  ASSUME NEW tx \in TxType
  PROVE  /\ Encode(tx) \in WireMsg /\ Encode(tx).chain = tx.chain
         /\ Len(Encode(tx).actions) = Len(tx.actions)
         /\ DOMAIN Encode(tx).actions = DOMAIN tx.actions
         /\ \A i \in DOMAIN tx.actions :
              /\ tx.actions[i] \in ActionType
              /\ Encode(tx).actions[i] = EncodeAction(tx.actions[i])
<1>1. tx.actions \in Seq(ActionType) /\ tx.chain \in {ChainId, OtherChain}
  BY DEF TxType
<1>2. \A a \in ActionType : EncodeAction(a) \in WireAction
  BY ActionComesBack
<1> DEFINE m == Map(EncodeAction, tx.actions)
<1>3. /\ m \in Seq(WireAction) /\ Len(m) = Len(tx.actions) /\ DOMAIN m = DOMAIN tx.actions
      /\ \A i \in DOMAIN tx.actions : m[i] = EncodeAction(tx.actions[i])
  <2>1. m = [i \in DOMAIN tx.actions |-> EncodeAction(tx.actions[i])]
    BY DEF Map
  <2> HIDE DEF m
  <2>2. \A i \in DOMAIN tx.actions : m[i] = EncodeAction(tx.actions[i])
    BY <2>1
  <2>3. m \in [DOMAIN tx.actions -> WireAction]
    BY <1>1, <1>2, <2>1
  <2>4. QED
    BY <1>1, <2>2, <2>3, MappedSeq
<1> HIDE DEF m
<1>4. Encode(tx) = [chain |-> tx.chain, actions |-> m]
  BY DEF Encode, m
<1>5. QED
  BY <1>1, <1>3, <1>4 DEF WireMsg

\* What is over one message is kept with the key that signed it.
LEMMA SignedActionDecodes ==
  ASSUME NEW a \in ActionType, NEW f
  PROVE  SameAction(a, DecodeAction(SignAction(EncodeAction(a), Over(Blank(a.identity), f))))
<1> DEFINE e == EncodeAction(a)
           s == [key |-> a.identity, over |-> {}]
           t == [s EXCEPT !.over = f[s]]
           m == SignAction(e, {t})
<1>1. /\ e \in WireAction /\ e.signature = {s} /\ DecodesAction(e)
      /\ SameAction(a, DecodeAction(e))
  BY ActionComesBack DEF Blank
<1>2. t.key = s.key
  OBVIOUS
<1>3. Over(Blank(a.identity), f) = {t}
  BY DEF Over, Blank
<1>4. /\ m.signature = {t} /\ m.kind = e.kind
      /\ (e.kind = "reconfigure" => m.config = e.config /\ m.window = e.window)
      /\ (e.kind # "reconfigure" => m.observation = e.observation)
  <2> HIDE DEF e, t
  <2>1. QED
    BY <1>1 DEF SignAction, WireAction, WireReconfigure, WireObserve
<1> HIDE DEF e, s, t, m
<1>5. Only(m.signature).key = Only(e.signature).key
  BY <1>1, <1>2, <1>4, OnlyOne
<1>6. DecodeAction(m) = DecodeAction(e)
  BY <1>4, <1>5 DEF DecodeAction
<1>7. QED
  BY <1>1, <1>3, <1>6 DEF m, e

\* A transaction that a client signs authenticates, and means what was asked for.
LEMMA SignedAuthenticates ==
  ASSUME NEW tx \in TxType
  PROVE  /\ Authenticates(Signed(Encode(tx)))
         /\ \A i \in DOMAIN tx.actions :
              SameAction(tx.actions[i], DecodeAction(Signed(Encode(tx)).actions[i]))
<1> DEFINE body == Encode(tx)
           n == DOMAIN body.actions
           msg == Signed(body)
           f == [s \in Unsigned |-> {body}]
           sigs == [j \in n |-> Over(body.actions[j].signature, f)]
<1>1. /\ body \in WireMsg /\ n = DOMAIN tx.actions
      /\ \A i \in n : /\ tx.actions[i] \in ActionType
                      /\ body.actions[i] = EncodeAction(tx.actions[i])
  BY EncodedTx
<1> HIDE DEF body
<1>2. \A j \in n : body.actions[j].signature \in SUBSET Unsigned
  BY <1>1 DEF WireMsg, WireAction, WireReconfigure, WireObserve
<1>3. \A s \in Unsigned : f[s] = {body}
  OBVIOUS
<1>4. \A j \in n : sigs[j] = Over(body.actions[j].signature, f)
  OBVIOUS
<1>5. msg = SignMsg(body, sigs)
  <2> DEFINE attach(a) == [a EXCEPT !.signature = {[s EXCEPT !.over = {body}] : s \in @}]
  <2>1. msg = [body EXCEPT !.actions = [j \in n |-> attach(body.actions[j])]]
    BY DEF Signed
  <2>2. ASSUME NEW j \in n
        PROVE  attach(body.actions[j]) = SignAction(body.actions[j], sigs[j])
    <3>1. {[s EXCEPT !.over = {body}] : s \in body.actions[j].signature}
            = Over(body.actions[j].signature, f)
      <4> HIDE DEF f
      <4>1. QED
        BY <1>2, <1>3 DEF Over
    <3>2. QED
      BY <1>4, <3>1 DEF SignAction
  <2> HIDE DEF attach, sigs, msg
  <2>3. [j \in n |-> attach(body.actions[j])]
          = [j \in n |-> SignAction(body.actions[j], sigs[j])]
    BY <2>2
  <2>4. QED
    BY <2>1, <2>3 DEF SignMsg
<1> HIDE DEF sigs, f, msg
<1>6. \A j \in n : Cleared(sigs[j]) = body.actions[j].signature
  BY <1>2, <1>4, OverCleared
<1>7. /\ UnsignAll(msg) = body /\ DOMAIN msg.actions = n
      /\ \A j \in n :
           /\ msg.actions[j] = SignAction(body.actions[j], sigs[j])
           /\ msg.actions[j].signature = sigs[j]
           /\ DecodesAction(msg.actions[j]) <=> DecodesAction(body.actions[j])
  BY <1>1, <1>5, <1>6, UnsignRestores
<1>8. ASSUME NEW j \in n, NEW t \in sigs[j]
      PROVE  Verifies(t, msg)
  <2>1. PICK s \in body.actions[j].signature : t = [s EXCEPT !.over = f[s]]
    BY <1>4 DEF Over
  <2>2. t.over = {body}
    BY <1>2, <1>3, <2>1 DEF Unsigned
  <2>3. TxHash(body) = body /\ TxHash(msg) = body
    BY <1>1, <1>7, HashOfUnsigned DEF TxHash
  <2>4. QED
    BY <2>2, <2>3 DEF Verifies
<1>9. \A j \in n : DecodesAction(body.actions[j]) /\ body.actions[j].signature = Blank(tx.actions[j].identity)
  BY <1>1, ActionComesBack
<1>10. Authenticates(msg)
  BY <1>7, <1>8, <1>9 DEF Authenticates, VerifyAll
<1>11. ASSUME NEW j \in n
       PROVE  SameAction(tx.actions[j], DecodeAction(msg.actions[j]))
  <2>1. msg.actions[j]
          = SignAction(EncodeAction(tx.actions[j]), Over(Blank(tx.actions[j].identity), f))
    BY <1>1, <1>4, <1>7, <1>9
  <2>2. QED
    BY <1>1, <2>1, SignedActionDecodes
<1>12. QED
  BY <1>1, <1>10, <1>11 DEF msg, body

----------------------------------------------------------------------------
(* The invariant: what is signed and can be decoded was asked for.         *)

\* The transaction asked for that a message on the wire is the form of.
FormOf(body, tx) ==
  /\ tx.chain = body.chain /\ Len(tx.actions) = Len(body.actions)
  /\ \A i \in DOMAIN body.actions : SameAction(tx.actions[i], DecodeAction(body.actions[i]))

DecodesAll(body) == \A i \in DOMAIN body.actions : DecodesAction(body.actions[i])

SignedBody(body) ==
  /\ body \in WireMsg
  /\ DecodesAll(body) => \E tx \in asked : FormOf(body, tx)

\* No signature, of any key, is over anything else.
SignedInv == \A x \in signed : SignedBody(x.body)

TxInv ==
  /\ clock \in Nat
  /\ asked \subseteq TxType
  /\ executing \in Seq(ActionType)
  /\ SignedInv
  /\ ExecutesOnlyAsked
  /\ BallotsInWindow

\* More that is asked for, and fewer votes, leave the votes of admins as they are.
LEMMA FewerBallots ==
  ASSUME BallotsInWindow, adminVotes' \subseteq adminVotes, asked \subseteq asked'
  PROVE  BallotsInWindow'
  BY DEF BallotsInWindow

LEMMA MoreAsked ==
  ASSUME TxInv, asked \subseteq asked', UNCHANGED <<adminVotes, executing>>
  PROVE  ExecutesOnlyAsked' /\ BallotsInWindow' /\ \A x \in signed : SignedBody(x.body)'
<1>1. ExecutesOnlyAsked'
  BY DEF TxInv, ExecutesOnlyAsked
<1>2. BallotsInWindow'
  BY FewerBallots DEF TxInv
<1>3. \A x \in signed : SignedBody(x.body)'
  BY DEF TxInv, SignedInv, SignedBody
<1>4. QED
  BY <1>1, <1>2, <1>3

\* Signing adds signatures over the message and nothing else.
LEMMA SigningOne ==
  ASSUME NEW ring, NEW body, SignAll(ring, body), SignedBody(body)',
         \A x \in signed : SignedBody(x.body)'
  PROVE  SignedInv'
<1>1. ASSUME NEW x \in signed'
      PROVE  SignedBody(x.body)'
  <2>1. x \in signed \/ \E p \in Signers(body) : x = [key |-> p, body |-> body]
    BY DEF SignAll
  <2>2. x \in signed \/ x.body = body
    BY <2>1
  <2>3. QED
    BY <2>2
<1>2. QED
  BY <1>1 DEF SignedInv

\* What blocks and clients put together from signed messages are messages.
LEMMA PartsOfMessages ==
  ASSUME SignedInv
  PROVE  Bodies \subseteq WireMsg
<1> DEFINE whole == UNION {{s.body.actions[i] : i \in DOMAIN s.body.actions} : s \in signed}
           bare == {[a EXCEPT !.signature = {}] : a \in whole}
           damaged == UNION {Damaged(a) : a \in whole}
<1>1. ASSUME NEW s \in signed, NEW i \in DOMAIN s.body.actions
      PROVE  s.body.actions[i] \in WireAction
  BY DEF SignedInv, SignedBody, WireMsg
<1>2. whole \subseteq WireAction
  BY <1>1
<1> HIDE DEF whole
<1>3. bare \subseteq WireAction /\ damaged \subseteq WireAction
  BY <1>2, DamagedAction
<1>4. Parts = whole \cup bare \cup damaged
  BY DEF Parts, whole
<1>5. Parts \subseteq WireAction
  BY <1>2, <1>3, <1>4
<1> DEFINE ones == {<<a>> : a \in Parts}
           twos == {<<a, b>> : a, b \in Parts}
<1>6. {<<>>} \cup ones \cup twos \subseteq Seq(WireAction)
  <2>1. <<>> \in Seq(WireAction)
    OBVIOUS
  <2>2. \A a \in WireAction : <<a>> \in Seq(WireAction)
    OBVIOUS
  <2>3. \A a, b \in WireAction : <<a, b>> \in Seq(WireAction)
    OBVIOUS
  <2>4. ones \subseteq Seq(WireAction)
    BY <1>5, <2>2
  <2>5. ASSUME NEW x \in twos
        PROVE  x \in Seq(WireAction)
    <3>1. PICK a \in Parts, b \in Parts : x = <<a, b>>
      BY SMT
    <3>2. QED
      BY <1>5, <2>3, <3>1
  <2> HIDE DEF ones, twos
  <2>6. QED
    BY <2>1, <2>4, <2>5
<1>7. QED
  BY <1>6 DEF Bodies, WireMsg

----------------------------------------------------------------------------
(* The steps.                                                              *)

LEMMA TxInvInit == TxInit => TxInv
  BY DEF TxInit, Init, TxInv, SignedInv, ExecutesOnlyAsked, BallotsInWindow

\* What clients ask for.
LEMMA TxsAreTyped ==
  ASSUME clock \in Nat, NEW ring \in Keyrings, NEW tx \in TxsOf(ring)
  PROVE  tx \in TxType
<1>1. PICK c \in {ChainId, OtherChain}, p \in ring :
        \E a \in ActionsOf(p) : tx = [chain |-> c, actions |-> <<a>>]
  BY DEF TxsOf
<1> PICK a \in ActionsOf(p) : tx = [chain |-> c, actions |-> <<a>>]
  BY <1>1
<1>2. p \in Identities
  BY KeyringsAssumption
<1>3. Window \in WindowType
  BY GraceAssumption DEF Window, WindowType
<1>4. a \in ActionType
  <2>1. CASE \E g \in Intents : a = ReconfigureAction(p, g, Window)
    BY <1>2, <1>3, <2>1, IntentsAssumption DEF ReconfigureAction, ActionType, ReconfigureType
  <2>2. CASE \E o \in Observations : a = ObserveAction(p, o)
    BY <1>2, <2>2, ObservationsAssumption DEF ObserveAction, ActionType, ObserveType
  <2>3. QED
    BY <1>1, <2>1, <2>2 DEF ActionsOf
<1>5. QED
  BY <1>1, <1>4 DEF TxType

LEMMA SubmitStep ==
  ASSUME TxInv, NEW ring \in Keyrings, Submit(ring)
  PROVE  TxInv'
<1>1. PICK tx \in TxsOf(ring) : SignAll(ring, Encode(tx)) /\ asked' = asked \cup {tx}
  BY DEF Submit
<1>2. tx \in TxType
  BY <1>1, TxsAreTyped DEF TxInv
<1>3. UNCHANGED <<clock, executing, adminVotes>>
  BY DEF Submit, chainVars, vars, adminQueue
<1>4. ExecutesOnlyAsked' /\ BallotsInWindow' /\ \A x \in signed : SignedBody(x.body)'
  BY <1>1, <1>3, MoreAsked
<1>5. SignedBody(Encode(tx))'
  <2>1. \A i \in DOMAIN tx.actions :
          SameAction(tx.actions[i], DecodeAction(EncodeAction(tx.actions[i])))
    BY <1>2, EncodedTx, ActionComesBack
  <2>2. FormOf(Encode(tx), tx)
    BY <1>2, <2>1, EncodedTx DEF FormOf
  <2>3. QED
    BY <1>1, <1>2, <2>2, EncodedTx DEF SignedBody
<1>6. SignedInv'
  BY <1>1, <1>4, <1>5, SigningOne
<1>7. QED
  BY <1>1, <1>2, <1>3, <1>4, <1>6 DEF TxInv

\* A message that decodes is the form of what it decodes to.
LEMMA DecodedTx ==
  ASSUME NEW body \in WireMsg, DecodesAll(body)
  PROVE  /\ Map(DecodeAction, body.actions) \in Seq(ActionType)
         /\ Len(Map(DecodeAction, body.actions)) = Len(body.actions)
         /\ DOMAIN Map(DecodeAction, body.actions) = DOMAIN body.actions
         /\ \A i \in DOMAIN body.actions :
              /\ Map(DecodeAction, body.actions)[i] = DecodeAction(body.actions[i])
              /\ SameAction(DecodeAction(body.actions[i]), DecodeAction(body.actions[i]))
<1> DEFINE n == DOMAIN body.actions
           m == Map(DecodeAction, body.actions)
<1>1. body.actions \in Seq(WireAction) /\ \A i \in n : body.actions[i] \in WireAction
  BY DEF WireMsg
<1>2. \A i \in n : /\ DecodeAction(body.actions[i]) \in ActionType
                   /\ SameAction(DecodeAction(body.actions[i]), DecodeAction(body.actions[i]))
  BY <1>1, ActionDecoded DEF DecodesAll
<1>3. m = [i \in n |-> DecodeAction(body.actions[i])]
  BY DEF Map
<1> HIDE DEF m
<1>4. m \in [n -> ActionType]
  BY <1>2, <1>3
<1>5. m \in Seq(ActionType) /\ Len(m) = Len(body.actions) /\ DOMAIN m = n
  BY <1>1, <1>4, MappedSeq
<1>6. QED
  BY <1>2, <1>3, <1>5 DEF m

LEMMA SubmitOtherStep ==
  ASSUME TxInv, NEW ring \in Keyrings, SubmitOther(ring)
  PROVE  TxInv'
<1>1. PICK body \in Bodies :
        /\ SignAll(ring, body)
        /\ asked' = IF DecodesAll(body)
                    THEN asked \cup {[chain |-> body.chain,
                                      actions |-> Map(DecodeAction, body.actions)]}
                    ELSE asked
  BY DEF SubmitOther, DecodesAll
<1>2. body \in WireMsg
  BY PartsOfMessages DEF TxInv
<1>3. UNCHANGED <<clock, executing, adminVotes>>
  BY DEF SubmitOther, chainVars, vars, adminQueue
<1>4. asked \subseteq asked'
  BY <1>1
<1>5. ExecutesOnlyAsked' /\ BallotsInWindow' /\ \A x \in signed : SignedBody(x.body)'
  BY <1>3, <1>4, MoreAsked
<1>6. (asked \subseteq TxType)' /\ SignedBody(body)'
  <2>1. CASE DecodesAll(body)
    <3> DEFINE m == Map(DecodeAction, body.actions)
               tx == [chain |-> body.chain, actions |-> m]
    <3>1. /\ m \in Seq(ActionType) /\ Len(m) = Len(body.actions)
          /\ \A i \in DOMAIN body.actions :
               /\ m[i] = DecodeAction(body.actions[i])
               /\ SameAction(DecodeAction(body.actions[i]), DecodeAction(body.actions[i]))
      BY <1>2, <2>1, DecodedTx
    <3>2. asked' = asked \cup {tx}
      BY <1>1, <2>1
    <3> HIDE DEF m
    <3>3. tx \in TxType
      BY <1>2, <3>1 DEF TxType, WireMsg
    <3>4. FormOf(body, tx)
      BY <3>1 DEF FormOf
    <3> HIDE DEF tx
    <3>5. QED
      BY <1>2, <3>2, <3>3, <3>4 DEF SignedBody, TxInv
  <2>2. CASE ~DecodesAll(body)
    BY <1>1, <1>2, <2>2 DEF SignedBody, TxInv
  <2>3. QED
    BY <2>1, <2>2
<1>7. SignedInv'
  BY <1>1, <1>5, <1>6, SigningOne
<1>8. QED
  BY <1>3, <1>5, <1>6, <1>7 DEF TxInv

\* A block includes only messages whose every signer signed this very message.
LEMMA DeliverStep ==
  ASSUME TxInv, NEW body \in Bodies, DeliverTx(WithSignatures(body))
  PROVE  TxInv'
<1> DEFINE msg == WithSignatures(body)
<1>1. body \in WireMsg /\ \A x \in signed : x.body \in WireMsg
  BY PartsOfMessages DEF TxInv, SignedInv, SignedBody
<1>2. /\ VerifyAll(msg) /\ msg.chain = ChainId /\ msg.actions # <<>>
      /\ \A i \in DOMAIN msg.actions : DecodesAction(msg.actions[i])
      /\ executing' = Map(DecodeAction, UnsignAll(msg).actions)
      /\ UNCHANGED <<adminVotes, clock, signed, asked>>
  BY DEF DeliverTx, Authenticates, chainVars, vars, adminQueue
<1> HIDE DEF msg
<1>3. /\ UnsignAll(msg) = body /\ msg.chain = body.chain
      /\ DOMAIN msg.actions = DOMAIN body.actions
      /\ \A j \in DOMAIN body.actions :
           DecodesAction(msg.actions[j]) <=> DecodesAction(body.actions[j])
      /\ VerifyAll(msg) =>
           \A i \in DOMAIN body.actions : \A s \in body.actions[i].signature :
             \E x \in signed : x.key = s.key /\ x.body = body
  BY <1>1, SignedByAll DEF msg
<1>4. DecodesAll(body)
  BY <1>2, <1>3 DEF DecodesAll
<1>5. /\ executing' \in Seq(ActionType) /\ Len(executing') = Len(body.actions)
      /\ DOMAIN executing' = DOMAIN body.actions
      /\ \A i \in DOMAIN body.actions : executing'[i] = DecodeAction(body.actions[i])
  BY <1>1, <1>2, <1>3, <1>4, DecodedTx
<1>6. ExecutesOnlyAsked'
  <2>1. SUFFICES ASSUME executing' # <<>>
                 PROVE  \E tx \in asked :
                          /\ tx.chain = ChainId
                          /\ Len(tx.actions) - Len(executing') = 0
                          /\ \A i \in DOMAIN executing' : SameAction(tx.actions[i], executing'[i])
    <3>1. DOMAIN executing' \subseteq Nat
      BY <1>5
    <3>2. \A i \in Nat : 0 + i = i
      OBVIOUS
    <3>3. QED
      BY <1>2, <3>1, <3>2 DEF ExecutesOnlyAsked
  <2>2. PICK i \in DOMAIN body.actions : TRUE
    BY <1>5, <2>1
  <2>3. PICK s \in body.actions[i].signature : TRUE
    BY <1>4 DEF DecodesAll, DecodesAction
  <2>4. PICK x \in signed : x.body = body
    BY <1>2, <1>3, <2>3
  <2>5. PICK tx \in asked : FormOf(body, tx)
    BY <1>4, <2>4 DEF TxInv, SignedInv, SignedBody
  <2>6. Len(tx.actions) - Len(executing') = 0
    BY <1>1, <1>5, <2>5 DEF FormOf, WireMsg
  <2>7. QED
    BY <1>2, <1>3, <1>5, <2>5, <2>6 DEF FormOf
<1>7. QED
  BY <1>2, <1>5, <1>6, FewerBallots DEF TxInv, SignedInv, SignedBody

\* The first of the actions that are left is one that was asked for.
LEMMA HeadWasAsked ==
  ASSUME TxInv, executing # <<>>
  PROVE  \E tx \in asked :
           /\ tx \in TxType /\ tx.chain = ChainId
           /\ \E i \in DOMAIN tx.actions : SameAction(tx.actions[i], Head(executing))
<1>1. PICK tx \in asked :
        LET done == Len(tx.actions) - Len(executing)
        IN  /\ tx.chain = ChainId /\ done >= 0
            /\ \A i \in DOMAIN executing : SameAction(tx.actions[done + i], executing[i])
  BY DEF TxInv, ExecutesOnlyAsked
<1> DEFINE done == Len(tx.actions) - Len(executing)
<1>2. tx \in TxType /\ tx.actions \in Seq(ActionType) /\ executing \in Seq(ActionType)
  BY DEF TxInv, TxType
<1>3. 1 \in DOMAIN executing /\ Head(executing) = executing[1] /\ Len(executing) \in Nat \ {0}
  BY <1>2
<1>4. done + 1 \in DOMAIN tx.actions
  BY <1>1, <1>2, <1>3
<1>5. SameAction(tx.actions[done + 1], Head(executing))
  BY <1>1, <1>3
<1>6. QED
  BY <1>1, <1>2, <1>4, <1>5

\* What is left after the first action is the end of the same transaction.
LEMMA TailWasAsked ==
  ASSUME TxInv, executing # <<>>, executing' = Tail(executing), asked' = asked
  PROVE  executing' \in Seq(ActionType) /\ ExecutesOnlyAsked'
<1>1. PICK tx \in asked :
        LET done == Len(tx.actions) - Len(executing)
        IN  /\ tx.chain = ChainId /\ done >= 0
            /\ \A i \in DOMAIN executing : SameAction(tx.actions[done + i], executing[i])
  BY DEF TxInv, ExecutesOnlyAsked
<1> DEFINE done == Len(tx.actions) - Len(executing)
<1>2. tx.actions \in Seq(ActionType) /\ executing \in Seq(ActionType)
  BY DEF TxInv, TxType
<1>3. /\ executing' \in Seq(ActionType) /\ Len(executing') = Len(executing) - 1
      /\ \A i \in DOMAIN executing' : /\ i \in Nat /\ i + 1 \in DOMAIN executing
                                      /\ executing'[i] = executing[i + 1]
  BY <1>2
<1>4. done \in Int /\ Len(tx.actions) - Len(executing') = done + 1
  BY <1>2, <1>3
<1>5. ASSUME NEW i \in DOMAIN executing'
      PROVE  SameAction(tx.actions[(done + 1) + i], executing'[i])
  <2>1. done + (i + 1) = (done + 1) + i
    BY <1>3, <1>4
  <2>2. SameAction(tx.actions[done + (i + 1)], executing[i + 1])
    BY <1>1, <1>3
  <2>3. QED
    BY <1>3, <2>1, <2>2
<1>6. done + 1 >= 0 /\ tx.chain = ChainId
  BY <1>1, <1>4
<1> HIDE DEF done
<1>7. ExecutesOnlyAsked'
  BY <1>4, <1>5, <1>6 DEF ExecutesOnlyAsked
<1>8. QED
  BY <1>3, <1>7

\* The vote that an action casts is one that was asked for, inside its window.
LEMMA ApplyBallots ==
  ASSUME TxInv, executing # <<>>, Accepted(Head(executing)), Apply(Head(executing)),
         asked' = asked
  PROVE  BallotsInWindow'
<1> DEFINE a == Head(executing)
<1>1. PICK tx \in asked : /\ tx.chain = ChainId
                          /\ \E i \in DOMAIN tx.actions : SameAction(tx.actions[i], a)
  BY HeadWasAsked
<1>2. PICK i \in DOMAIN tx.actions : SameAction(tx.actions[i], a)
  BY <1>1
<1> HIDE DEF a
<1>3. CASE a.kind = "reconfigure"
  <2> DEFINE b == AdminQ!NewVote(Empty, a.identity, a.config, now)
  <2>1. /\ a.window.notBefore <= now /\ now <= a.window.notAfter
        /\ Admin!Cast(config.admins.voting, Empty, a.identity, a.config, now, Proposals)
    BY <1>3 DEF a, Apply, Reconfigure, ReconfigureAccepted
  <2>2. AdminQ!Cast(config.admins.voting, Empty, a.identity, a.config, now, Proposals)
    BY <2>1, AdminCastSame
  <2>3. adminVotes' \subseteq adminVotes \cup {b}
    BY <2>2, QueueAssumptions, AdminQ!CastOutcome
  <2>4. b.party = a.identity /\ b.value = a.config /\ b.at = now
    BY DEF AdminQ!NewVote
  <2> HIDE DEF b
  <2>5. /\ tx.actions[i].kind = "reconfigure" /\ tx.actions[i].identity = b.party
        /\ SameConfig(tx.actions[i].config, b.value)
        /\ tx.actions[i].window.notBefore <= b.at /\ b.at <= tx.actions[i].window.notAfter
    BY <1>2, <1>3, <2>1, <2>4 DEF SameAction
  <2>6. QED
    BY <1>1, <2>3, <2>5 DEF TxInv, BallotsInWindow
<1>4. CASE a.kind # "reconfigure"
  <2>1. adminVotes' = adminVotes
    BY <1>4 DEF a, Apply, Observe, adminQueue
  <2>2. QED
    BY <2>1, FewerBallots DEF TxInv
<1>5. QED
  BY <1>3, <1>4

LEMMA ApplyStep ==
  ASSUME TxInv, ApplyAction
  PROVE  TxInv'
<1>1. executing # <<>> /\ UNCHANGED <<clock, signed, asked>>
  BY DEF ApplyAction
<1>2. (clock \in Nat /\ asked \subseteq TxType /\ SignedInv)'
  BY <1>1 DEF TxInv, SignedInv, SignedBody
<1>3. CASE Accepted(Head(executing))
  <2>1. Apply(Head(executing)) /\ executing' = Tail(executing)
    BY <1>3 DEF ApplyAction
  <2>2. executing' \in Seq(ActionType) /\ ExecutesOnlyAsked'
    BY <1>1, <2>1, TailWasAsked
  <2>3. BallotsInWindow'
    BY <1>1, <1>3, <2>1, ApplyBallots
  <2>4. QED
    BY <1>2, <2>2, <2>3 DEF TxInv
<1>4. CASE ~Accepted(Head(executing))
  <2>1. executing' = <<>> /\ adminVotes' = adminVotes
    BY <1>4 DEF ApplyAction, chainVars, vars, adminQueue
  <2>2. executing' \in Seq(ActionType) /\ ExecutesOnlyAsked'
    BY <2>1 DEF ExecutesOnlyAsked
  <2>3. BallotsInWindow'
    BY <1>1, <2>1, FewerBallots DEF TxInv
  <2>4. QED
    BY <1>2, <2>2, <2>3 DEF TxInv
<1>5. QED
  BY <1>3, <1>4

\* Votes only expire between transactions.
LEMMA NextBlockStep ==
  ASSUME TxInv, NextBlock
  PROVE  TxInv'
<1>1. UNCHANGED <<clock, signed, asked, executing>>
  BY DEF NextBlock
<1>2. adminVotes' \subseteq adminVotes
  BY DEF NextBlock, BeginBlock, EndBlock, Admin!TimeoutExpiredVotes
<1>3. BallotsInWindow'
  BY <1>1, <1>2, FewerBallots DEF TxInv
<1>4. QED
  BY <1>1, <1>3 DEF TxInv, SignedInv, SignedBody, ExecutesOnlyAsked

LEMMA TxInvStep == TxInv /\ [TxNext]_txVars => TxInv'
<1> SUFFICES ASSUME TxInv, [TxNext]_txVars
             PROVE  TxInv'
  OBVIOUS
<1>1. CASE \E ring \in Keyrings : Submit(ring)
  BY <1>1, SubmitStep
<1>2. CASE \E ring \in Keyrings : SubmitOther(ring)
  BY <1>2, SubmitOtherStep
<1>3. CASE \E body \in Bodies : DeliverTx(WithSignatures(body))
  BY <1>3, DeliverStep
<1>4. CASE ApplyAction
  BY <1>4, ApplyStep
<1>5. CASE NextBlock
  BY <1>5, NextBlockStep
<1>6. CASE Tick
  <2>1. clock' = clock + 1 /\ UNCHANGED <<adminVotes, signed, asked, executing>>
    BY <1>6 DEF Tick, chainVars, vars, adminQueue
  <2>2. QED
    BY <2>1, FewerBallots DEF TxInv, SignedInv, SignedBody, ExecutesOnlyAsked
<1>7. CASE UNCHANGED txVars
  <2>1. UNCHANGED <<adminVotes, clock, signed, asked, executing>>
    BY <1>7 DEF txVars, chainVars, vars, adminQueue
  <2>2. QED
    BY <2>1, FewerBallots DEF TxInv, SignedInv, SignedBody, ExecutesOnlyAsked
<1>8. QED
  BY <1>1, <1>2, <1>3, <1>4, <1>5, <1>6, <1>7 DEF TxNext

----------------------------------------------------------------------------
(* Theorems.                                                               *)

\* What is signed and decodes was asked for, what is executed is the rest of a
\* transaction asked for, and the votes of admins are from such transactions.
THEOREM TxInvariant == TxSpec => []TxInv
<1>1. QED
  BY TxInvInit, TxInvStep, PTL DEF TxSpec

\* deliver_tx executes a transaction only whole, in its order and for this chain, as
\* all identities in it asked for and signed it.
THEOREM OnlyAskedIsExecuted == TxSpec => []ExecutesOnlyAsked
<1>1. TxInv => ExecutesOnlyAsked
  BY DEF TxInv
<1>2. QED
  BY <1>1, TxInvariant, PTL

\* Every vote of an admin that the chain holds was asked for by that admin and cast
\* between not_before and not_after.
THEOREM VotesWereAskedInTime == TxSpec => []BallotsInWindow
<1>1. TxInv => BallotsInWindow
  BY DEF TxInv
<1>2. QED
  BY <1>1, TxInvariant, PTL

\* Whatever a client is asked for, what it signs passes verify_all and from_proto and
\* comes out as meant.
THEOREM AskedPassesAuthentication == TxSpec => []AskedAuthenticates
<1>1. TxInv => AskedAuthenticates
  BY SignedAuthenticates DEF TxInv, AskedAuthenticates
<1>2. QED
  BY <1>1, TxInvariant, PTL

=============================================================================
