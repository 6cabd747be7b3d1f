--------------------------- MODULE LibraryProofs ---------------------------
(***************************************************************************)
(* Theorems about the parts of the library that compute something from     *)
(* their arguments: BatteryMeter, HttpUtils and DirListing.                *)
(*                                                                         *)
(* For BatteryMeter and HttpUtils the types of the arguments are the       *)
(* invariant, and the theorems rest on lemmas about their operators.       *)
(* For DirListing it is ListingInvariant: what each loop has achieved when *)
(* its iterator stands where it does.                                      *)
(***************************************************************************)
EXTENDS HttpUtils, BatteryMeter, DirListing, SequenceTheorems, TLAPS
LOCAL INSTANCE SequencesExt
WF == INSTANCE WellFoundedInduction

(***************************************************************************)
(* Numbers.                                                                *)
(***************************************************************************)

\* Every set of numbers but the empty one has a least element.
LEMMA LeastOf ==
  ASSUME NEW T, T \subseteq Nat, T # {}
  PROVE  \E m \in T : \A n \in T : m <= n
<1> DEFINE R == WF!OpToRel(<, Nat)
<1>1. WF!IsWellFoundedOn(R, Nat)
  BY WF!NatLessThanWellFounded
<1> HIDE DEF R
<1>2. PICK m \in T : \A n \in T : ~ (<<n, m>> \in R)
  BY <1>1, WF!WFMin
<1>3. \A n \in T : n < m => <<n, m>> \in R
  BY DEF R, WF!OpToRel
<1>4. \A n \in T : ~ (n < m)
  BY <1>2, <1>3
<1>5. m \in Nat /\ \A n \in T : n \in Nat
  OBVIOUS
<1> QED
  BY <1>4, <1>5

(***************************************************************************)
(* Sequences.                                                              *)
(***************************************************************************)

\* A sequence is the concatenation of its two parts.
LEMMA Joined ==
  ASSUME NEW S, NEW a \in Seq(S), NEW b \in Seq(S), NEW c \in Seq(S),
         Len(c) = Len(a) + Len(b),
         \A i \in 1 .. Len(a) : a[i] = c[i],
         \A i \in 1 .. Len(b) : b[i] = c[i + Len(a)]
  PROVE  a \o b = c
<1> DEFINE t == a \o b
<1>1. /\ t \in Seq(S) /\ Len(t) = Len(c)
      /\ \A i \in 1 .. Len(a) + Len(b) : t[i] = IF i <= Len(a) THEN a[i] ELSE b[i - Len(a)]
  BY ConcatProperties
<1>2. Len(a) \in Nat /\ Len(b) \in Nat
  OBVIOUS
<1> HIDE DEF t
<1>3. ASSUME NEW i \in 1 .. Len(t) PROVE t[i] = c[i]
  <2>1. CASE i <= Len(a)
    BY <1>1, <1>2, <2>1
  <2>2. CASE i > Len(a)
    <3>1. i - Len(a) \in 1 .. Len(b) /\ (i - Len(a)) + Len(a) = i
      BY <1>1, <1>2, <2>2
    <3>2. b[i - Len(a)] = c[i]
      BY <3>1
    <3>3. t[i] = b[i - Len(a)]
      BY <1>1, <1>2, <2>2
    <3>4. QED
      BY <3>2, <3>3
  <2>3. QED
    BY <1>1, <1>2, <2>1, <2>2
<1>4. t = c
  BY <1>1, <1>3, SeqEqual
<1> QED
  BY <1>4 DEF t

(***************************************************************************)
(* BatteryMeter                                                            *)
(***************************************************************************)

Rounded(n, m) == (2 * n + m) \div (2 * m)

\* What integer division computes.
LEMMA Quotient ==
  ASSUME NEW a \in Int, NEW b \in Nat \ {0}
  PROVE  /\ a \div b \in Int
         /\ b * (a \div b) <= a
         /\ a < b * (a \div b) + b
  OBVIOUS

\* A larger dividend has no smaller quotient.
LEMMA QuotientRises ==
  ASSUME NEW a \in Int, NEW c \in Int, a <= c, NEW b \in Nat \ {0}
  PROVE  a \div b <= c \div b
<1> DEFINE q == a \div b
           r == c \div b
<1>1. /\ q \in Int /\ r \in Int
      /\ b * q <= a /\ c < b * r + b
  BY Quotient
<1> HIDE DEF q, r
<1>2. SUFFICES ASSUME r + 1 <= q PROVE FALSE
  BY <1>1 DEF q, r
<1>3. b * (r + 1) <= b * q
  BY <1>1, <1>2
<1>4. b * (r + 1) = b * r + b
  BY <1>1
<1>5. b * r \in Int /\ b * q \in Int
  BY <1>1
<1> QED
  BY <1>1, <1>3, <1>4, <1>5

\* A number n/m of 0 to 100 is rounded to one of 0 to 100, and both ends to
\* themselves.
LEMMA RoundedBounds ==
  ASSUME NEW m \in Nat \ {0}, NEW n \in 0 .. 100 * m
  PROVE  /\ Rounded(n, m) \in 0 .. 100
         /\ n = 0 => Rounded(n, m) = 0
         /\ n = 100 * m => Rounded(n, m) = 100
<1> DEFINE b == 2 * m
           r == Rounded(n, m)
<1>1. b \in Nat \ {0} /\ 2 * n + m \in Int
  OBVIOUS
<1>2. r \in Int /\ b * r <= 2 * n + m /\ 2 * n + m < b * r + b
  BY <1>1, Quotient DEF Rounded
<1>3. 2 * n + m <= 100 * b + m /\ m < b /\ 0 <= 2 * n + m
  OBVIOUS
<1> HIDE DEF b, r
<1>4. b * r \in Int
  BY <1>1, <1>2
<1>5. ASSUME r <= -1 PROVE FALSE
  <2>1. b * r <= b * (-1)
    BY <1>1, <1>2, <1>5
  <2>2. b * (-1) = -b
    BY <1>1
  <2>3. QED
    BY <1>1, <1>2, <1>3, <1>4, <2>1, <2>2
<1>6. ASSUME NEW k \in Int, k + 1 <= r PROVE k * b + b <= b * r
  <2>1. b * (k + 1) <= b * r
    BY <1>1, <1>2, <1>6
  <2>2. b * (k + 1) = k * b + b
    BY <1>1
  <2>3. QED
    BY <2>1, <2>2
<1>7. ~ (101 <= r)
  <2>1. SUFFICES ASSUME 101 <= r PROVE FALSE
    OBVIOUS
  <2>2. 100 * b + b <= b * r
    BY <1>6, <2>1
  <2>3. QED
    BY <1>1, <1>2, <1>3, <1>4, <2>2
<1>8. n = 0 => ~ (1 <= r)
  <2>1. SUFFICES ASSUME n = 0, 0 + 1 <= r PROVE FALSE
    OBVIOUS
  <2>2. 0 * b + b <= b * r
    BY <1>6, <2>1
  <2>3. QED
    BY <1>1, <1>2, <1>3, <1>4, <2>1, <2>2
<1>9. n = 100 * m => ~ (r <= 99)
  <2>1. SUFFICES ASSUME n = 100 * m, r <= 99 PROVE FALSE
    OBVIOUS
  <2>2. b * r <= b * 99
    BY <1>1, <1>2, <2>1
  <2>3. 2 * n + m = 100 * b + m
    BY <2>1 DEF b
  <2>4. QED
    BY <1>1, <1>2, <1>3, <1>4, <2>2, <2>3
<1>10. r \in 0 .. 100 /\ (n = 0 => r = 0) /\ (n = 100 * m => r = 100)
  BY <1>2, <1>5, <1>7, <1>8, <1>9
<1> QED
  BY <1>10 DEF r

\* RoundClamped gives one value of 0 to 100, and clamps what is outside.
LEMMA ClampedBounds ==
  ASSUME NEW m \in Nat \ {0}, NEW n \in Int
  PROVE  /\ \E p \in 0 .. 100 : RoundClamped(n, m) = {p}
         /\ n <= 0 => RoundClamped(n, m) = {0}
         /\ n >= 100 * m => RoundClamped(n, m) = {100}
<1>1. CASE n > 100 * m
  BY <1>1 DEF RoundClamped
<1>2. CASE n < 0
  <2>1. ~ (n > 100 * m) /\ ~ (n >= 100 * m)
    BY <1>2
  <2>2. QED
    BY <1>2, <2>1 DEF RoundClamped
<1>3. CASE n \in 0 .. 100 * m
  <2>1. RoundClamped(n, m) = {Rounded(n, m)}
    BY <1>3 DEF RoundClamped, Rounded
  <2>2. /\ Rounded(n, m) \in 0 .. 100
        /\ n = 0 => Rounded(n, m) = 0
        /\ n = 100 * m => Rounded(n, m) = 100
    BY <1>3, RoundedBounds
  <2>3. (n <= 0 => n = 0) /\ (n >= 100 * m => n = 100 * m)
    BY <1>3
  <2>4. QED
    BY <2>1, <2>2, <2>3
<1> QED
  BY <1>1, <1>2, <1>3

\* A larger quotient is not rounded to a smaller number.
LEMMA ClampedRises ==
  ASSUME NEW m \in Nat \ {0}, NEW n \in Int, NEW k \in Int, n <= k,
         NEW p \in RoundClamped(n, m), NEW q \in RoundClamped(k, m)
  PROVE  p <= q
<1>1. p \in 0 .. 100 /\ q \in 0 .. 100
  <2>1. PICK c \in 0 .. 100 : RoundClamped(n, m) = {c}
    BY ClampedBounds
  <2>2. PICK d \in 0 .. 100 : RoundClamped(k, m) = {d}
    BY ClampedBounds
  <2>3. QED
    BY <2>1, <2>2
<1>2. CASE n <= 0
  BY <1>1, <1>2, ClampedBounds
<1>3. CASE k >= 100 * m
  BY <1>1, <1>3, ClampedBounds
<1>4. CASE n > 0 /\ k < 100 * m
  <2>1. n \in 0 .. 100 * m /\ k \in 0 .. 100 * m
    BY <1>4
  <2>2. p = Rounded(n, m) /\ q = Rounded(k, m)
    BY <2>1 DEF RoundClamped, Rounded
  <2>3. 2 * n + m <= 2 * k + m /\ 2 * n + m \in Int /\ 2 * k + m \in Int /\ 2 * m \in Nat \ {0}
    OBVIOUS
  <2>4. QED
    BY <2>2, <2>3, QuotientRises DEF Rounded
<1> QED
  BY <1>2, <1>3, <1>4

MeterTypeOK ==
  dischargedVoltage \in Voltages /\ fullVoltage \in Voltages /\ voltage \in Voltages

\* The voltages stay voltages.
LEMMA MeterTypes == MeterSpec => []MeterTypeOK
<1>1. MeterInit => MeterTypeOK
  BY VoltageAssumption DEF MeterInit, MeterTypeOK, Voltages
<1>2. MeterTypeOK /\ [Charge]_meterVars => MeterTypeOK'
  BY VoltageAssumption DEF MeterTypeOK, Charge, meterVars, Voltages
<1>3. QED
  BY <1>1, <1>2, PTL DEF MeterSpec

\* The charge is right at all voltages, those of the constructor and of the reading.
LEMMA RisesAtAnyVoltage ==
  ASSUME MeterTypeOK
  PROVE  ChargeRises
<1> DEFINE m == fullVoltage - dischargedVoltage
           n(reading) == 100 * (reading - dischargedVoltage)
<1>1. /\ m \in Int /\ \A reading \in Voltages : reading \in Int /\ n(reading) \in Int
      /\ voltage \in Int /\ dischargedVoltage \in Int /\ fullVoltage \in Int
      /\ voltage \in Voltages
  BY VoltageAssumption DEF MeterTypeOK, Voltages
<1>2. ASSUME NEW reading \in Voltages, m > 0
      PROVE  ChargePercent(reading) = RoundClamped(n(reading), m)
  BY <1>1, <1>2 DEF ChargePercent
<1>3. ASSUME voltage # dischargedVoltage \/ fullVoltage # dischargedVoltage
      PROVE  \E p \in 0 .. 100 : ChargePercent(voltage) = {p}
  <2>1. CASE m > 0
    <3>1. m \in Nat \ {0} /\ n(voltage) \in Int
      BY <1>1, <2>1
    <3>2. ChargePercent(voltage) = RoundClamped(n(voltage), m)
      BY <1>1, <1>2, <2>1
    <3> HIDE DEF m, n
    <3>3. QED
      BY <3>1, <3>2, ClampedBounds
  <2>2. CASE m < 0
    <3>1. -m \in Nat \ {0} /\ -n(voltage) \in Int
      BY <1>1, <2>2
    <3>2. ChargePercent(voltage) = RoundClamped(-n(voltage), -m)
      BY <1>1, <2>2 DEF ChargePercent
    <3> HIDE DEF m, n
    <3>3. \E p \in 0 .. 100 : RoundClamped(-n(voltage), -m) = {p}
      BY <3>1, ClampedBounds
    <3>4. QED
      BY <3>2, <3>3
  <2>3. CASE m = 0 /\ n(voltage) > 0
    <3>1. ChargePercent(voltage) = {100}
      BY <1>1, <2>3 DEF ChargePercent
    <3>2. QED
      BY <3>1
  <2>4. CASE m = 0 /\ n(voltage) < 0
    <3>1. ChargePercent(voltage) = {0}
      BY <1>1, <2>4 DEF ChargePercent
    <3>2. QED
      BY <3>1
  <2>5. QED
    BY <1>1, <1>3, <2>1, <2>2, <2>3, <2>4
<1>4. ASSUME dischargedVoltage < fullVoltage, NEW p \in ChargePercent(voltage)
      PROVE  /\ voltage <= dischargedVoltage => p = 0
             /\ voltage >= fullVoltage => p = 100
             /\ \A higher \in voltage .. MaxVoltage :
                  \A q \in ChargePercent(higher) : p <= q
  <2>1. m \in Nat \ {0} /\ m > 0
    BY <1>1, <1>4
  <2>2. p \in RoundClamped(n(voltage), m)
    BY <1>1, <1>2, <1>4, <2>1
  <2>3. /\ voltage <= dischargedVoltage => n(voltage) <= 0
        /\ voltage >= fullVoltage => n(voltage) >= 100 * m
    BY <1>1
  <2>4. ASSUME NEW higher \in voltage .. MaxVoltage, NEW q \in ChargePercent(higher)
        PROVE  p <= q
    <3>1. higher \in Voltages /\ n(voltage) <= n(higher) /\ n(higher) \in Int
      BY <1>1, VoltageAssumption DEF Voltages
    <3>2. q \in RoundClamped(n(higher), m)
      BY <1>2, <2>1, <2>4, <3>1
    <3> HIDE DEF m, n
    <3>3. QED
      BY <1>1, <2>1, <2>2, <3>1, <3>2, ClampedRises
  <2> HIDE DEF m, n
  <2>5. QED
    BY <1>1, <2>1, <2>2, <2>3, <2>4, ClampedBounds
<1> QED
  BY <1>3, <1>4 DEF ChargeRises

\* The charge of a battery rises from 0 to 100 with its voltage: chargePercent of
\* BatteryMeter with exact quotients.  It is the code's for voltages of up to 16
\* bits, as the module says; floats would not round alike for wider ones.
THEOREM ChargeCorrect == MeterSpec => []ChargeRises
<1>1. MeterTypeOK => ChargeRises
  BY RisesAtAnyVoltage
<1>2. QED
  BY <1>1, MeterTypes, PTL

(***************************************************************************)
(* HttpUtils                                                               *)
(***************************************************************************)

\* pattern stands in s at position i.
Stands(s, pattern, i) == SubSeq(s, i + 1, i + Len(pattern)) = pattern

\* What std::string::find returns: the first position of the pattern, if any.
LEMMA FindsFirst ==
  ASSUME NEW s, Len(s) \in Nat, NEW pattern, Len(pattern) \in Nat, NEW from \in Nat
  PROVE  \/ /\ Find(s, pattern, from) = npos
            /\ \A i \in from .. Len(s) - Len(pattern) : ~ Stands(s, pattern, i)
         \/ /\ Find(s, pattern, from) \in from .. Len(s) - Len(pattern)
            /\ Stands(s, pattern, Find(s, pattern, from))
            /\ \A i \in from .. Find(s, pattern, from) - 1 : ~ Stands(s, pattern, i)
<1> DEFINE found == {i \in from .. Len(s) - Len(pattern) : Stands(s, pattern, i)}
           first == CHOOSE i \in found : \A j \in found : i <= j
<1>1. Find(s, pattern, from) = IF found = {} THEN npos ELSE first
  BY DEF Find, Stands
<1>2. CASE found = {}
  BY <1>1, <1>2
<1>3. CASE found # {}
  <2>1. found \subseteq Nat
    OBVIOUS
  <2>2. \E i \in found : \A j \in found : i <= j
    BY <1>3, <2>1, LeastOf
  <2>3. first \in found /\ \A j \in found : first <= j
    BY <2>2
  <2>4. ASSUME NEW i \in from .. first - 1 PROVE i \notin found
    <3>1. first \in Nat
      BY <2>1, <2>3
    <3> HIDE DEF first
    <3>2. i < first /\ i \in Int
      BY <3>1
    <3>3. i \in found => first <= i
      BY <2>3
    <3>4. QED
      BY <3>1, <3>2, <3>3
  <2>5. \A i \in from .. first - 1 : i \in from .. Len(s) - Len(pattern)
    BY <2>3
  <2>6. QED
    BY <1>1, <1>3, <2>3, <2>4, <2>5
<1> QED
  BY <1>2, <1>3

UrlTypeOK == url \in Seq(Tokens)

\* The argument stays a sequence of tokens.
LEMMA UrlTypes == UrlSpec => []UrlTypeOK
<1>1. UrlInit => UrlTypeOK
  BY DEF UrlInit, UrlTypeOK
<1>2. UrlTypeOK /\ [AddToken]_url => UrlTypeOK'
  BY DEF UrlTypeOK, AddToken
<1>3. QED
  BY <1>1, <1>2, PTL DEF UrlSpec

\* url reads protocol://host up to position s, where a path begins or the URL ends.
HostEnds(s) ==
  /\ Len(url) \in Nat /\ s \in 5 .. Len(url)
  /\ url[1] \in {"http", "https"}
  /\ url[2] = ":" /\ url[3] = "/" /\ url[4] = "/"
  /\ \A i \in 5 .. s : url[i] # "/"
  /\ s < Len(url) => url[s + 1] = "/"

\* The patterns that HttpUtils looks for, token by token.
LEMMA Patterns ==
  ASSUME UrlTypeOK, NEW i \in Nat
  PROVE  /\ i + 3 <= Len(url) =>
              (Stands(url, Marker, i) <=>
                 url[i + 1] = ":" /\ url[i + 2] = "/" /\ url[i + 3] = "/")
         /\ i + 1 <= Len(url) => (Stands(url, <<"/">>, i) <=> url[i + 1] = "/")
         /\ i <= Len(url) =>
              /\ Len(SubSeq(url, 1, i)) = i
              /\ \A k \in 1 .. i : SubSeq(url, 1, i)[k] = url[k]
<1>1. Len(url) \in Nat /\ \A k \in 1 .. Len(url) : url[k] \in Tokens
  BY DEF UrlTypeOK
<1>2. ASSUME i + 3 <= Len(url)
      PROVE  Stands(url, Marker, i) <=>
               url[i + 1] = ":" /\ url[i + 2] = "/" /\ url[i + 3] = "/"
  <2> DEFINE t == SubSeq(url, i + 1, i + 3)
  <2>1. /\ t \in Seq(Tokens) /\ Len(t) = 3
        /\ t[1] = url[i + 1] /\ t[2] = url[i + 2] /\ t[3] = url[i + 3]
    <3>1. /\ t \in Seq(Tokens)
          /\ Len(t) = (i + 3) - (i + 1) + 1
          /\ \A k \in 1 .. (i + 3) - (i + 1) + 1 : t[k] = url[(i + 1) + k - 1]
      BY <1>1, <1>2, SubSeqProperties
    <3> HIDE DEF t
    <3>2. (i + 3) - (i + 1) + 1 = 3 /\ \A k \in 1 .. 3 : (i + 1) + k - 1 = i + k
      OBVIOUS
    <3>3. \A k \in 1 .. 3 : t[k] = url[i + k]
      BY <3>1, <3>2
    <3>4. QED
      BY <3>1, <3>2, <3>3
  <2>2. Len(Marker) = 3 /\ Marker = <<":", "/", "/">>
    BY DEF Marker
  <2> HIDE DEF t
  <2>3. t = Marker <=> t[1] = ":" /\ t[2] = "/" /\ t[3] = "/"
    BY <2>1, <2>2
  <2>4. QED
    BY <2>1, <2>2, <2>3 DEF Stands, t
<1>3. ASSUME i + 1 <= Len(url)
      PROVE  Stands(url, <<"/">>, i) <=> url[i + 1] = "/"
  <2> DEFINE t == SubSeq(url, i + 1, i + 1)
  <2>1. t \in Seq(Tokens) /\ Len(t) = 1 /\ t[1] = url[i + 1]
    BY <1>1, <1>3, SubSeqProperties
  <2>2. Len(<<"/">>) = 1
    OBVIOUS
  <2> HIDE DEF t
  <2>3. t = <<"/">> <=> t[1] = "/"
    BY <2>1
  <2>4. QED
    BY <2>1, <2>2, <2>3 DEF Stands, t
<1>4. ASSUME i <= Len(url)
      PROVE  /\ Len(SubSeq(url, 1, i)) = i
             /\ \A k \in 1 .. i : SubSeq(url, 1, i)[k] = url[k]
  BY <1>1, <1>4, SubSeqProperties
<1> QED
  BY <1>2, <1>3, <1>4

\* The length of a one-token protocol.
LEMMA Protocols ==
  ASSUME UrlTypeOK, NEW i \in 0 .. Len(url)
  PROVE  /\ IsProtocolValid(SubSeq(url, 1, i)) <=> i = 1 /\ url[1] \in {"http", "https"}
         /\ IsProtocolValid(SubSeq(url, 1, i)) => SubSeq(url, 1, i) # Refused
<1> DEFINE t == SubSeq(url, 1, i)
<1>1. t \in Seq(Tokens) /\ Len(t) = i /\ \A k \in 1 .. i : t[k] = url[k]
  BY SubSeqProperties DEF UrlTypeOK
<1> HIDE DEF t
<1>2. \A w : t = <<w>> <=> i = 1 /\ t[1] = w
  BY <1>1
<1>3. IsProtocolValid(t) <=> i = 1 /\ t[1] \in {"http", "https"}
  BY <1>2 DEF IsProtocolValid
<1>4. t = Refused => t[1] = "false"
  BY DEF Refused
<1>5. i = 1 => t[1] = url[1]
  BY <1>1
<1> QED
  BY <1>3, <1>4, <1>5 DEF t

\* Where the functions look for the marker and for a slash.
LEMMA MarkerFound ==
  ASSUME UrlTypeOK
  PROVE  \/ /\ GetProtocolIndex = npos
            /\ \A i \in 0 .. Len(url) - 3 : ~ Stands(url, Marker, i)
         \/ /\ GetProtocolIndex \in 0 .. Len(url) - 3
            /\ Stands(url, Marker, GetProtocolIndex)
            /\ \A i \in 0 .. GetProtocolIndex - 1 : ~ Stands(url, Marker, i)
<1> DEFINE p == Find(url, Marker, 0)
           last == Len(url) - Len(Marker)
<1>1. Len(url) \in Nat /\ Len(Marker) = 3 /\ last = Len(url) - 3
  BY DEF UrlTypeOK, Marker
<1>2. \/ p = npos /\ \A i \in 0 .. last : ~ Stands(url, Marker, i)
      \/ /\ p \in 0 .. last
         /\ Stands(url, Marker, p)
         /\ \A i \in 0 .. p - 1 : ~ Stands(url, Marker, i)
  <2>1. Len(url) \in Nat /\ Len(Marker) \in Nat /\ 0 \in Nat
    BY <1>1
  <2>2. QED
    BY <2>1, FindsFirst
<1>3. GetProtocolIndex = p
  BY DEF GetProtocolIndex
<1> HIDE DEF p, last
<1> QED
  BY <1>1, <1>2, <1>3

LEMMA SlashFound ==
  ASSUME UrlTypeOK, HostIndex \in Nat
  PROVE  \/ /\ SlashIndex = npos
            /\ \A i \in HostIndex .. Len(url) - 1 : ~ Stands(url, <<"/">>, i)
         \/ /\ SlashIndex \in HostIndex .. Len(url) - 1
            /\ Stands(url, <<"/">>, SlashIndex)
            /\ \A i \in HostIndex .. SlashIndex - 1 : ~ Stands(url, <<"/">>, i)
<1> DEFINE slash == <<"/">>
           q == Find(url, slash, HostIndex)
           last == Len(url) - Len(slash)
<1>1. Len(url) \in Nat /\ Len(slash) = 1 /\ last = Len(url) - 1
  BY DEF UrlTypeOK
<1>2. SlashIndex = q
  BY DEF SlashIndex
<1> HIDE DEF slash
<1>3. \/ q = npos /\ \A i \in HostIndex .. last : ~ Stands(url, slash, i)
      \/ /\ q \in HostIndex .. last
         /\ Stands(url, slash, q)
         /\ \A i \in HostIndex .. q - 1 : ~ Stands(url, slash, i)
  <2>1. Len(url) \in Nat /\ Len(slash) \in Nat
    BY <1>1
  <2>2. QED
    BY <2>1, FindsFirst
<1> HIDE DEF q, last
<1>4. \/ q = npos /\ \A i \in HostIndex .. Len(url) - 1 : ~ Stands(url, slash, i)
      \/ /\ q \in HostIndex .. Len(url) - 1
         /\ Stands(url, slash, q)
         /\ \A i \in HostIndex .. q - 1 : ~ Stands(url, slash, i)
  BY <1>1, <1>3
<1> QED
  BY <1>2, <1>4 DEF slash

\* The tests of isUrlCorrect.
LEMMA Tests ==
  ASSUME IsUrlCorrect
  PROVE  /\ ~ Contains(url, " ")
         /\ GetProtocolIndex # npos
         /\ IsProtocolValid(Substr(url, 0, GetProtocolIndex))
         /\ (IF SlashIndex > 0 THEN SlashIndex ELSE Len(url)) - HostIndex > 0
<1>1. /\ ~ Contains(url, " ") /\ HasValidProtocol
      /\ (IF SlashIndex > 0 THEN SlashIndex ELSE Len(url)) - HostIndex > 0
  BY DEF IsUrlCorrect
<1>2. GetProtocolIndex >= 0 /\ IsProtocolValid(Substr(url, 0, GetProtocolIndex))
  BY <1>1 DEF HasValidProtocol
<1>3. GetProtocolIndex # npos
  BY <1>2 DEF npos
<1> QED
  BY <1>1, <1>2, <1>3

\* The positions that the functions find in a URL whose host ends at s.
LEMMA Positions ==
  ASSUME UrlTypeOK, NEW s, HostEnds(s)
  PROVE  /\ GetProtocolIndex = 1 /\ HostIndex = 4
         /\ SlashIndex = IF s < Len(url) THEN s ELSE npos
<1>1. Len(url) \in Nat /\ s \in 5 .. Len(url) /\ Len(Marker) = 3 /\ Len(<<"/">>) = 1
  BY DEF HostEnds, Marker
<1>2. Stands(url, Marker, 1) /\ ~ Stands(url, Marker, 0)
  <2>1. 1 + 3 <= Len(url) /\ 0 + 3 <= Len(url)
    BY <1>1
  <2>2. url[1 + 1] = ":" /\ url[1 + 2] = "/" /\ url[1 + 3] = "/" /\ url[0 + 1] # ":"
    BY DEF HostEnds
  <2>3. QED
    BY <2>1, <2>2, Patterns
<1>3. GetProtocolIndex = 1
  <2>1. 1 \in 0 .. Len(url) - 3
    BY <1>1
  <2>2. /\ GetProtocolIndex \in 0 .. Len(url) - 3 /\ GetProtocolIndex # 0
        /\ ~ (1 \in 0 .. GetProtocolIndex - 1)
    BY <1>2, <2>1, MarkerFound
  <2>3. QED
    BY <2>2
<1>4. HostIndex = 4
  BY <1>1, <1>3 DEF HostIndex
<1>5. SlashIndex = IF s < Len(url) THEN s ELSE npos
  <2> DEFINE p == SlashIndex
  <2>1. \/ p = npos /\ \A i \in 4 .. Len(url) - 1 : ~ Stands(url, <<"/">>, i)
        \/ /\ p \in 4 .. Len(url) - 1
           /\ Stands(url, <<"/">>, p)
           /\ \A i \in 4 .. p - 1 : ~ Stands(url, <<"/">>, i)
    BY <1>4, SlashFound
  <2> HIDE DEF p
  <2>2. \A i \in 4 .. Len(url) - 1 : Stands(url, <<"/">>, i) <=> url[i + 1] = "/"
    BY <1>1, Patterns
  <2>3. \A i \in 4 .. s - 1 : ~ Stands(url, <<"/">>, i)
    <3>1. \A i \in 4 .. s - 1 : i \in 4 .. Len(url) - 1 /\ i + 1 \in 5 .. s
      BY <1>1
    <3>2. QED
      BY <2>2, <3>1 DEF HostEnds
  <2>4. CASE s < Len(url)
    <3>1. Stands(url, <<"/">>, s) /\ s \in 4 .. Len(url) - 1
      BY <1>1, <2>2, <2>4 DEF HostEnds
    <3>2. p \in 4 .. Len(url) - 1 /\ ~ (s \in 4 .. p - 1) /\ ~ (p \in 4 .. s - 1)
      BY <2>1, <2>3, <3>1
    <3>3. p = s
      BY <1>1, <3>2
    <3>4. QED
      BY <2>4, <3>3 DEF p
  <2>5. CASE ~ (s < Len(url))
    <3>1. s = Len(url)
      BY <1>1, <2>5
    <3>2. p = npos
      BY <2>1, <2>3, <3>1
    <3>3. QED
      BY <2>5, <3>2 DEF p
  <2>6. QED
    BY <2>4, <2>5
<1> QED
  BY <1>3, <1>4, <1>5

\* A correct URL has a host, which ends somewhere.
LEMMA CorrectHasHost ==
  ASSUME UrlTypeOK, IsUrlCorrect
  PROVE  \E s : HostEnds(s)
<1> DEFINE p == GetProtocolIndex
           q == SlashIndex
<1>1. /\ Len(url) \in Nat /\ Len(Marker) = 3 /\ HostIndex = p + 3
  BY DEF UrlTypeOK, Marker, HostIndex
<1>2. p \in 0 .. Len(url) - 3 /\ Stands(url, Marker, p)
  BY MarkerFound, Tests
<1>3. p = 1 /\ url[1] \in {"http", "https"}
  <2>1. IsProtocolValid(SubSeq(url, 1, p)) /\ p \in 0 .. Len(url)
    <3>1. SubSeq(url, 1, p) = Substr(url, 0, p)
      BY <1>2 DEF Substr
    <3>2. Substr(url, 0, p) \in {<<"http">>, <<"https">>}
      BY Tests DEF IsProtocolValid
    <3>3. SubSeq(url, 1, p) \in {<<"http">>, <<"https">>}
      BY <3>1, <3>2, Zenon
    <3>4. p \in 0 .. Len(url)
      BY <1>1, <1>2
    <3>5. QED
      BY <3>3, <3>4, Zenon DEF IsProtocolValid
  <2> HIDE DEF p
  <2>2. QED
    BY <2>1, Protocols
<1>4. url[2] = ":" /\ url[3] = "/" /\ url[4] = "/" /\ 4 <= Len(url)
  <2>1. 1 + 3 <= Len(url) /\ Stands(url, Marker, 1)
    BY <1>1, <1>2, <1>3
  <2>2. url[1 + 1] = ":" /\ url[1 + 2] = "/" /\ url[1 + 3] = "/"
    BY <2>1, Patterns
  <2>3. QED
    BY <2>1, <2>2
<1>5. \/ q = npos /\ \A i \in 4 .. Len(url) - 1 : ~ Stands(url, <<"/">>, i)
      \/ /\ q \in 4 .. Len(url) - 1
         /\ Stands(url, <<"/">>, q)
         /\ \A i \in 4 .. q - 1 : ~ Stands(url, <<"/">>, i)
  <2>1. HostIndex = 4
    BY <1>1, <1>3
  <2>2. QED
    BY <2>1, SlashFound
<1>6. \A i \in 4 .. Len(url) - 1 : Stands(url, <<"/">>, i) <=> url[i + 1] = "/"
  BY <1>1, Patterns
<1>7. (IF q > 0 THEN q ELSE Len(url)) - 4 > 0
  <2>1. HostIndex = 4
    BY <1>1, <1>3
  <2>2. QED
    BY <2>1, Tests
<1> HIDE DEF p, q
<1>8. CASE q = npos
  <2>1. Len(url) \in 5 .. Len(url)
    BY <1>1, <1>7, <1>8 DEF npos
  <2>2. \A i \in 5 .. Len(url) : i - 1 \in 4 .. Len(url) - 1 /\ (i - 1) + 1 = i
    BY <1>1
  <2>3. ASSUME NEW i \in 5 .. Len(url) PROVE url[i] # "/"
    <3>1. ~ Stands(url, <<"/">>, i - 1)
      BY <1>5, <1>8, <2>2 DEF npos
    <3>2. QED
      BY <1>6, <2>2, <3>1
  <2>4. HostEnds(Len(url))
    BY <1>1, <1>3, <1>4, <2>1, <2>3 DEF HostEnds
  <2>5. QED
    BY <2>4
<1>9. CASE q # npos
  <2>1. q \in 5 .. Len(url) /\ url[q + 1] = "/"
    BY <1>1, <1>5, <1>6, <1>7, <1>9
  <2>2. \A i \in 5 .. q : i - 1 \in 4 .. q - 1 /\ i - 1 \in 4 .. Len(url) - 1 /\ (i - 1) + 1 = i
    BY <1>1, <1>5, <1>9
  <2>3. \A i \in 5 .. q : url[i] # "/"
    BY <1>5, <1>6, <1>9, <2>2
  <2>4. HostEnds(q)
    BY <1>1, <1>3, <1>4, <2>1, <2>3 DEF HostEnds
  <2>5. QED
    BY <2>4
<1> QED
  BY <1>8, <1>9

\* The protocol, the host and the path of a URL whose host ends at s.
LEMMA HostMakesParts ==
  ASSUME UrlTypeOK, NEW s, HostEnds(s)
  PROVE  IsUrl(SubSeq(url, 1, 1), SubSeq(url, 5, s), SubstrFrom(url, s))
<1> DEFINE protocol == SubSeq(url, 1, 1)
           host == SubSeq(url, 5, s)
           path == SubSeq(url, s + 1, Len(url))
<1>1. /\ Len(url) \in Nat /\ s \in 5 .. Len(url)
      /\ \A i \in 1 .. Len(url) : url[i] \in Tokens
  BY DEF UrlTypeOK, HostEnds
<1>2. protocol \in Seq(Tokens) /\ Len(protocol) = 1 /\ protocol[1] = url[1]
  BY <1>1, SubSeqProperties
<1>3. /\ host \in Seq(Tokens) /\ Len(host) = s - 4
      /\ \A i \in 1 .. s - 4 : host[i] = url[i + 4]
  BY <1>1, SubSeqProperties
<1>4. /\ path \in Seq(Tokens) /\ Len(path) = Len(url) - s
      /\ \A i \in 1 .. Len(url) - s : path[i] = url[i + s]
  BY <1>1, SubSeqProperties
<1>5. path = SubstrFrom(url, s)
  BY DEF SubstrFrom
<1> HIDE DEF protocol, host, path
<1>6. protocol \in {<<"http">>, <<"https">>}
  BY <1>2 DEF HostEnds
<1>7. host # <<>> /\ ~ Contains(host, "/")
  <2>1. \A i \in 1 .. Len(host) : i + 4 \in 5 .. s /\ host[i] = url[i + 4]
    BY <1>1, <1>3
  <2>2. \A i \in 1 .. Len(host) : host[i] # "/"
    BY <2>1 DEF HostEnds
  <2>3. Len(host) # 0
    BY <1>1, <1>3
  <2>4. host # <<>>
    BY <2>3
  <2>5. ~ Contains(host, "/")
    BY <2>2 DEF Contains
  <2>6. QED
    BY <2>4, <2>5
<1>8. path = <<>> \/ path[1] = "/"
  <2>1. CASE s = Len(url)
    BY <1>1, <1>4, <2>1
  <2>2. CASE s < Len(url)
    <3>1. 1 \in 1 .. Len(url) - s /\ 1 + s = s + 1
      BY <1>1, <2>2
    <3>2. path[1] = url[s + 1]
      BY <1>4, <3>1
    <3>3. QED
      BY <2>2, <3>2 DEF HostEnds
  <2>3. QED
    BY <1>1, <2>1, <2>2
<1>9. Marker \in Seq(Tokens) /\ Len(Marker) = 3
  <2>1. url[2] \in Tokens /\ url[3] \in Tokens /\ url[2] = ":" /\ url[3] = "/"
    BY <1>1 DEF HostEnds
  <2>2. QED
    BY <2>1 DEF Marker
<1>10. protocol \o Marker = SubSeq(url, 1, 4)
  <2> DEFINE front == SubSeq(url, 1, 4)
  <2>1. /\ front \in Seq(Tokens) /\ Len(front) = 4
        /\ \A i \in 1 .. 4 : front[i] = url[i]
    BY <1>1, SubSeqProperties
  <2> HIDE DEF front
  <2>2. \A i \in 1 .. Len(protocol) : protocol[i] = front[i]
    BY <1>2, <2>1
  <2>3. front[2] = Marker[1] /\ front[3] = Marker[2] /\ front[4] = Marker[3]
    BY <2>1 DEF HostEnds, Marker
  <2>4. \A i \in 1 .. Len(Marker) : i = 1 \/ i = 2 \/ i = 3
    BY <1>9
  <2>5. \A i \in 1 .. Len(Marker) : Marker[i] = front[i + Len(protocol)]
    BY <1>2, <2>3, <2>4
  <2>6. Len(front) = Len(protocol) + Len(Marker)
    BY <1>2, <1>9, <2>1
  <2>7. QED
    BY <1>2, <1>9, <2>1, <2>2, <2>5, <2>6, Joined DEF front
<1>11. SubSeq(url, 1, 4) \o host = SubSeq(url, 1, s)
  <2> DEFINE front == SubSeq(url, 1, 4)
             body == SubSeq(url, 1, s)
  <2>1. /\ front \in Seq(Tokens) /\ Len(front) = 4
        /\ \A i \in 1 .. 4 : front[i] = url[i]
    BY <1>1, SubSeqProperties
  <2>2. /\ body \in Seq(Tokens) /\ Len(body) = s
        /\ \A i \in 1 .. s : body[i] = url[i]
    BY <1>1, SubSeqProperties
  <2> HIDE DEF front, body
  <2>3. \A i \in 1 .. Len(front) : front[i] = body[i]
    BY <1>1, <2>1, <2>2
  <2>4. \A i \in 1 .. Len(host) : host[i] = body[i + Len(front)]
    BY <1>1, <1>3, <2>1, <2>2
  <2>5. host \in Seq(Tokens) /\ Len(body) = Len(front) + Len(host)
    BY <1>1, <1>3, <2>1, <2>2
  <2>6. front \o host = body
    BY <2>1, <2>2, <2>3, <2>4, <2>5, Joined
  <2>7. QED
    BY <2>6 DEF front, body
<1>12. SubSeq(url, 1, s) \o path = url
  <2> DEFINE body == SubSeq(url, 1, s)
  <2>1. /\ body \in Seq(Tokens) /\ Len(body) = s
        /\ \A i \in 1 .. s : body[i] = url[i]
    BY <1>1, SubSeqProperties
  <2> HIDE DEF body
  <2>2. \A i \in 1 .. Len(path) : path[i] = url[i + Len(body)]
    BY <1>4, <2>1
  <2>3. QED
    BY <1>1, <1>4, <2>1, <2>2, Joined DEF body, UrlTypeOK
<1>13. url = protocol \o Marker \o host \o path
  BY <1>10, <1>11, <1>12
<1>14. IsUrl(protocol, host, path)
  BY <1>6, <1>7, <1>8, <1>13 DEF IsUrl
<1> QED
  BY <1>5, <1>14 DEF protocol, host

\* A URL of a protocol, a host and a path, given by their positions, has its host
\* where these positions say.
LEMMA PartsMakeHost ==
  ASSUME UrlTypeOK,
         NEW i \in 0 .. Len(url), NEW j \in i .. Len(url), NEW s \in j .. Len(url),
         IsUrl(SubSeq(url, 1, i), SubSeq(url, j + 1, s), SubstrFrom(url, s))
  PROVE  HostEnds(s) /\ i = 1
<1> DEFINE protocol == SubSeq(url, 1, i)
           host == SubSeq(url, j + 1, s)
           path == SubSeq(url, s + 1, Len(url))
<1>1. Len(url) \in Nat /\ \A k \in 1 .. Len(url) : url[k] \in Tokens
  BY DEF UrlTypeOK
<1>2. protocol \in Seq(Tokens) /\ Len(protocol) = i /\ \A k \in 1 .. i : protocol[k] = url[k]
  BY <1>1, SubSeqProperties
<1>3. host \in Seq(Tokens) /\ Len(host) = s - j
  BY <1>1, SubSeqProperties
<1>4. path \in Seq(Tokens) /\ Len(path) = Len(url) - s
  BY <1>1, SubSeqProperties
<1>5. /\ protocol \in {<<"http">>, <<"https">>}
      /\ host # <<>> /\ ~ Contains(host, "/")
      /\ path = <<>> \/ path[1] = "/"
      /\ url = protocol \o Marker \o host \o path
  BY DEF IsUrl, SubstrFrom
<1> HIDE DEF protocol, host, path
<1>6. i = 1 /\ protocol[1] \in {"http", "https"}
  <2>1. \A w : protocol = <<w>> => Len(protocol) = 1 /\ protocol[1] = w
    OBVIOUS
  <2>2. Len(protocol) = 1
    BY <1>5, <2>1
  <2>3. protocol[1] \in {"http", "https"}
    BY <1>5, <2>1
  <2>4. QED
    BY <1>2, <2>2, <2>3
<1> DEFINE W == Tokens \cup {":", "/"}
           front == protocol \o Marker
           body == front \o host
<1>7. /\ Marker \in Seq(W) /\ Len(Marker) = 3
      /\ Marker[1] = ":" /\ Marker[2] = "/" /\ Marker[3] = "/"
  BY DEF Marker
<1>8. protocol \in Seq(W) /\ host \in Seq(W) /\ path \in Seq(W)
  BY <1>2, <1>3, <1>4, SeqMonotonic
<1> HIDE DEF W
<1>9. /\ front \in Seq(W) /\ Len(front) = 4
      /\ front[1] = protocol[1] /\ front[2] = ":" /\ front[3] = "/" /\ front[4] = "/"
  <2>1. /\ front \in Seq(W) /\ Len(front) = Len(protocol) + Len(Marker)
        /\ \A k \in 1 .. Len(protocol) + Len(Marker) :
             front[k] = IF k <= Len(protocol) THEN protocol[k] ELSE Marker[k - Len(protocol)]
    BY <1>7, <1>8, ConcatProperties
  <2> HIDE DEF front
  <2>2. Len(protocol) = 1
    BY <1>2, <1>6
  <2>3. /\ Len(front) = 4
        /\ \A k \in 1 .. 4 : front[k] = IF k <= 1 THEN protocol[k] ELSE Marker[k - 1]
    BY <1>7, <2>1, <2>2
  <2>4. front[1] = protocol[1] /\ front[2] = Marker[1] /\ front[3] = Marker[2] /\ front[4] = Marker[3]
    BY <2>3
  <2>5. QED
    BY <1>7, <2>1, <2>3, <2>4
<1> HIDE DEF front
<1>10. /\ body \in Seq(W) /\ Len(body) = 4 + Len(host)
       /\ \A k \in 1 .. 4 + Len(host) :
            body[k] = IF k <= 4 THEN front[k] ELSE host[k - 4]
  <2>1. /\ body \in Seq(W) /\ Len(body) = Len(front) + Len(host)
        /\ \A k \in 1 .. Len(front) + Len(host) :
             body[k] = IF k <= Len(front) THEN front[k] ELSE host[k - Len(front)]
    BY <1>8, <1>9, ConcatProperties
  <2> HIDE DEF body
  <2>2. QED
    BY <1>9, <2>1
<1>11. url = body \o path
  BY <1>5 DEF front
<1> HIDE DEF body
<1>12. /\ Len(url) = Len(body) + Len(path)
       /\ \A k \in 1 .. Len(body) + Len(path) :
            url[k] = IF k <= Len(body) THEN body[k] ELSE path[k - Len(body)]
  BY <1>8, <1>10, <1>11, ConcatProperties
<1>13. Len(host) \in Nat /\ Len(path) \in Nat /\ Len(host) > 0
  <2>1. Len(host) # 0
    BY <1>3, <1>5
  <2>2. QED
    BY <1>3, <1>4, <2>1
<1>14. s = 4 + Len(host) /\ s \in 5 .. Len(url)
  BY <1>1, <1>4, <1>10, <1>12, <1>13
<1>15. \A k \in 1 .. s : url[k] = IF k <= 4 THEN front[k] ELSE host[k - 4]
  BY <1>1, <1>10, <1>12, <1>13, <1>14
<1>16. url[1] \in {"http", "https"} /\ url[2] = ":" /\ url[3] = "/" /\ url[4] = "/"
  <2>1. 1 \in 1 .. s /\ 2 \in 1 .. s /\ 3 \in 1 .. s /\ 4 \in 1 .. s
    BY <1>1, <1>14
  <2>2. url[1] = front[1] /\ url[2] = front[2] /\ url[3] = front[3] /\ url[4] = front[4]
    BY <1>15, <2>1
  <2>3. QED
    BY <1>6, <1>9, <2>2
<1>17. \A k \in 5 .. s : url[k] # "/"
  <2>1. \A k \in 1 .. Len(host) : host[k] # "/"
    BY <1>5 DEF Contains
  <2>2. \A k \in 5 .. s : k - 4 \in 1 .. Len(host) /\ k \in 1 .. s /\ ~ (k <= 4)
    BY <1>13, <1>14
  <2>3. QED
    BY <1>15, <2>1, <2>2
<1>18. s < Len(url) => url[s + 1] = "/"
  <2>1. SUFFICES ASSUME s < Len(url) PROVE url[s + 1] = "/"
    OBVIOUS
  <2>2. Len(path) # 0 /\ Len(body) = s
    BY <1>4, <1>10, <1>14, <2>1
  <2>3. path[1] = "/"
    BY <1>5, <2>2
  <2>4. s + 1 \in 1 .. Len(body) + Len(path) /\ ~ (s + 1 <= Len(body)) /\ (s + 1) - Len(body) = 1
    BY <1>1, <1>12, <1>14, <2>1, <2>2
  <2>5. QED
    BY <1>12, <2>3, <2>4
<1> QED
  BY <1>1, <1>6, <1>14, <1>16, <1>17, <1>18 DEF HostEnds

\* Where a host ends, the tests of isUrlCorrect on the positions succeed.
LEMMA HostPasses ==
  ASSUME UrlTypeOK, NEW s, HostEnds(s)
  PROVE  /\ Len(url) # 0 /\ HasValidProtocol
         /\ (IF SlashIndex > 0 THEN SlashIndex ELSE Len(url)) - HostIndex > 0
<1>1. Len(url) \in Nat /\ s \in 5 .. Len(url) /\ url[1] \in {"http", "https"}
  BY DEF HostEnds, UrlTypeOK
<1>2. GetProtocolIndex = 1 /\ HostIndex = 4 /\ SlashIndex = IF s < Len(url) THEN s ELSE npos
  BY Positions
<1>3. HasValidProtocol
  <2>1. 1 \in 1 .. Len(url)
    BY <1>1
  <2>2. IsProtocolValid(SubSeq(url, 1, 1))
    BY <1>1, <2>1, Protocols
  <2>3. Substr(url, 0, GetProtocolIndex) = SubSeq(url, 1, 1)
    BY <1>2 DEF Substr
  <2>4. GetProtocolIndex >= 0
    BY <1>2
  <2>5. QED
    BY <2>2, <2>3, <2>4 DEF HasValidProtocol
<1>4. (IF SlashIndex > 0 THEN SlashIndex ELSE Len(url)) - HostIndex > 0
  BY <1>1, <1>2 DEF npos
<1>5. Len(url) # 0
  BY <1>1
<1> QED
  BY <1>3, <1>4, <1>5

\* isUrlCorrect accepts a URL whose host ends somewhere, if it has no space.
LEMMA HostMakesCorrect ==
  ASSUME UrlTypeOK, NEW s, HostEnds(s)
  PROVE  ~ Contains(url, " ") => IsUrlCorrect
BY HostPasses, Zenon DEF IsUrlCorrect

\* A URL of a protocol, a host and a path passes them.
LEMMA PartsMakeCorrect ==
  ASSUME UrlTypeOK,
         \E i, j, k \in 0 .. Len(url) :
           /\ i <= j /\ j <= k
           /\ IsUrl(SubSeq(url, 1, i), SubSeq(url, j + 1, k), SubstrFrom(url, k))
  PROVE  ~ Contains(url, " ") => IsUrlCorrect
<1>1. Len(url) \in Nat
  BY DEF UrlTypeOK
<1>2. PICK i \in 0 .. Len(url), j \in 0 .. Len(url), k \in 0 .. Len(url) :
        /\ i <= j /\ j <= k
        /\ IsUrl(SubSeq(url, 1, i), SubSeq(url, j + 1, k), SubstrFrom(url, k))
  OBVIOUS
<1>3. j \in i .. Len(url) /\ k \in j .. Len(url)
  BY <1>1, <1>2
<1>4. HostEnds(k)
  BY <1>2, <1>3, PartsMakeHost
<1> QED
  BY <1>4, HostMakesCorrect

\* isUrlCorrect accepts exactly the well-formed URLs, and isValid all of them.
LEMMA AcceptsWellFormed ==
  ASSUME UrlTypeOK
  PROVE  UrlAccepted
<1>1. Len(url) \in Nat
  BY DEF UrlTypeOK
<1>2. ASSUME IsUrlCorrect
      PROVE  /\ ~ Contains(url, " ")
             /\ \E i, j, k \in 0 .. Len(url) :
                  /\ i <= j /\ j <= k
                  /\ IsUrl(SubSeq(url, 1, i), SubSeq(url, j + 1, k), SubstrFrom(url, k))
             /\ IsValid
  <2>1. PICK s : HostEnds(s)
    BY <1>2, CorrectHasHost
  <2>2. s \in 5 .. Len(url) /\ url[1] \in {"http", "https"}
    BY <2>1 DEF HostEnds
  <2>3. IsUrl(SubSeq(url, 1, 1), SubSeq(url, 4 + 1, s), SubstrFrom(url, s))
    BY <2>1, HostMakesParts
  <2>4. 1 \in 0 .. Len(url) /\ 4 \in 0 .. Len(url) /\ s \in 0 .. Len(url) /\ 4 <= s
    BY <1>1, <2>2
  <2>5. \E i, j, k \in 0 .. Len(url) :
          /\ i <= j /\ j <= k
          /\ IsUrl(SubSeq(url, 1, i), SubSeq(url, j + 1, k), SubstrFrom(url, k))
    BY <2>3, <2>4
  <2>6. IsValid
    <3>1. GetProtocolIndex = 1 /\ GetProtocolIndex # npos
      BY <2>1, Positions DEF npos
    <3>2. GetProtocolFromUrl = SubSeq(url, 1, 1)
      BY <3>1 DEF GetProtocolFromUrl, Substr
    <3>3. IsProtocolValid(SubSeq(url, 1, 1)) /\ SubSeq(url, 1, 1) # Refused
      BY <2>2, <2>4, Protocols
    <3>4. QED
      BY <3>2, <3>3 DEF IsValid
  <2>7. QED
    BY <1>2, <2>5, <2>6, Tests
<1> QED
  BY <1>2, PartsMakeCorrect, Zenon DEF UrlAccepted

\* getProtocolFromUrl, getHostFromUrl and trimHostFromUrl give the parts of a
\* correct URL, and refuse the others.
LEMMA GivesParts ==
  ASSUME UrlTypeOK
  PROVE  UrlTakenApart
<1>1. CASE ~ IsUrlCorrect
  <2>1. GetHostFromUrl = Refused /\ TrimHostFromUrl = Refused
    BY <1>1 DEF GetHostFromUrl, TrimHostFromUrl
  <2>2. QED
    BY <1>1, <2>1 DEF UrlTakenApart
<1>2. CASE IsUrlCorrect
  <2>1. PICK s : HostEnds(s)
    BY <1>2, CorrectHasHost
  <2>2. Len(url) \in Nat /\ s \in 5 .. Len(url)
    BY <2>1 DEF HostEnds
  <2>3. /\ GetProtocolIndex = 1 /\ HostIndex = 4
        /\ SlashIndex = IF s < Len(url) THEN s ELSE npos
    BY <2>1, Positions
  <2>4. GetProtocolFromUrl = SubSeq(url, 1, 1)
    BY <2>3 DEF GetProtocolFromUrl, Substr, npos
  <2>5. GetHostFromUrl = SubSeq(url, 5, s)
    <3>1. CASE s < Len(url)
      <4>1. SlashIndex = s /\ s >= 0 /\ HostIndex + (SlashIndex - HostIndex) = s /\ HostIndex + 1 = 5
        BY <2>2, <2>3, <3>1
      <4>2. GetHostFromUrl = Substr(url, HostIndex, SlashIndex - HostIndex)
        BY <1>2, <4>1 DEF GetHostFromUrl
      <4>3. QED
        BY <4>1, <4>2 DEF Substr
    <3>2. CASE s = Len(url)
      <4>1. ~ (SlashIndex >= 0) /\ HostIndex + 1 = 5
        BY <2>2, <2>3, <3>2 DEF npos
      <4>2. GetHostFromUrl = SubstrFrom(url, HostIndex)
        BY <1>2, <4>1 DEF GetHostFromUrl
      <4>3. QED
        BY <3>2, <4>1, <4>2 DEF SubstrFrom
    <3>3. QED
      BY <2>2, <3>1, <3>2
  <2>6. IsUrl(GetProtocolFromUrl, GetHostFromUrl, SubstrFrom(url, s))
    BY <2>1, <2>4, <2>5, HostMakesParts
  <2>7. CASE s < Len(url)
    <3>1. SlashIndex = s /\ s # npos
      BY <2>2, <2>3, <2>7 DEF npos
    <3>2. TrimHostFromUrl = SubstrFrom(url, s)
      BY <1>2, <3>1 DEF TrimHostFromUrl
    <3>3. QED
      BY <1>2, <2>6, <3>2 DEF UrlTakenApart
  <2>8. CASE s = Len(url)
    <3>1. SlashIndex = npos
      BY <2>2, <2>3, <2>8
    <3>2. TrimHostFromUrl = <<"/">>
      BY <1>2, <3>1 DEF TrimHostFromUrl
    <3>3. SubstrFrom(url, s) = <<>>
      BY <2>2, <2>8, SubSeqEmpty DEF SubstrFrom
    <3>4. QED
      BY <1>2, <2>6, <3>2, <3>3 DEF UrlTakenApart
  <2>9. QED
    BY <2>2, <2>7, <2>8
<1> QED
  BY <1>1, <1>2

\* isUrlCorrect accepts exactly the URLs that read protocol://host or
\* protocol://host/path without spaces, whatever their length and tokens.
THEOREM AcceptsCorrect == UrlSpec => []UrlAccepted
<1>1. UrlTypeOK => UrlAccepted
  BY AcceptsWellFormed
<1>2. QED
  BY <1>1, UrlTypes, PTL

\* The functions on URLs take each correct URL apart and lose nothing of it.
THEOREM TakenApartCorrect == UrlSpec => []UrlTakenApart
<1>1. UrlTypeOK => UrlTakenApart
  BY GivesParts
<1>2. QED
  BY <1>1, UrlTypes, PTL

(***************************************************************************)
(* DirListing                                                              *)
(***************************************************************************)

\* The positions of the names that filesList lists among the first "last" entries.
ListedUpTo(last) == {i \in 1 .. last : Listed(i)}

\* Those of the names that the first loop of dataFilesList keeps, and those of the
\* names that the second one erases.
Dotted == {i \in DOMAIN directory : Listed(i) /\ directory[i].name.extension # NoDot}
Data == {i \in DOMAIN directory : Listed(i) /\ directory[i].name.extension = ".d"}

EntryNames == [i \in DOMAIN directory |-> directory[i].name]
CallersNames == [i \in DOMAIN directory |-> CallersName(i)]

\* The sequence s shows the names that "names" gives to the positions P, once
\* each and in their order; f is the position of each element.
Matches(f, s, P, names) ==
  /\ f \in [DOMAIN s -> P]
  /\ Increasing(f)
  /\ \A i \in P : \E k \in DOMAIN s : f[k] = i
  /\ \A k \in DOMAIN s : s[k] = names[f[k]]

Shows(s, P, names) == \E f \in [DOMAIN s -> P] : Matches(f, s, P, names)

\* What the loops have achieved: filesList and countFiles have treated the entries
\* before the iterator; the first loop of dataFilesList has erased names without a
\* dot only, and left none before the iterator; the second one has erased the data
\* files from the front, and answered those of them that have a digest file.
ListingInvariant ==
  /\ pc # "aborted"
  /\ pc = "idle" => it = 1 /\ list = <<>> /\ files = <<>> /\ count = 0
  /\ pc = "reading" =>
       /\ mode # "MD5_BACKUP" /\ files = <<>> /\ count = 0
       /\ it <= Len(directory) + 1
       /\ Shows(list, ListedUpTo(it - 1), EntryNames)
  /\ pc = "counting" =>
       /\ mode = "NORMAL"
       /\ it <= Len(directory) + 1
       /\ count \in 0 .. Len(files)
       /\ \E f \in [DOMAIN files -> Wanted] :
            /\ Matches(f, files, Wanted, CallersNames)
            /\ \A k \in DOMAIN files : f[k] < it <=> k <= count
  /\ pc = "keeping" =>
       /\ mode = "MD5" /\ files = <<>>
       /\ it <= Len(list) + 1
       /\ \A k \in 1 .. it - 1 : list[k].extension # NoDot
       /\ \E P \in SUBSET ListedUpTo(Len(directory)) :
            Dotted \subseteq P /\ Shows(list, P, EntryNames)
  /\ pc = "collecting" =>
       /\ mode = "MD5"
       /\ it <= Len(list) + 1
       /\ \A k \in 1 .. it - 1 : list[k].extension # ".d"
       /\ \E P \in SUBSET Dotted :
            /\ Dotted \ Data \subseteq P /\ Shows(list, P, EntryNames)
            /\ Shows(files, Wanted \ P, CallersNames)
            /\ \A d \in Data \ P, i \in Data \cap P : d < i
  /\ pc = "done" =>
       /\ count = Len(files)
       /\ mode # "MD5_BACKUP" => Shows(files, Wanted, CallersNames)

ListingTypeOK ==
  /\ directory \in Seq(Entries)
  /\ mode \in {"NORMAL", "MD5", "MD5_BACKUP"} /\ driver \in {"IDF", "ARDUINO"}
  /\ pc \in {"idle", "reading", "counting", "keeping", "collecting", "done", "aborted"}
  /\ it \in Nat \ {0}
  /\ list \in Seq(Names) /\ files \in Seq(Names)
  /\ count \in Nat

IListing == ListingTypeOK /\ ListingInvariant

\* std::vector::erase: what stands after the erased element moves down by one.
LEMMA Erased ==
  ASSUME NEW S, NEW s \in Seq(S), NEW k \in 1 .. Len(s)
  PROVE  /\ RemoveAt(s, k) \in Seq(S)
         /\ Len(RemoveAt(s, k)) = Len(s) - 1
         /\ \A l \in 1 .. Len(s) - 1 :
              RemoveAt(s, k)[l] = IF l < k THEN s[l] ELSE s[l + 1]
<1> DEFINE a == SubSeq(s, 1, k - 1)
           b == SubSeq(s, k + 1, Len(s))
           r == a \o b
<1>1. Len(s) \in Nat /\ \A l \in 1 .. Len(s) : s[l] \in S
  OBVIOUS
<1>2. a \in Seq(S) /\ Len(a) = k - 1 /\ \A l \in 1 .. k - 1 : a[l] = s[l]
  BY <1>1, SubSeqProperties
<1>3. b \in Seq(S) /\ Len(b) = Len(s) - k /\ \A l \in 1 .. Len(s) - k : b[l] = s[k + l]
  BY <1>1, SubSeqProperties
<1> HIDE DEF a, b
<1>4. /\ r \in Seq(S) /\ Len(r) = Len(a) + Len(b)
      /\ \A l \in 1 .. Len(a) + Len(b) :
           r[l] = IF l <= Len(a) THEN a[l] ELSE b[l - Len(a)]
  BY <1>2, <1>3, ConcatProperties
<1>5. RemoveAt(s, k) = r
  BY DEF RemoveAt, a, b
<1> HIDE DEF r
<1>6. Len(r) = Len(s) - 1
  BY <1>1, <1>2, <1>3, <1>4
<1>7. ASSUME NEW l \in 1 .. Len(s) - 1
      PROVE  r[l] = IF l < k THEN s[l] ELSE s[l + 1]
  <2>1. CASE l < k
    <3>1. l \in 1 .. k - 1 /\ l \in 1 .. Len(a) + Len(b) /\ l <= Len(a)
      BY <1>1, <1>2, <1>3, <2>1
    <3>2. r[l] = a[l]
      BY <1>4, <3>1
    <3>3. QED
      BY <1>2, <2>1, <3>1, <3>2
  <2>2. CASE ~ (l < k)
    <3>1. /\ l - (k - 1) \in 1 .. Len(s) - k /\ k + (l - (k - 1)) = l + 1
          /\ l \in 1 .. Len(a) + Len(b) /\ ~ (l <= k - 1)
      BY <1>1, <1>2, <1>3, <2>2
    <3>2. r[l] = b[l - (k - 1)]
      BY <1>2, <1>4, <3>1
    <3>3. QED
      BY <1>3, <2>2, <3>1, <3>2
  <2>3. QED
    BY <2>1, <2>2
<1> QED
  BY <1>4, <1>5, <1>6, <1>7

\* An empty list shows nothing.
LEMMA NothingShown ==
  ASSUME NEW names
  PROVE  Shows(<<>>, {}, names)
<1> DEFINE f == [k \in {} |-> k]
<1>1. DOMAIN <<>> = {}
  OBVIOUS
<1>2. f \in [DOMAIN <<>> -> {}]
  BY <1>1
<1>3. DOMAIN f = {}
  OBVIOUS
<1>4. Matches(f, <<>>, {}, names)
  BY <1>1, <1>2, <1>3 DEF Matches, Increasing
<1> QED
  BY <1>2, <1>4 DEF Shows

\* push_back of the name of a later position.
LEMMA OneMoreShown ==
  ASSUME NEW S, NEW s \in Seq(S), NEW P \in SUBSET Nat, NEW names, Shows(s, P, names),
         NEW i \in Nat, \A p \in P : p < i,
         NEW n \in S, n = names[i]
  PROVE  Shows(Append(s, n), P \cup {i}, names)
<1> DEFINE t == Append(s, n)
           last == Len(s) + 1
<1>1. PICK f \in [DOMAIN s -> P] : Matches(f, s, P, names)
  BY DEF Shows
<1>2. /\ Len(s) \in Nat /\ DOMAIN s = 1 .. Len(s)
      /\ t \in Seq(S) /\ Len(t) = last /\ DOMAIN t = 1 .. last
      /\ \A k \in 1 .. Len(s) : t[k] = s[k]
      /\ t[last] = n
  BY AppendProperties
<1> HIDE DEF t
<1> DEFINE g == [k \in DOMAIN t |-> IF k = last THEN i ELSE f[k]]
<1>3. /\ \A k, l \in 1 .. Len(s) : k < l => f[k] < f[l]
      /\ \A p \in P : \E k \in 1 .. Len(s) : f[k] = p
      /\ \A k \in 1 .. Len(s) : f[k] \in P /\ s[k] = names[f[k]]
  BY <1>1, <1>2 DEF Matches, Increasing
<1>4. /\ DOMAIN g = 1 .. last /\ last \in 1 .. last /\ g[last] = i
      /\ \A k \in 1 .. Len(s) : k \in 1 .. last /\ k # last /\ g[k] = f[k]
      /\ \A k \in 1 .. last : k \in 1 .. Len(s) \/ k = last
  BY <1>2
<1>5. g \in [DOMAIN t -> P \cup {i}]
  BY <1>2, <1>3
<1> HIDE DEF g
<1>6. \A k, l \in 1 .. last : k < l => g[k] < g[l]
  <2>1. SUFFICES ASSUME NEW k \in 1 .. last, NEW l \in 1 .. last, k < l
                 PROVE  g[k] < g[l]
    OBVIOUS
  <2>2. k \in 1 .. Len(s)
    BY <1>2, <1>4, <2>1
  <2>3. CASE l \in 1 .. Len(s)
    BY <1>3, <1>4, <2>1, <2>2, <2>3
  <2>4. CASE l = last
    BY <1>3, <1>4, <2>2, <2>4
  <2>5. QED
    BY <1>4, <2>3, <2>4
<1>7. ASSUME NEW p \in P \cup {i} PROVE \E k \in DOMAIN t : g[k] = p
  BY <1>2, <1>3, <1>4
<1>8. \A k \in DOMAIN t : t[k] = names[g[k]]
  BY <1>2, <1>3, <1>4
<1>9. Matches(g, t, P \cup {i}, names)
  BY <1>4, <1>5, <1>6, <1>7, <1>8 DEF Matches, Increasing
<1> QED
  BY <1>5, <1>9 DEF Shows, t

\* The erasure of an element hides its position and no other.
LEMMA OneLessShown ==
  ASSUME NEW S, NEW s \in Seq(S), NEW P \in SUBSET Nat, NEW names,
         NEW f \in [DOMAIN s -> P], Matches(f, s, P, names),
         NEW k \in 1 .. Len(s)
  PROVE  Shows(RemoveAt(s, k), P \ {f[k]}, names)
<1> DEFINE t == RemoveAt(s, k)
           up(l) == IF l < k THEN l ELSE l + 1
<1>1. /\ t \in Seq(S) /\ Len(t) = Len(s) - 1
      /\ \A l \in 1 .. Len(s) - 1 : t[l] = IF l < k THEN s[l] ELSE s[l + 1]
  BY Erased
<1> HIDE DEF t
<1>2. Len(s) \in Nat /\ DOMAIN s = 1 .. Len(s) /\ DOMAIN t = 1 .. Len(s) - 1
  BY <1>1
<1>3. /\ \A l \in 1 .. Len(s) - 1 : up(l) \in 1 .. Len(s) /\ up(l) # k /\ t[l] = s[up(l)]
      /\ \A l, m \in 1 .. Len(s) - 1 : l < m => up(l) < up(m)
      /\ \A m \in 1 .. Len(s) : m # k => \E l \in 1 .. Len(s) - 1 : up(l) = m
  <2>1. \A l \in 1 .. Len(s) - 1 : up(l) \in 1 .. Len(s) /\ up(l) # k
    BY <1>2
  <2>2. \A l \in 1 .. Len(s) - 1 : t[l] = s[up(l)]
    BY <1>1
  <2>3. \A l, m \in 1 .. Len(s) - 1 : l < m => up(l) < up(m)
    BY <1>2
  <2>4. ASSUME NEW m \in 1 .. Len(s), m # k
        PROVE  \E l \in 1 .. Len(s) - 1 : up(l) = m
    <3>1. CASE m < k
      <4>1. m \in 1 .. Len(s) - 1 /\ up(m) = m
        BY <1>2, <3>1
      <4>2. QED
        BY <4>1
    <3>2. CASE m > k
      <4>1. m - 1 \in 1 .. Len(s) - 1 /\ up(m - 1) = m
        BY <1>2, <3>2
      <4>2. QED
        BY <4>1
    <3>3. QED
      BY <2>4, <3>1, <3>2
  <2>5. QED
    BY <2>1, <2>2, <2>3, <2>4
<1> HIDE DEF up
<1> DEFINE g == [l \in DOMAIN t |-> f[up(l)]]
<1>4. /\ \A l, m \in 1 .. Len(s) : l < m => f[l] < f[m]
      /\ \A p \in P : \E l \in 1 .. Len(s) : f[l] = p
      /\ \A l \in 1 .. Len(s) : f[l] \in P /\ f[l] \in Nat /\ s[l] = names[f[l]]
  BY <1>2 DEF Matches, Increasing
<1>5. \A l \in 1 .. Len(s) : l # k => f[l] # f[k]
  <2>1. SUFFICES ASSUME NEW l \in 1 .. Len(s), l # k PROVE f[l] # f[k]
    OBVIOUS
  <2>2. (l < k \/ k < l) /\ f[l] \in Nat /\ f[k] \in Nat
    BY <1>2, <1>4, <2>1
  <2>3. f[l] < f[k] \/ f[k] < f[l]
    BY <1>4, <2>2
  <2>4. QED
    BY <2>2, <2>3
<1>6. DOMAIN g = 1 .. Len(s) - 1 /\ \A l \in 1 .. Len(s) - 1 : g[l] = f[up(l)]
  BY <1>2
<1>7. g \in [DOMAIN t -> P \ {f[k]}]
  <2>1. \A l \in DOMAIN t : f[up(l)] \in P \ {f[k]}
    BY <1>2, <1>3, <1>4, <1>5
  <2>2. QED
    BY <2>1
<1> HIDE DEF g
<1>8. \A l, m \in DOMAIN g : l < m => g[l] < g[m]
  <2>1. SUFFICES ASSUME NEW l \in 1 .. Len(s) - 1, NEW m \in 1 .. Len(s) - 1, l < m
                 PROVE  g[l] < g[m]
    BY <1>6
  <2>2. up(l) \in 1 .. Len(s) /\ up(m) \in 1 .. Len(s) /\ up(l) < up(m)
    BY <1>3, <2>1
  <2>3. f[up(l)] < f[up(m)]
    BY <1>4, <2>2
  <2>4. QED
    BY <1>6, <2>3
<1>9. ASSUME NEW p \in P \ {f[k]} PROVE \E l \in DOMAIN t : g[l] = p
  <2>1. PICK m \in 1 .. Len(s) : f[m] = p
    BY <1>4
  <2>2. m # k
    BY <2>1
  <2>3. PICK l \in 1 .. Len(s) - 1 : up(l) = m
    BY <1>3, <2>2
  <2>4. QED
    BY <1>2, <1>6, <2>1, <2>3
<1>10. \A l \in DOMAIN t : t[l] = names[g[l]]
  <2>1. SUFFICES ASSUME NEW l \in 1 .. Len(s) - 1 PROVE t[l] = names[g[l]]
    BY <1>2
  <2>2. up(l) \in 1 .. Len(s) /\ t[l] = s[up(l)]
    BY <1>3
  <2>3. s[up(l)] = names[f[up(l)]]
    BY <1>4, <2>2
  <2>4. QED
    BY <1>6, <2>2, <2>3
<1>11. Matches(g, t, P \ {f[k]}, names)
  BY <1>7, <1>8, <1>9, <1>10 DEF Matches, Increasing
<1> QED
  BY <1>7, <1>11 DEF Shows, t

-----------------------------------------------------------------------------
(* The loops treat the directory that they were called for.                *)

LEMMA SameDirectory ==
  ASSUME UNCHANGED <<directory, mode, driver>>
  PROVE  /\ Wanted' = Wanted /\ Dotted' = Dotted /\ Data' = Data
         /\ EntryNames' = EntryNames /\ CallersNames' = CallersNames
         /\ \A last : ListedUpTo(last)' = ListedUpTo(last)
  BY DEF Wanted, Dotted, Data, EntryNames, CallersNames, CallersName, ListedUpTo,
         Listed, ListsEntry

\* Positions are natural numbers, and data files have a dot in their names.
LEMMA PositionSets ==
  ASSUME ListingTypeOK
  PROVE  /\ DOMAIN directory = 1 .. Len(directory) /\ Len(directory) \in Nat
         /\ \A last \in Nat : ListedUpTo(last) \in SUBSET (1 .. last)
         /\ Dotted \subseteq ListedUpTo(Len(directory))
         /\ Data \subseteq Dotted
         /\ ListedUpTo(Len(directory)) \subseteq DOMAIN directory
         /\ mode = "NORMAL" =>
              Wanted = ListedUpTo(Len(directory)) /\ CallersNames = EntryNames
         /\ mode = "MD5" => Wanted \subseteq Data
<1>1. DOMAIN directory = 1 .. Len(directory) /\ Len(directory) \in Nat
  BY DEF ListingTypeOK
<1>2. Data \subseteq Dotted
  BY ListingAssumption DEF Data, Dotted
<1>3. mode = "NORMAL" => CallersNames = EntryNames
  BY DEF CallersNames, EntryNames, CallersName
<1>4. mode = "NORMAL" => Wanted = ListedUpTo(Len(directory))
  BY <1>1 DEF Wanted, ListedUpTo
<1>5. mode = "MD5" => Wanted \subseteq Data
  BY DEF Wanted, Data
<1> QED
  BY <1>1, <1>2, <1>3, <1>4, <1>5 DEF ListedUpTo, Dotted

\* One entry more that the loops over the directory have treated.
LEMMA NextEntry ==
  ASSUME ListingTypeOK, it <= Len(directory)
  PROVE  /\ it \in DOMAIN directory /\ directory[it] \in Entries
         /\ ListsEntry(directory[it]) =>
              ListedUpTo(it) = ListedUpTo(it - 1) \cup {it}
         /\ ~ ListsEntry(directory[it]) => ListedUpTo(it) = ListedUpTo(it - 1)
<1>1. it \in Nat /\ it >= 1 /\ it \in 1 .. Len(directory) /\ DOMAIN directory = 1 .. Len(directory)
  BY DEF ListingTypeOK
<1>2. directory[it] \in Entries
  BY <1>1 DEF ListingTypeOK
<1>3. \A i : i \in 1 .. it <=> i \in 1 .. it - 1 \/ i = it
  BY <1>1
<1>4. Listed(it) <=> ListsEntry(directory[it])
  BY <1>1 DEF Listed
<1> QED
  BY <1>1, <1>2, <1>3, <1>4 DEF ListedUpTo

-----------------------------------------------------------------------------
(* The invariant.                                                          *)

LEMMA ListingTypes == ListingTypeOK /\ [ListingNext]_listingVars => ListingTypeOK'
<1> SUFFICES ASSUME ListingTypeOK, [ListingNext]_listingVars PROVE ListingTypeOK'
  OBVIOUS
<1> USE DEF ListingTypeOK
<1>1. CASE AddEntry
  BY <1>1 DEF AddEntry, listing
<1>2. CASE Call
  BY <1>2 DEF Call
<1>3. CASE Read
  <2>1. it \in 1 .. Len(directory)
    BY <1>3 DEF Read
  <2>2. directory[it] \in Entries
    BY <2>1
  <2>3. directory[it].name \in Names
    BY <2>2 DEF Entries
  <2>4. list' \in Seq(Names)
    BY <1>3, <2>3 DEF Read
  <2>5. QED
    BY <1>3, <2>4 DEF Read
<1>4. CASE ReadEnds
  BY <1>4 DEF ReadEnds
<1>5. CASE CountNext
  BY <1>5 DEF CountNext
<1>6. CASE CountEnds
  BY <1>6 DEF CountEnds
<1>7. CASE Keep
  <2>1. it \in 1 .. Len(list)
    BY <1>7 DEF Keep
  <2>2. RemoveAt(list, it) \in Seq(Names)
    BY <2>1, Erased
  <2>3. QED
    BY <1>7, <2>2 DEF Keep
<1>8. CASE KeepEnds
  BY <1>8 DEF KeepEnds
<1>9. CASE Collect
  <2>1. it \in 1 .. Len(list)
    BY <1>9 DEF Collect
  <2>2. RemoveAt(list, it) \in Seq(Names)
    BY <2>1, Erased
  <2>3. FileName(list[it]) \in Names
    <3>1. list[it] \in Names
      BY <2>1
    <3>2. \A n \in Names : FileName(n) \in Names
      BY DEF FileName, Names
    <3>3. QED
      BY <3>1, <3>2
  <2>4. files' \in Seq(Names)
    <3>1. files \in Seq(Names)
      OBVIOUS
    <3>2. files' = files \/ files' = Append(files, FileName(list[it]))
      BY <1>9 DEF Collect
    <3> HIDE DEF ListingTypeOK
    <3>3. QED
      BY <2>3, <3>1, <3>2, AppendProperties
  <2>5. list' \in Seq(Names)
    BY <1>9, <2>2 DEF Collect
  <2>6. pc' \in {"collecting", "aborted"} /\ it' \in Nat \ {0}
    BY <1>9 DEF Collect
  <2>7. QED
    BY <1>9, <2>4, <2>5, <2>6 DEF Collect
<1>10. CASE CollectEnds
  BY <1>10 DEF CollectEnds
<1>11. CASE UNCHANGED listingVars
  BY <1>11 DEF listingVars, listing
<1> QED
  BY <1>1, <1>2, <1>3, <1>4, <1>5, <1>6, <1>7, <1>8, <1>9, <1>10, <1>11 DEF ListingNext

\* Each lemma is about one action.
LEMMA ReadKeeps ==
  ASSUME IListing, Read
  PROVE  ListingInvariant'
<1>1. /\ pc = "reading" /\ pc' = "reading" /\ it <= Len(directory) /\ it' = it + 1
      /\ UNCHANGED <<directory, mode, driver, files, count>>
      /\ list' = IF ListsEntry(directory[it]) THEN Append(list, directory[it].name) ELSE list
  BY DEF Read
<1>2. /\ mode # "MD5_BACKUP" /\ files = <<>> /\ count = 0
      /\ Shows(list, ListedUpTo(it - 1), EntryNames)
  BY <1>1 DEF IListing, ListingInvariant
<1>3. /\ it \in Nat \ {0} /\ list \in Seq(Names) /\ Len(directory) \in Nat
      /\ it \in DOMAIN directory /\ directory[it] \in Entries
      /\ ListedUpTo(it - 1) \in SUBSET (1 .. it - 1)
  BY <1>1, NextEntry, PositionSets DEF IListing, ListingTypeOK
<1>4. Shows(list', ListedUpTo(it), EntryNames)
  <2>1. CASE ListsEntry(directory[it])
    <3>1. directory[it].name \in Names /\ directory[it].name = EntryNames[it]
      BY <1>3 DEF Entries, EntryNames
    <3>2. ListedUpTo(it - 1) \in SUBSET Nat /\ \A p \in ListedUpTo(it - 1) : p < it
      BY <1>3
    <3>3. Shows(Append(list, directory[it].name), ListedUpTo(it - 1) \cup {it}, EntryNames)
      BY <1>2, <1>3, <3>1, <3>2, OneMoreShown
    <3>4. QED
      BY <1>1, <2>1, <3>3, NextEntry DEF IListing
  <2>2. CASE ~ ListsEntry(directory[it])
    BY <1>1, <1>2, <2>2, NextEntry DEF IListing
  <2>3. QED
    BY <2>1, <2>2
<1>5. it' - 1 = it /\ it' <= Len(directory) + 1
  BY <1>1, <1>3
<1>6. ListedUpTo(it - 1)' = ListedUpTo(it) /\ EntryNames' = EntryNames
  <2>1. ListedUpTo(it - 1)' = ListedUpTo(it)
    BY <1>1, <1>5 DEF ListedUpTo, Listed, ListsEntry
  <2>2. QED
    BY <1>1, <2>1, SameDirectory
<1>7. Shows(list', ListedUpTo(it - 1)', EntryNames')
  BY <1>4, <1>6
<1> QED
  BY <1>1, <1>2, <1>5, <1>7 DEF ListingInvariant

LEMMA ReadEndsKeeps ==
  ASSUME IListing, ReadEnds
  PROVE  ListingInvariant'
<1>1. /\ pc = "reading" /\ it > Len(directory) /\ it' = 1
      /\ UNCHANGED <<directory, mode, driver, list, count>>
      /\ \/ mode = "NORMAL" /\ files' = list /\ pc' = "counting"
         \/ mode = "MD5" /\ files' = files /\ pc' = "keeping"
  BY DEF ReadEnds
<1>2. /\ it <= Len(directory) + 1 /\ files = <<>> /\ count = 0
      /\ Shows(list, ListedUpTo(it - 1), EntryNames)
  BY <1>1 DEF IListing, ListingInvariant
<1>3. it \in Nat /\ list \in Seq(Names) /\ Len(directory) \in Nat
  BY PositionSets DEF IListing, ListingTypeOK
<1>4. it - 1 = Len(directory)
  BY <1>1, <1>2, <1>3
<1>5. Shows(list, ListedUpTo(Len(directory)), EntryNames)
  BY <1>2, <1>4
<1>6. CASE mode = "NORMAL"
  <2>1. Shows(files', Wanted', CallersNames')
    BY <1>1, <1>5, <1>6, PositionSets, SameDirectory DEF IListing
  <2>2. PICK f \in [DOMAIN files' -> Wanted'] : Matches(f, files', Wanted', CallersNames')
    BY <2>1 DEF Shows
  <2>3. Wanted' \subseteq 1 .. Len(directory)
    BY <1>1, <1>3, <1>6, SameDirectory, PositionSets DEF IListing
  <2>4. DOMAIN files' = 1 .. Len(files') /\ Len(files') \in Nat
    BY <1>1, <1>3, <1>6
  <2>5. ASSUME NEW k \in DOMAIN files' PROVE f[k] < it' <=> k <= count'
    <3>1. f[k] \in 1 .. Len(directory) /\ k \in 1 .. Len(files')
      BY <2>3, <2>4
    <3>2. it' = 1 /\ count' = 0
      BY <1>1, <1>2
    <3>3. QED
      BY <1>3, <2>4, <3>1, <3>2
  <2>6. count' \in 0 .. Len(files') /\ it' <= Len(directory') + 1
    BY <1>1, <1>2, <1>3, <2>4
  <2>7. QED
    BY <1>1, <1>6, <2>2, <2>5, <2>6 DEF ListingInvariant
<1>7. CASE mode = "MD5"
  <2>1. Dotted' \subseteq ListedUpTo(Len(directory))
    BY <1>1, SameDirectory, PositionSets DEF IListing
  <2>2. Shows(list', ListedUpTo(Len(directory)), EntryNames')
    BY <1>1, <1>5, SameDirectory
  <2>3. ListedUpTo(Len(directory))' = ListedUpTo(Len(directory))
    BY <1>1 DEF ListedUpTo, Listed, ListsEntry
  <2>4. \E P \in SUBSET ListedUpTo(Len(directory))' :
          Dotted' \subseteq P /\ Shows(list', P, EntryNames')
    BY <2>1, <2>2, <2>3
  <2>5. it' <= Len(list') + 1 /\ \A k \in 1 .. it' - 1 : list'[k].extension # NoDot
    BY <1>1, <1>3
  <2>6. QED
    BY <1>1, <1>2, <1>7, <2>4, <2>5 DEF ListingInvariant
<1> QED
  BY <1>1, <1>6, <1>7

LEMMA CountNextKeeps ==
  ASSUME IListing, CountNext
  PROVE  ListingInvariant'
<1>1. /\ pc = "counting" /\ pc' = "counting" /\ it <= Len(directory) /\ it' = it + 1
      /\ UNCHANGED <<directory, mode, driver, list, files>>
      /\ count' = IF CountsEntry(directory[it]) THEN count + 1 ELSE count
  BY DEF CountNext
<1>2. /\ mode = "NORMAL" /\ count \in 0 .. Len(files)
      /\ \E f \in [DOMAIN files -> Wanted] :
           /\ Matches(f, files, Wanted, CallersNames)
           /\ \A k \in DOMAIN files : f[k] < it <=> k <= count
  BY <1>1 DEF IListing, ListingInvariant
<1>3. PICK f \in [DOMAIN files -> Wanted] :
        /\ Matches(f, files, Wanted, CallersNames)
        /\ \A k \in DOMAIN files : f[k] < it <=> k <= count
  BY <1>2
<1>4. /\ it \in Nat \ {0} /\ files \in Seq(Names) /\ Len(directory) \in Nat
      /\ Wanted = ListedUpTo(Len(directory))
      /\ Wanted \in SUBSET (1 .. Len(directory))
      /\ it \in 1 .. Len(directory)
  BY <1>1, <1>2, PositionSets DEF IListing, ListingTypeOK
<1>5. DOMAIN files = 1 .. Len(files) /\ Len(files) \in Nat
  BY <1>4
<1>6. /\ \A k, l \in 1 .. Len(files) : k < l => f[k] < f[l]
      /\ \A p \in Wanted : \E k \in 1 .. Len(files) : f[k] = p
      /\ \A k \in 1 .. Len(files) : f[k] \in Wanted /\ f[k] \in Nat
      /\ \A k \in 1 .. Len(files) : f[k] < it <=> k <= count
  <2>1. \A k, l \in 1 .. Len(files) : k < l => f[k] < f[l]
    BY <1>3, <1>5 DEF Matches, Increasing
  <2>2. \A p \in Wanted : \E k \in 1 .. Len(files) : f[k] = p
    BY <1>3, <1>5 DEF Matches
  <2>3. \A k \in 1 .. Len(files) : f[k] \in Wanted
    BY <1>5
  <2>4. \A p \in Wanted : p \in Nat
    BY <1>4
  <2>5. \A k \in 1 .. Len(files) : f[k] < it <=> k <= count
    BY <1>3, <1>5
  <2>6. QED
    BY <2>1, <2>2, <2>3, <2>4, <2>5
<1>7. count' \in 0 .. Len(files) /\ \A k \in 1 .. Len(files) : f[k] < it + 1 <=> k <= count'
  <2>1. CASE CountsEntry(directory[it])
    <3>1. it \in Wanted
      BY <1>4, <2>1 DEF ListedUpTo, Listed, ListsEntry, CountsEntry, IListing, ListingTypeOK
    <3>2. PICK m \in 1 .. Len(files) : f[m] = it
      BY <1>6, <3>1
    <3>3. ~ (m <= count)
      BY <1>4, <1>6, <3>2
    <3>4. count + 1 \in 1 .. Len(files) /\ count + 1 <= m
      BY <1>2, <1>5, <3>3
    <3>5. ~ (f[count + 1] < it)
      BY <1>2, <1>6, <3>4
    <3>6. m = count + 1
      <4>1. SUFFICES ASSUME count + 1 < m PROVE FALSE
        BY <1>2, <1>5, <3>4
      <4>2. QED
        BY <1>6, <3>2, <3>4, <3>5, <4>1
    <3>7. ASSUME NEW k \in 1 .. Len(files) PROVE f[k] < it + 1 <=> k <= count + 1
      <4>1. CASE k <= count
        BY <1>2, <1>4, <1>6, <4>1
      <4>2. CASE k = count + 1
        BY <1>4, <3>2, <3>6, <4>2
      <4>3. CASE k > count + 1
        <5>1. it < f[k]
          BY <1>6, <3>2, <3>6, <4>3
        <5>2. f[k] \in Nat
          BY <1>6
        <5>3. QED
          BY <1>2, <1>4, <4>3, <5>1, <5>2
      <4>4. QED
        BY <1>2, <4>1, <4>2, <4>3
    <3>8. count' = count + 1
      BY <1>1, <2>1
    <3>9. QED
      BY <1>5, <3>4, <3>7, <3>8
  <2>2. CASE ~ CountsEntry(directory[it])
    <3>1. it \notin Wanted
      BY <1>4, <2>2 DEF ListedUpTo, Listed, ListsEntry, CountsEntry
    <3>2. ASSUME NEW k \in 1 .. Len(files) PROVE f[k] < it + 1 <=> f[k] < it
      <4>1. f[k] # it /\ f[k] \in Nat
        BY <1>6, <3>1
      <4>2. QED
        BY <1>4, <4>1
    <3>3. count' = count
      BY <1>1, <2>2
    <3>4. QED
      BY <1>2, <1>6, <3>2, <3>3
  <2>3. QED
    BY <2>1, <2>2
<1>8. Wanted' = Wanted /\ CallersNames' = CallersNames
  BY <1>1, SameDirectory
<1>9. \E g \in [DOMAIN files' -> Wanted'] :
        /\ Matches(g, files', Wanted', CallersNames')
        /\ \A k \in DOMAIN files' : g[k] < it' <=> k <= count'
  <2>1. \A k \in DOMAIN files : f[k] < it + 1 <=> k <= count'
    BY <1>5, <1>7
  <2>2. QED
    BY <1>1, <1>3, <1>8, <2>1
<1>10. it' <= Len(directory') + 1 /\ count' \in 0 .. Len(files')
  BY <1>1, <1>4, <1>7
<1> QED
  BY <1>1, <1>2, <1>9, <1>10 DEF ListingInvariant

LEMMA CountEndsKeeps ==
  ASSUME IListing, CountEnds
  PROVE  ListingInvariant'
<1>1. /\ pc = "counting" /\ pc' = "done" /\ it > Len(directory)
      /\ UNCHANGED <<directory, mode, driver, it, list, files, count>>
  BY DEF CountEnds
<1>2. /\ mode = "NORMAL" /\ count \in 0 .. Len(files)
      /\ \E f \in [DOMAIN files -> Wanted] :
           /\ Matches(f, files, Wanted, CallersNames)
           /\ \A k \in DOMAIN files : f[k] < it <=> k <= count
  BY <1>1 DEF IListing, ListingInvariant
<1>3. PICK f \in [DOMAIN files -> Wanted] :
        /\ Matches(f, files, Wanted, CallersNames)
        /\ \A k \in DOMAIN files : f[k] < it <=> k <= count
  BY <1>2
<1>4. /\ it \in Nat /\ files \in Seq(Names) /\ Len(directory) \in Nat
      /\ Wanted \in SUBSET (1 .. Len(directory))
  BY <1>1, <1>2, PositionSets DEF IListing, ListingTypeOK
<1>5. DOMAIN files = 1 .. Len(files) /\ Len(files) \in Nat
  BY <1>4
<1>6. count = Len(files)
  <2> DEFINE n == Len(files)
  <2> SUFFICES ASSUME count # n PROVE FALSE
    OBVIOUS
  <2>1. n \in Nat /\ count \in 0 .. n /\ DOMAIN files = 1 .. n
    BY <1>2, <1>5
  <2> HIDE DEF n
  <2>2. count + 1 \in DOMAIN files
    BY <2>1
  <2>3. f[count + 1] \in 1 .. Len(directory)
    BY <1>4, <2>2
  <2>4. f[count + 1] < it
    BY <1>1, <1>4, <2>3
  <2>5. count + 1 <= count
    BY <1>3, <2>2, <2>4
  <2>6. QED
    BY <2>1, <2>5
<1>7. Shows(files', Wanted', CallersNames')
  BY <1>1, <1>3, SameDirectory DEF Shows
<1> QED
  BY <1>1, <1>6, <1>7 DEF ListingInvariant

LEMMA KeepKeeps ==
  ASSUME IListing, Keep
  PROVE  ListingInvariant'
<1>1. /\ pc = "keeping" /\ pc' = "keeping" /\ it <= Len(list)
      /\ UNCHANGED <<directory, mode, driver, files, count>>
      /\ \/ list[it].extension = NoDot /\ list' = RemoveAt(list, it) /\ it' = it
         \/ list[it].extension # NoDot /\ list' = list /\ it' = it + 1
  BY DEF Keep
<1>2. /\ mode = "MD5" /\ files = <<>>
      /\ it <= Len(list) + 1
      /\ \A k \in 1 .. it - 1 : list[k].extension # NoDot
      /\ \E P \in SUBSET ListedUpTo(Len(directory)) :
           Dotted \subseteq P /\ Shows(list, P, EntryNames)
  BY <1>1 DEF IListing, ListingInvariant
<1>3. /\ it \in Nat \ {0} /\ list \in Seq(Names) /\ Len(list) \in Nat /\ it \in 1 .. Len(list)
      /\ DOMAIN list = 1 .. Len(list)
  BY <1>1 DEF IListing, ListingTypeOK
<1>4. /\ ListedUpTo(Len(directory))' = ListedUpTo(Len(directory))
      /\ Dotted' = Dotted /\ EntryNames' = EntryNames
  <2>1. ListedUpTo(Len(directory))' = ListedUpTo(Len(directory))
    BY <1>1 DEF ListedUpTo, Listed, ListsEntry
  <2>2. QED
    BY <1>1, <2>1, SameDirectory
<1>5. PICK P \in SUBSET ListedUpTo(Len(directory)) :
        Dotted \subseteq P /\ Shows(list, P, EntryNames)
  BY <1>2
<1>6. CASE list[it].extension = NoDot
  <2>1. list' = RemoveAt(list, it) /\ it' = it
    BY <1>1, <1>6
  <2>2. PICK f \in [DOMAIN list -> P] : Matches(f, list, P, EntryNames)
    BY <1>5 DEF Shows
  <2>3. P \in SUBSET Nat /\ P \subseteq DOMAIN directory
    BY <1>5, PositionSets DEF IListing
  <2>4. Shows(list', P \ {f[it]}, EntryNames)
    BY <1>3, <2>1, <2>2, <2>3, OneLessShown
  <2>5. f[it] \in DOMAIN directory /\ directory[f[it]].name = list[it]
    BY <1>3, <2>2, <2>3 DEF Matches, EntryNames
  <2>6. f[it] \notin Dotted
    BY <1>6, <2>5 DEF Dotted
  <2>7. Dotted \subseteq P \ {f[it]} /\ P \ {f[it]} \in SUBSET ListedUpTo(Len(directory))
    BY <1>5, <2>6
  <2>8. \E Q \in SUBSET ListedUpTo(Len(directory))' :
          Dotted' \subseteq Q /\ Shows(list', Q, EntryNames')
    BY <1>4, <2>4, <2>7
  <2>9. /\ Len(list') = Len(list) - 1
        /\ \A k \in 1 .. Len(list) - 1 : k < it => list'[k] = list[k]
    BY <1>3, <2>1, Erased
  <2>10. it' <= Len(list') + 1
    BY <1>3, <2>1, <2>9
  <2>11. ASSUME NEW k \in 1 .. it' - 1 PROVE list'[k].extension # NoDot
    <3>1. k \in 1 .. it - 1 /\ k \in 1 .. Len(list) - 1 /\ k < it
      BY <1>3, <2>1
    <3>2. QED
      BY <1>2, <2>9, <3>1
  <2>12. mode' = "MD5" /\ files' = <<>> /\ pc' = "keeping"
    BY <1>1, <1>2
  <2>13. QED
    BY <2>8, <2>10, <2>11, <2>12 DEF ListingInvariant
<1>7. CASE list[it].extension # NoDot
  <2>1. list' = list /\ it' = it + 1
    BY <1>1, <1>7
  <2>2. \E Q \in SUBSET ListedUpTo(Len(directory))' :
          Dotted' \subseteq Q /\ Shows(list', Q, EntryNames')
    BY <1>4, <1>5, <2>1
  <2>3. it' <= Len(list') + 1
    BY <1>3, <2>1
  <2>4. ASSUME NEW k \in 1 .. it' - 1 PROVE list'[k].extension # NoDot
    <3>1. k \in 1 .. it - 1 \/ k = it
      BY <1>3, <2>1
    <3>2. QED
      BY <1>2, <1>7, <2>1, <3>1
  <2>5. mode' = "MD5" /\ files' = <<>> /\ pc' = "keeping"
    BY <1>1, <1>2
  <2>6. QED
    BY <2>2, <2>3, <2>4, <2>5 DEF ListingInvariant
<1> QED
  BY <1>6, <1>7

LEMMA KeepEndsKeeps ==
  ASSUME IListing, KeepEnds
  PROVE  ListingInvariant'
<1>1. /\ pc = "keeping" /\ it > Len(list) /\ pc' = "collecting" /\ it' = 1
      /\ UNCHANGED <<directory, mode, driver, list, files, count>>
  BY DEF KeepEnds
<1>2. /\ mode = "MD5" /\ files = <<>>
      /\ it <= Len(list) + 1
      /\ \A k \in 1 .. it - 1 : list[k].extension # NoDot
      /\ \E P \in SUBSET ListedUpTo(Len(directory)) :
           Dotted \subseteq P /\ Shows(list, P, EntryNames)
  BY <1>1 DEF IListing, ListingInvariant
<1>3. it \in Nat /\ list \in Seq(Names) /\ Len(list) \in Nat /\ DOMAIN list = 1 .. Len(list)
  BY DEF IListing, ListingTypeOK
<1>4. PICK P \in SUBSET ListedUpTo(Len(directory)) :
        Dotted \subseteq P /\ Shows(list, P, EntryNames)
  BY <1>2
<1>5. PICK f \in [DOMAIN list -> P] : Matches(f, list, P, EntryNames)
  BY <1>4 DEF Shows
<1>6. ASSUME NEW p \in P PROVE p \in Dotted
  <2>1. p \in DOMAIN directory /\ Listed(p)
    BY <1>4, PositionSets DEF IListing, ListedUpTo
  <2>2. PICK k \in DOMAIN list : f[k] = p
    BY <1>5 DEF Matches
  <2>3. list[k] = directory[p].name
    BY <1>5, <2>1, <2>2 DEF Matches, EntryNames
  <2>4. k \in 1 .. it - 1
    BY <1>1, <1>3
  <2>5. QED
    BY <1>2, <2>1, <2>3, <2>4 DEF Dotted
<1>7. P = Dotted
  BY <1>4, <1>6
<1>8. Wanted \ P = {} /\ Data \ P = {}
  BY <1>2, <1>7, PositionSets DEF IListing
<1>9. Shows(files, Wanted \ P, CallersNames)
  BY <1>2, <1>8, NothingShown
<1>10. /\ Wanted' = Wanted /\ Dotted' = Dotted /\ Data' = Data
       /\ EntryNames' = EntryNames /\ CallersNames' = CallersNames
  BY <1>1, SameDirectory
<1>11. \E Q \in SUBSET Dotted' :
         /\ Dotted' \ Data' \subseteq Q /\ Shows(list', Q, EntryNames')
         /\ Shows(files', Wanted' \ Q, CallersNames')
         /\ \A d \in Data' \ Q, i \in Data' \cap Q : d < i
  <2>1. /\ Dotted \ Data \subseteq P /\ Shows(list, P, EntryNames)
        /\ \A d \in Data \ P, i \in Data \cap P : d < i
    BY <1>4, <1>7, <1>8
  <2>2. list' = list /\ files' = files
    BY <1>1
  <2>3. QED
    BY <1>7, <1>9, <1>10, <2>1, <2>2
<1>12. it' <= Len(list') + 1 /\ \A k \in 1 .. it' - 1 : list'[k].extension # ".d"
  BY <1>1, <1>3
<1>13. mode' = "MD5" /\ pc' = "collecting"
  BY <1>1, <1>2
<1> QED
  BY <1>11, <1>12, <1>13 DEF ListingInvariant

\* Whether a data file has its digest file can be seen in the list: no loop has
\* erased that.
LEMMA DigestSeen ==
  ASSUME IListing, pc = "collecting",
         NEW P \in SUBSET Dotted, Dotted \ Data \subseteq P,
         NEW f \in [DOMAIN list -> P], Matches(f, list, P, EntryNames),
         NEW i \in Data
  PROVE  Contains(list, Md5FileName(directory[i].name)) <=> i \in Wanted
<1> DEFINE digest == Md5FileName(directory[i].name)
<1>1. /\ mode = "MD5" /\ list \in Seq(Names) /\ DOMAIN list = 1 .. Len(list)
  BY DEF IListing, ListingInvariant, ListingTypeOK
<1>2. digest.extension = ".m"
  <2>1. directory[i] \in Entries
    BY DEF Data, IListing, ListingTypeOK
  <2>2. directory[i].name \in Names
    BY <2>1 DEF Entries
  <2>3. \A n \in Names : Md5FileName(n).extension = ".m"
    BY DEF Md5FileName, Names
  <2>4. QED
    BY <2>2, <2>3
<1>3. i \in Wanted <=> \E j \in DOMAIN directory : Listed(j) /\ directory[j].name = digest
  BY <1>1 DEF Wanted, Data
<1> HIDE DEF digest
<1>4. ASSUME NEW k \in 1 .. Len(list), list[k] = digest
      PROVE  i \in Wanted
  <2>1. f[k] \in DOMAIN directory /\ Listed(f[k])
    BY <1>1, <1>4 DEF Dotted
  <2>2. directory[f[k]].name = digest
    BY <1>1, <1>4, <2>1 DEF Matches, EntryNames
  <2>3. QED
    BY <1>3, <2>1, <2>2
<1>5. ASSUME NEW j \in DOMAIN directory, Listed(j), directory[j].name = digest
      PROVE  \E k \in 1 .. Len(list) : list[k] = digest
  <2>1. j \in Dotted \ Data
    BY <1>2, <1>5, ListingAssumption DEF Dotted, Data
  <2>2. PICK k \in 1 .. Len(list) : f[k] = j
    BY <1>1, <2>1 DEF Matches
  <2>3. list[k] = digest
    BY <1>1, <1>5, <2>2 DEF Matches, EntryNames
  <2>4. QED
    BY <2>3
<1>6. Contains(list, digest) <=> i \in Wanted
  BY <1>3, <1>4, <1>5 DEF Contains
<1> QED
  BY <1>6 DEF digest

LEMMA CollectKeeps ==
  ASSUME IListing, Collect
  PROVE  ListingInvariant'
<1>1. /\ pc = "collecting" /\ it <= Len(list)
      /\ UNCHANGED <<directory, mode, driver, count>>
      /\ \/ list[it].extension = NoDot
         \/ /\ list[it].extension = ".d"
            /\ files' = IF Contains(list, Md5FileName(list[it]))
                        THEN Append(files, FileName(list[it])) ELSE files
            /\ list' = RemoveAt(list, it) /\ it' = it /\ pc' = pc
         \/ /\ list[it].extension \notin {".d", NoDot}
            /\ it' = it + 1 /\ pc' = pc /\ list' = list /\ files' = files
  BY DEF Collect
<1>2. /\ mode = "MD5"
      /\ it <= Len(list) + 1
      /\ \A k \in 1 .. it - 1 : list[k].extension # ".d"
      /\ \E P \in SUBSET Dotted :
           /\ Dotted \ Data \subseteq P /\ Shows(list, P, EntryNames)
           /\ Shows(files, Wanted \ P, CallersNames)
           /\ \A d \in Data \ P, i \in Data \cap P : d < i
  BY <1>1 DEF IListing, ListingInvariant
<1>3. /\ it \in Nat \ {0} /\ list \in Seq(Names) /\ Len(list) \in Nat /\ it \in 1 .. Len(list)
      /\ DOMAIN list = 1 .. Len(list) /\ files \in Seq(Names)
  BY <1>1 DEF IListing, ListingTypeOK
<1>4. PICK P \in SUBSET Dotted :
        /\ Dotted \ Data \subseteq P /\ Shows(list, P, EntryNames)
        /\ Shows(files, Wanted \ P, CallersNames)
        /\ \A d \in Data \ P, i \in Data \cap P : d < i
  BY <1>2
<1>5. PICK f \in [DOMAIN list -> P] : Matches(f, list, P, EntryNames)
  BY <1>4 DEF Shows
<1>6. /\ Dotted \in SUBSET Nat /\ P \in SUBSET Nat /\ Wanted \subseteq Data
      /\ Dotted \subseteq DOMAIN directory
  BY <1>2, <1>4, PositionSets DEF IListing
<1>7. \A k \in 1 .. Len(list) :
        f[k] \in P /\ f[k] \in Dotted /\ f[k] \in Nat /\ list[k] = directory[f[k]].name
  BY <1>3, <1>5, <1>6 DEF Matches, EntryNames
<1>8. list[it].extension # NoDot
  BY <1>3, <1>7 DEF Dotted
<1>9. /\ Wanted' = Wanted /\ Dotted' = Dotted /\ Data' = Data
      /\ EntryNames' = EntryNames /\ CallersNames' = CallersNames
  BY <1>1, SameDirectory
<1>10. mode' = "MD5"
  BY <1>1, <1>2
<1>11. CASE list[it].extension = ".d"
  <2> DEFINE i == f[it]
             Q == P \ {i}
  <2>1. /\ list' = RemoveAt(list, it) /\ it' = it /\ pc' = "collecting"
        /\ files' = IF Contains(list, Md5FileName(list[it]))
                    THEN Append(files, FileName(list[it])) ELSE files
    BY <1>1, <1>8, <1>11
  <2>2. i \in Data /\ i \in P /\ i \in Nat /\ list[it] = directory[i].name
    BY <1>3, <1>7, <1>11 DEF Data, Dotted
  <2>3. Shows(list', Q, EntryNames)
    BY <1>3, <1>5, <1>6, <2>1, OneLessShown
  <2>4. Contains(list, Md5FileName(directory[i].name)) <=> i \in Wanted
    BY <1>1, <1>4, <1>5, <2>2, DigestSeen
  <2>5. Shows(files', Wanted \ Q, CallersNames)
    <3>1. CASE i \in Wanted
      <4>1. files' = Append(files, FileName(list[it]))
        BY <2>1, <2>2, <2>4, <3>1
      <4>2. FileName(list[it]) \in Names
        <5>1. list[it] \in Names
          BY <1>3
        <5>2. \A n \in Names : FileName(n) \in Names
          BY DEF FileName, Names
        <5>3. QED
          BY <5>1, <5>2
      <4>3. FileName(list[it]) = CallersNames[i]
        BY <1>2, <1>6, <2>2 DEF CallersNames, CallersName, Data
      <4>4. Wanted \ P \in SUBSET Nat /\ \A p \in Wanted \ P : p < i
        BY <1>4, <1>6, <2>2, PositionSets DEF IListing
      <4>5. Shows(Append(files, FileName(list[it])), (Wanted \ P) \cup {i}, CallersNames)
        BY <1>3, <1>4, <2>2, <4>2, <4>3, <4>4, OneMoreShown
      <4>6. (Wanted \ P) \cup {i} = Wanted \ Q
        BY <2>2, <3>1
      <4>7. QED
        BY <4>1, <4>5, <4>6
    <3>2. CASE i \notin Wanted
      <4>1. files' = files
        BY <2>1, <2>2, <2>4, <3>2
      <4>2. Wanted \ Q = Wanted \ P
        BY <2>2, <3>2
      <4>3. QED
        BY <1>4, <4>1, <4>2
    <3>3. QED
      BY <3>1, <3>2
  <2>6. ASSUME NEW j \in Data \cap Q PROVE i < j
    <3>1. PICK k \in 1 .. Len(list) : f[k] = j
      BY <1>3, <1>5 DEF Matches
    <3>2. list[k].extension = ".d" /\ k # it
      BY <1>7, <3>1 DEF Data
    <3>3. it < k
      BY <1>2, <1>3, <3>2
    <3>4. f[it] < f[k]
      BY <1>3, <1>5, <3>3 DEF Matches, Increasing
    <3>5. QED
      BY <3>1, <3>4
  <2>7. \A d \in Data \ Q, j \in Data \cap Q : d < j
    <3>1. \A d \in Data \ Q : d = i \/ d \in Data \ P
      OBVIOUS
    <3>2. \A j \in Data \cap Q : j \in Data \cap P
      OBVIOUS
    <3>3. QED
      BY <1>4, <2>6, <3>1, <3>2
  <2>8. Q \in SUBSET Dotted /\ Dotted \ Data \subseteq Q
    BY <1>4, <2>2
  <2> HIDE DEF i, Q
  <2>9. \E R \in SUBSET Dotted' :
          /\ Dotted' \ Data' \subseteq R /\ Shows(list', R, EntryNames')
          /\ Shows(files', Wanted' \ R, CallersNames')
          /\ \A d \in Data' \ R, j \in Data' \cap R : d < j
    BY <1>9, <2>3, <2>5, <2>7, <2>8
  <2>10. /\ Len(list') = Len(list) - 1
         /\ \A k \in 1 .. Len(list) - 1 : k < it => list'[k] = list[k]
    BY <1>3, <2>1, Erased
  <2>11. it' <= Len(list') + 1
    BY <1>3, <2>1, <2>10
  <2>12. ASSUME NEW k \in 1 .. it' - 1 PROVE list'[k].extension # ".d"
    <3>1. k \in 1 .. it - 1 /\ k \in 1 .. Len(list) - 1 /\ k < it
      BY <1>3, <2>1
    <3>2. QED
      BY <1>2, <2>10, <3>1
  <2>13. QED
    BY <1>10, <2>1, <2>9, <2>11, <2>12 DEF ListingInvariant
<1>12. CASE list[it].extension \notin {".d", NoDot}
  <2>1. list' = list /\ files' = files /\ it' = it + 1 /\ pc' = "collecting"
    BY <1>1, <1>12
  <2>2. \E R \in SUBSET Dotted' :
          /\ Dotted' \ Data' \subseteq R /\ Shows(list', R, EntryNames')
          /\ Shows(files', Wanted' \ R, CallersNames')
          /\ \A d \in Data' \ R, j \in Data' \cap R : d < j
    BY <1>4, <1>9, <2>1
  <2>3. it' <= Len(list') + 1
    BY <1>3, <2>1
  <2>4. ASSUME NEW k \in 1 .. it' - 1 PROVE list'[k].extension # ".d"
    <3>1. k \in 1 .. it - 1 \/ k = it
      BY <1>3, <2>1
    <3>2. QED
      BY <1>2, <1>12, <2>1, <3>1
  <2>5. QED
    BY <1>10, <2>1, <2>2, <2>3, <2>4 DEF ListingInvariant
<1> QED
  BY <1>8, <1>11, <1>12

LEMMA CollectEndsKeeps ==
  ASSUME IListing, CollectEnds
  PROVE  ListingInvariant'
<1>1. /\ pc = "collecting" /\ it > Len(list) /\ pc' = "done" /\ count' = Len(files)
      /\ UNCHANGED <<directory, mode, driver, it, list, files>>
  BY DEF CollectEnds
<1>2. /\ mode = "MD5"
      /\ it <= Len(list) + 1
      /\ \A k \in 1 .. it - 1 : list[k].extension # ".d"
      /\ \E P \in SUBSET Dotted :
           /\ Dotted \ Data \subseteq P /\ Shows(list, P, EntryNames)
           /\ Shows(files, Wanted \ P, CallersNames)
           /\ \A d \in Data \ P, i \in Data \cap P : d < i
  BY <1>1 DEF IListing, ListingInvariant
<1>3. it \in Nat /\ list \in Seq(Names) /\ Len(list) \in Nat /\ DOMAIN list = 1 .. Len(list)
  BY DEF IListing, ListingTypeOK
<1>4. PICK P \in SUBSET Dotted :
        Shows(list, P, EntryNames) /\ Shows(files, Wanted \ P, CallersNames)
  BY <1>2
<1>5. PICK f \in [DOMAIN list -> P] : Matches(f, list, P, EntryNames)
  BY <1>4 DEF Shows
<1>6. ASSUME NEW i \in P PROVE i \notin Data
  <2>1. i \in DOMAIN directory
    BY <1>4 DEF Dotted
  <2>2. PICK k \in DOMAIN list : f[k] = i
    BY <1>5 DEF Matches
  <2>3. list[k] = directory[i].name
    BY <1>5, <2>1, <2>2 DEF Matches, EntryNames
  <2>4. k \in 1 .. it - 1
    BY <1>1, <1>3
  <2>5. QED
    BY <1>2, <2>3, <2>4 DEF Data
<1>7. Wanted \ P = Wanted
  BY <1>2, <1>6, PositionSets DEF IListing
<1>8. Shows(files', Wanted', CallersNames')
  BY <1>1, <1>4, <1>7, SameDirectory
<1> QED
  BY <1>1, <1>8 DEF ListingInvariant

\* The loops erase and list what they should, in every step of every call.
LEMMA ListingAlways == ListingSpec => []IListing
<1>1. ListingInit => IListing
  BY DEF ListingInit, IListing, ListingTypeOK, ListingInvariant
<1>2. IListing /\ [ListingNext]_listingVars => IListing'
  <2> SUFFICES ASSUME IListing, [ListingNext]_listingVars PROVE IListing'
    OBVIOUS
  <2>1. ListingTypeOK'
    BY ListingTypes DEF IListing
  <2>2. CASE AddEntry
    BY <2>1, <2>2 DEF AddEntry, listing, IListing, ListingInvariant
  <2>3. CASE Call
    <3>1. /\ it = 1 /\ list = <<>> /\ files = <<>> /\ count = 0
          /\ pc' = IF mode' = "MD5_BACKUP" THEN "done" ELSE "reading"
          /\ UNCHANGED <<directory, it, list, files, count>>
      BY <2>3 DEF Call, IListing, ListingInvariant
    <3>2. ListedUpTo(it - 1)' = {}
      BY <3>1 DEF ListedUpTo
    <3>3. Shows(list', ListedUpTo(it - 1)', EntryNames')
      BY <3>1, <3>2, NothingShown
    <3>4. it' <= Len(directory') + 1 /\ count' = Len(files')
      BY <3>1, PositionSets DEF IListing
    <3>5. ListingInvariant'
      BY <3>1, <3>3, <3>4 DEF ListingInvariant
    <3>6. QED
      BY <2>1, <3>5 DEF IListing
  <2>4. CASE UNCHANGED listingVars
    <3>1. /\ UNCHANGED <<directory, mode, driver>>
          /\ UNCHANGED <<pc, it, list, files, count>>
      BY <2>4 DEF listingVars, listing
    <3>2. /\ ListedUpTo(it - 1)' = ListedUpTo(it - 1)
          /\ ListedUpTo(Len(directory))' = ListedUpTo(Len(directory))
      BY <3>1 DEF ListedUpTo, Listed, ListsEntry
    <3>3. /\ Wanted' = Wanted /\ Dotted' = Dotted /\ Data' = Data
          /\ EntryNames' = EntryNames /\ CallersNames' = CallersNames
      BY <3>1, SameDirectory
    <3>4. ListingInvariant'
      BY <3>1, <3>2, <3>3 DEF IListing, ListingInvariant
    <3>5. QED
      BY <2>1, <3>4 DEF IListing
  <2>5. QED
    BY <2>1, <2>2, <2>3, <2>4, ReadKeeps, ReadEndsKeeps, CountNextKeeps, CountEndsKeeps,
       KeepKeeps, KeepEndsKeeps, CollectKeeps, CollectEndsKeeps DEF ListingNext, IListing
<1>3. QED
  BY <1>1, <1>2, PTL DEF ListingSpec

\* dataFilesList answers the files that it stands for, once each and in the order
\* of the directory, for directories of any length and names of any stems.
THEOREM ListingCorrect == ListingSpec => []ListingComplete
<1>1. IListing => ListingComplete
  <2> SUFFICES ASSUME IListing PROVE ListingComplete
    OBVIOUS
  <2>1. pc # "aborted"
    BY DEF IListing, ListingInvariant
  <2>2. ASSUME pc = "done", mode # "MD5_BACKUP"
        PROVE  \E f \in [DOMAIN files -> Wanted] :
                 /\ Increasing(f)
                 /\ \A i \in Wanted : \E k \in DOMAIN files : f[k] = i
                 /\ \A k \in DOMAIN files : files[k] = CallersName(f[k])
    <3>1. Shows(files, Wanted, CallersNames)
      BY <2>2 DEF IListing, ListingInvariant
    <3>2. PICK f \in [DOMAIN files -> Wanted] : Matches(f, files, Wanted, CallersNames)
      BY <3>1 DEF Shows
    <3>3. \A i \in Wanted : CallersNames[i] = CallersName(i)
      BY DEF Wanted, CallersNames
    <3>4. \A k \in DOMAIN files : files[k] = CallersName(f[k])
      BY <3>2, <3>3 DEF Matches
    <3>5. QED
      BY <3>2, <3>4 DEF Matches
  <2>3. QED
    BY <2>1, <2>2 DEF ListingComplete
<1>2. QED
  BY <1>1, ListingAlways, PTL

\* countFilesInDirectory counts the files that dataFilesList names.
THEOREM CountCorrect == ListingSpec => []CountsAgree
<1>1. IListing => CountsAgree
  BY DEF IListing, ListingInvariant, CountsAgree
<1>2. QED
  BY <1>1, ListingAlways, PTL

=============================================================================
