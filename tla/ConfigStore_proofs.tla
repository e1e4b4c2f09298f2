--------------------------- MODULE ConfigStore_proofs ---------------------------
(* Theorems about ConfigStore, for every width of a long, every set of keys   *)
(* in use and an NVS that may refuse any write.  What is said of a setting in *)
(* force is said of those whose milliseconds or minutes fit the width; the    *)
(* others are in force otherwise than confirmed (ConfirmedIsInForce).         *)
EXTENDS ConfigStore, TLAPS

-----------------------------------------------------------------------------
(* Arithmetic                                                               *)

LEMMA ConfigConstants ==
  /\ LongMod \in Nat /\ LongMod > 0
  /\ MinuteSeconds \in Nat /\ SecondMillis \in Nat /\ HourMinutes \in Nat
  /\ MinutesPerDay \in Nat /\ 2 * MinutesPerDay < LongMod
  /\ CavityMax \in Nat /\ CavityMax > 0
  /\ DefaultSeconds \in Nat /\ DefaultSeconds > 0 /\ 2 * DefaultSeconds < LongMod
  /\ DefaultCavity \in Nat /\ DefaultCavity > 0 /\ DefaultCavity < CavityMax
  /\ DefaultShift \in 0 .. MinutesPerDay - 1
  /\ NvsMayFail \in BOOLEAN
BY ConfigAssumption

LEMMA KeysInUse ==
  /\ \A k \in Keys : k \in Durations \/ k \in ShiftKeys \/ k = "cavity"
  /\ \A k \in Durations : k \notin ShiftKeys /\ k # "cavity"
  /\ "cavity" \notin ShiftKeys /\ "cavity" \notin Durations
BY ConfigAssumption DEF Durations, ShiftKeys

LEMMA TimesMonotone ==
  ASSUME NEW k \in Nat, NEW a \in Int, NEW b \in Int, a <= b
  PROVE  k * a <= k * b
  <1>1. PICK d \in Nat : b = a + d
    <2>1. b - a \in Nat /\ b = a + (b - a)
      OBVIOUS
    <2> QED BY <2>1
  <1>2. k * b = k * a + k * d
    BY <1>1
  <1>3. k * d \in Nat /\ k * a \in Int
    OBVIOUS
  <1> QED BY <1>2, <1>3

(* Two numbers of 0 .. d - 1 that differ by a multiple of d are the same.   *)
LEMMA SameResidue ==
  ASSUME NEW d \in Nat, NEW p \in Int, NEW q \in Int, NEW r \in 0 .. d - 1, NEW s \in 0 .. d - 1,
         d * p + r = d * q + s
  PROVE  p = q /\ r = s
  <1>1. /\ d * p \in Int /\ d * q \in Int
        /\ d * (p + 1) = d * p + d /\ d * (q + 1) = d * q + d
    OBVIOUS
  <1>2. ASSUME p < q PROVE FALSE
    <2>1. d * (p + 1) <= d * q
      BY <1>2, TimesMonotone
    <2> QED BY <1>1, <2>1
  <1>3. ASSUME q < p PROVE FALSE
    <2>1. d * (q + 1) <= d * p
      BY <1>3, TimesMonotone
    <2> QED BY <1>1, <2>1
  <1>4. p = q
    BY <1>2, <1>3
  <1> QED BY <1>1, <1>4

LEMMA Residue ==
  ASSUME NEW n \in Int
  PROVE  /\ n % LongMod \in 0 .. LongMod - 1
         /\ \E q \in Int : n = LongMod * q + (n % LongMod)
  <1>1. n % LongMod \in 0 .. LongMod - 1
    BY ConfigConstants
  <1>2. n = LongMod * (n \div LongMod) + (n % LongMod) /\ n \div LongMod \in Int
    BY ConfigConstants
  <1> QED BY <1>1, <1>2

(* What differs from a residue by a multiple of LongMod leaves that residue.*)
LEMMA ResidueOf ==
  ASSUME NEW q \in Int, NEW r \in 0 .. LongMod - 1, NEW n \in Int, n = LongMod * q + r
  PROVE  n % LongMod = r
  <1>1. PICK p \in Int : n = LongMod * p + (n % LongMod)
    BY Residue
  <1>2. n % LongMod \in 0 .. LongMod - 1
    BY Residue
  <1> DEFINE s == n % LongMod
  <1>3. s \in 0 .. LongMod - 1 /\ LongMod * p + s = LongMod * q + r
    BY <1>1, <1>2
  <1> HIDE DEF s
  <1>4. s = r
    BY <1>3, SameResidue, ConfigConstants
  <1> QED BY <1>4 DEF s

(* A long is its number, up to multiples of LongMod, in the lower half.     *)
LEMMA LongWraps ==
  ASSUME NEW n \in Int
  PROVE  /\ Long(n) \in Int /\ 2 * Long(n) < LongMod
         /\ \E q \in Int : Long(n) = LongMod * q + n
  <1> DEFINE r == n % LongMod
  <1>1. r \in 0 .. LongMod - 1
    BY Residue
  <1>2. PICK q \in Int : n = LongMod * q + r
    BY Residue
  <1>3. Long(n) = r \/ Long(n) = r - LongMod
    BY DEF Long
  <1>4. Long(n) \in Int /\ 2 * Long(n) < LongMod
    BY <1>1, ConfigConstants DEF Long
  <1> HIDE DEF r
  <1>5. /\ LongMod * (0 - q) = 0 - LongMod * q
        /\ LongMod * (0 - q - 1) = 0 - LongMod * q - LongMod
        /\ LongMod * q \in Int
    BY ConfigConstants
  <1>6. CASE Long(n) = r
    <2>1. Long(n) = LongMod * (0 - q) + n
      BY <1>1, <1>2, <1>5, <1>6, ConfigConstants
    <2>2. 0 - q \in Int
      OBVIOUS
    <2> QED BY <1>4, <2>1, <2>2
  <1>7. CASE Long(n) = r - LongMod
    <2>1. Long(n) = LongMod * (0 - q - 1) + n
      BY <1>1, <1>2, <1>5, <1>7, ConfigConstants
    <2>2. 0 - q - 1 \in Int
      OBVIOUS
    <2> QED BY <1>4, <2>1, <2>2
  <1> QED BY <1>3, <1>6, <1>7

-----------------------------------------------------------------------------
(* What is typed, and what it means                                         *)

(* A number of minutes that fits, and was meant as such, is stored as it is. *)
LEMMA MinutesMeant ==
  ASSUME NEW v \in Int, NEW x \in 0 .. LongMod - 1, NEW q \in Int, v = LongMod * q + x,
         v >= 0, v < MinutesPerDay
  PROVE  v = x
  <1>1. v \in 0 .. LongMod - 1
    BY ConfigConstants
  <1>2. LongMod * 0 + v = LongMod * q + x
    BY ConfigConstants
  <1> QED BY <1>1, <1>2, SameResidue, ConfigConstants

(* A duration counts in milliseconds modulo LongMod, and what was meant      *)
(* differs from it by a multiple of LongMod.                                 *)
LEMMA MillisMeant ==
  ASSUME NEW v \in Int, NEW s \in Int, NEW q \in Int, v = LongMod * q + s,
         s * SecondMillis \in 0 .. LongMod - 1
  PROVE  (v * SecondMillis) % LongMod = s * SecondMillis
  <1> DEFINE n == v * SecondMillis
             r == s * SecondMillis
  <1>1. q * SecondMillis \in Int /\ n \in Int /\ r \in 0 .. LongMod - 1
    BY ConfigConstants
  <1>2. n = LongMod * (q * SecondMillis) + r
    BY ConfigConstants
  <1> HIDE DEF n, r
  <1>3. n % LongMod = r
    BY <1>1, <1>2, ResidueOf
  <1> QED BY <1>3 DEF n, r

-----------------------------------------------------------------------------
(* The inductive invariant                                                  *)

(* What loop() makes of a value of a key, and what boot finds in NVS.        *)
Counts(k, v) == IF k \in Durations THEN (v * SecondMillis) % LongMod ELSE v
OnBoot(stored, k) == IF stored = Absent THEN Default[k] ELSE stored

(* The typing, ConfirmedSettingsHold, and why it survives a restart: for a   *)
(* key whose last write did not fail, what NVS holds is in force as told.    *)
StoreTyped ==
  /\ ram \in [Keys -> Int] /\ nvs \in [Keys -> Int] /\ told \in [Keys -> Int]
  /\ \A k \in Keys : ram[k] \in Range(k) /\ nvs[k] \in Range(k) \cup {Absent}
  /\ unsaved \subseteq Keys

RamAsTold(k) == told[k] \in 0 .. LongMod - 1 => Counts(k, ram[k]) = told[k]
NvsAsTold(k) == told[k] \in 0 .. LongMod - 1 => Counts(k, OnBoot(nvs[k], k)) = told[k]

StoreInv ==
  /\ StoreTyped
  /\ \A k \in Keys : RamAsTold(k)
  /\ \A k \in Keys \ unsaved : NvsAsTold(k)

LEMMA CountsAreInForce ==
  ASSUME NEW values, NEW k \in Keys
  PROVE  InForce(values, k) = Counts(k, values[k])
BY DEF InForce, Counts

LEMMA CountsInt ==
  ASSUME NEW k \in Keys, NEW v \in Int
  PROVE  Counts(k, v) \in Int
BY ConfigConstants DEF Counts

LEMMA LoadedIsOnBoot ==
  /\ Loaded = [k \in Keys |-> OnBoot(nvs[k], k)]
  /\ \A k \in Keys : Loaded[k] = OnBoot(nvs[k], k)
BY DEF Loaded, OnBoot

(* A value set_config_value() accepts fits the variable it is put into.      *)
LEMMA AcceptedFits ==
  ASSUME NEW k \in Keys, NEW v \in Int, 2 * v < LongMod, InRange(k, v)
  PROVE  v \in Range(k) /\ v >= 0 /\ v # Absent
  <1>1. CASE k \in Durations
    <2>1. v > 0
      BY <1>1, KeysInUse DEF InRange
    <2>2. v <= (LongMod - 1) \div 2
      BY ConfigConstants
    <2>3. v \in 1 .. (LongMod - 1) \div 2
      BY <2>1, <2>2, ConfigConstants
    <2>4. Range(k) = 1 .. (LongMod - 1) \div 2
      BY <1>1, KeysInUse DEF Range
    <2> QED BY <2>1, <2>3, <2>4 DEF Absent
  <1>2. CASE k = "cavity"
    <2>1. v > 0 /\ v <= CavityMax
      BY <1>2, KeysInUse DEF InRange
    <2>2. v \in 1 .. CavityMax /\ v >= 0 /\ v # Absent
      BY <2>1, ConfigConstants DEF Absent
    <2> QED BY <1>2, <2>2, KeysInUse DEF Range
  <1>3. CASE k \in ShiftKeys
    <2>1. v >= 0 /\ v < MinutesPerDay
      BY <1>3, KeysInUse DEF InRange
    <2>2. v \in 0 .. MinutesPerDay - 1 /\ v # Absent
      BY <2>1, ConfigConstants DEF Absent
    <2> QED BY <1>3, <2>1, <2>2, KeysInUse DEF Range
  <1> QED BY <1>1, <1>2, <1>3, KeysInUse

LEMMA DefaultsFit ==
  /\ Default \in [Keys -> Int]
  /\ \A k \in Keys : Default[k] \in Range(k)
  <1>1. ASSUME NEW k \in Keys PROVE Default[k] \in Int /\ Default[k] \in Range(k)
    <2>1. CASE k \in Durations
      <3>1. Default[k] = DefaultSeconds
        BY <2>1, KeysInUse DEF Default
      <3>2. DefaultSeconds <= (LongMod - 1) \div 2
        BY ConfigConstants
      <3>3. DefaultSeconds \in 1 .. (LongMod - 1) \div 2
        BY <3>2, ConfigConstants
      <3>4. Range(k) = 1 .. (LongMod - 1) \div 2
        BY <2>1, KeysInUse DEF Range
      <3> QED BY <3>1, <3>3, <3>4, ConfigConstants
    <2>2. CASE k = "cavity"
      <3>1. Default[k] = DefaultCavity
        BY <2>2, KeysInUse DEF Default
      <3>2. DefaultCavity \in 1 .. CavityMax
        BY ConfigConstants
      <3> QED BY <2>2, <3>1, <3>2, KeysInUse DEF Range
    <2>3. CASE k \in ShiftKeys
      <3>1. Default[k] = DefaultShift
        BY <2>3, KeysInUse DEF Default
      <3> QED BY <2>3, <3>1, ConfigConstants, KeysInUse DEF Range
    <2> QED BY <2>1, <2>2, <2>3, KeysInUse
  <1> DEFINE value(k) == CASE k \in Durations -> DefaultSeconds
                           [] k = "cavity" -> DefaultCavity
                           [] k \in ShiftKeys -> DefaultShift
  <1>2. Default = [k \in Keys |-> value(k)]
    BY DEF Default
  <1> HIDE DEF value
  <1> QED BY <1>1, <1>2

LEMMA RangeInt ==
  ASSUME NEW k \in Keys
  PROVE  Range(k) \subseteq Int /\ Range(k) \cup {Absent} \subseteq Int
  <1>1. (LongMod - 1) \div 2 \in Int
    BY ConfigConstants
  <1>2. CASE k \in Durations
    BY <1>1, <1>2, KeysInUse DEF Range, Absent
  <1>3. CASE k = "cavity"
    BY <1>3, ConfigConstants, KeysInUse DEF Range, Absent
  <1>4. CASE k \in ShiftKeys
    BY <1>4, ConfigConstants, KeysInUse DEF Range, Absent
  <1> QED BY <1>2, <1>3, <1>4, KeysInUse

(* A confirmed value that means what was told, if that fits, keeps the       *)
(* invariant, whether or not NVS took it.                                    *)
LEMMA ConfirmKeeps ==
  ASSUME NEW k \in Keys, NEW v \in Int, NEW meant \in Int,
         meant \in 0 .. LongMod - 1 /\ InRange(k, v) => Counts(k, v) = meant, 2 * v < LongMod,
         StoreInv, Confirm(k, v, meant)
  PROVE  StoreInv'
  <1>1. /\ InRange(k, v)
        /\ ram' = [ram EXCEPT ![k] = v]
        /\ told' = [told EXCEPT ![k] = meant]
    BY DEF Confirm, Store
  <1>2. \/ nvs' = [nvs EXCEPT ![k] = v] /\ unsaved' = unsaved \ {k}
        \/ unsaved' = unsaved \cup {k} /\ nvs' = nvs
    BY DEF Confirm, Store
  <1>3. v \in Range(k) /\ v # Absent
    BY <1>1, AcceptedFits
  <1>4. StoreTyped
    BY DEF StoreInv
  <1>5. StoreTyped'
    <2>1. ram' \in [Keys -> Int] /\ told' \in [Keys -> Int]
      BY <1>1, <1>4 DEF StoreTyped
    <2>2. nvs' \in [Keys -> Int] /\ unsaved' \subseteq Keys
      BY <1>2, <1>4 DEF StoreTyped
    <2>3. ASSUME NEW j \in Keys PROVE ram'[j] \in Range(j)
      BY <1>1, <1>3, <1>4 DEF StoreTyped
    <2>4. ASSUME NEW j \in Keys PROVE nvs'[j] \in Range(j) \cup {Absent}
      BY <1>2, <1>3, <1>4 DEF StoreTyped
    <2>5. \A j \in Keys : Range(j)' = Range(j)
      OBVIOUS
    <2> QED BY <2>1, <2>2, <2>3, <2>4 DEF StoreTyped, Range
  <1>6. ASSUME NEW j \in Keys PROVE RamAsTold(j)'
    <2>1. CASE j = k
      <3>1. ram'[j] = v /\ told'[j] = meant
        BY <1>1, <1>4, <2>1 DEF StoreTyped
      <3>2. meant \in 0 .. LongMod - 1 => Counts(j, v) = meant
        BY <1>1, <2>1
      <3> QED BY <3>1, <3>2 DEF RamAsTold, Counts
    <2>2. CASE j # k
      <3>1. ram'[j] = ram[j] /\ told'[j] = told[j]
        BY <1>1, <1>4, <2>2 DEF StoreTyped
      <3>2. RamAsTold(j)
        BY DEF StoreInv
      <3> QED BY <3>1, <3>2 DEF RamAsTold, Counts
    <2> QED BY <2>1, <2>2
  <1>7. ASSUME NEW j \in Keys \ unsaved' PROVE NvsAsTold(j)'
    <2>1. CASE j = k
      <3>1. nvs'[j] = v /\ told'[j] = meant
        BY <1>1, <1>2, <1>4, <1>7, <2>1 DEF StoreTyped
      <3>2. OnBoot(nvs'[j], j) = v
        BY <1>3, <3>1 DEF OnBoot
      <3>3. meant \in 0 .. LongMod - 1 => Counts(j, v) = meant
        BY <1>1, <2>1
      <3> QED BY <3>1, <3>2, <3>3 DEF NvsAsTold, Counts, OnBoot
    <2>2. CASE j # k
      <3>1. nvs'[j] = nvs[j] /\ told'[j] = told[j] /\ j \notin unsaved
        BY <1>1, <1>2, <1>4, <1>7, <2>2 DEF StoreTyped
      <3>2. NvsAsTold(j)
        BY <3>1 DEF StoreInv
      <3> QED BY <3>1, <3>2 DEF NvsAsTold, Counts, OnBoot
    <2> QED BY <2>1, <2>2
  <1> QED BY <1>5, <1>6, <1>7 DEF StoreInv

(* The actions                                                              *)

LEMMA NumbersFit ==
  \A n \in Numbers : n \in Int /\ 2 * n < LongMod
  <1>1. \A m \in Patterns : m \in Int
    BY ConfigAssumption, ConfigConstants
  <1> QED BY <1>1, LongWraps DEF Numbers

LEMMA InitKeeps ==
  Init => StoreInv
  <1> SUFFICES ASSUME Init PROVE StoreInv
    OBVIOUS
  <1>1. /\ ram = Default /\ nvs = [k \in Keys |-> Absent]
        /\ told = [k \in Keys |-> InForce(Default, k)] /\ unsaved = {}
    BY DEF Init
  <1>2. ASSUME NEW k \in Keys
        PROVE  told[k] = Counts(k, Default[k]) /\ told[k] \in Int
    <2>1. told[k] = InForce(Default, k)
      BY <1>1
    <2> QED BY <2>1, CountsAreInForce, CountsInt, DefaultsFit
  <1>3. StoreTyped
    <2>1. told \in [Keys -> Int]
      BY <1>1, <1>2
    <2>2. nvs \in [Keys -> Int]
      BY <1>1 DEF Absent
    <2> QED BY <1>1, <2>1, <2>2, DefaultsFit DEF StoreTyped
  <1>4. ASSUME NEW k \in Keys PROVE RamAsTold(k) /\ NvsAsTold(k)
    <2>1. ram[k] = Default[k] /\ OnBoot(nvs[k], k) = Default[k]
      BY <1>1 DEF OnBoot
    <2> QED BY <1>2, <2>1 DEF RamAsTold, NvsAsTold
  <1> QED BY <1>3, <1>4 DEF StoreInv

LEMMA RestartKeeps ==
  StoreInv /\ Restart => StoreInv'
  <1> SUFFICES ASSUME StoreInv, Restart PROVE StoreInv'
    OBVIOUS
  <1>1. /\ ram' = Loaded /\ nvs' = nvs /\ unsaved' = {}
        /\ told' = [k \in Keys |-> IF k \in unsaved THEN InForce(Loaded, k) ELSE told[k]]
    BY DEF Restart
  <1>2. StoreTyped
    BY DEF StoreInv
  <1>3. ASSUME NEW k \in Keys
        PROVE  /\ ram'[k] = OnBoot(nvs[k], k) /\ ram'[k] \in Range(k)
               /\ told'[k] = IF k \in unsaved THEN Counts(k, OnBoot(nvs[k], k)) ELSE told[k]
               /\ told'[k] \in Int
    <2>1. ram'[k] = OnBoot(nvs[k], k)
      BY <1>1, LoadedIsOnBoot
    <2>2. OnBoot(nvs[k], k) \in Range(k)
      BY <1>2, DefaultsFit DEF StoreTyped, OnBoot
    <2>3. InForce(Loaded, k) = Counts(k, OnBoot(nvs[k], k))
      BY CountsAreInForce, LoadedIsOnBoot
    <2>4. told'[k] = IF k \in unsaved THEN Counts(k, OnBoot(nvs[k], k)) ELSE told[k]
      BY <1>1, <2>3
    <2>5. Counts(k, OnBoot(nvs[k], k)) \in Int
      BY <2>2, CountsInt, RangeInt
    <2>6. told[k] \in Int
      BY <1>2 DEF StoreTyped
    <2> QED BY <2>1, <2>2, <2>4, <2>5, <2>6
  <1>4. StoreTyped'
    <2>1. ram' \in [Keys -> Int]
      BY <1>1, <1>3, RangeInt, LoadedIsOnBoot
    <2>2. told' \in [Keys -> Int]
      BY <1>1, <1>3
    <2>3. nvs' \in [Keys -> Int] /\ \A k \in Keys : nvs'[k] \in Range(k) \cup {Absent}
      BY <1>1, <1>2 DEF StoreTyped
    <2> QED BY <1>1, <1>3, <2>1, <2>2, <2>3 DEF StoreTyped, Range
  <1>5. ASSUME NEW k \in Keys
        PROVE  told'[k] \in 0 .. LongMod - 1 => Counts(k, OnBoot(nvs[k], k)) = told'[k]
    <2>1. CASE k \in unsaved
      BY <1>3, <2>1
    <2>2. CASE k \notin unsaved
      <3>1. NvsAsTold(k)
        BY <2>2 DEF StoreInv
      <3> QED BY <1>3, <2>2, <3>1 DEF NvsAsTold
    <2> QED BY <2>1, <2>2
  <1>6. ASSUME NEW k \in Keys PROVE RamAsTold(k)' /\ NvsAsTold(k)'
    <2>1. RamAsTold(k)'
      BY <1>3, <1>5 DEF RamAsTold, Counts
    <2>2. NvsAsTold(k)'
      BY <1>1, <1>5 DEF NvsAsTold, Counts, OnBoot
    <2> QED BY <2>1, <2>2
  <1> QED BY <1>4, <1>6 DEF StoreInv

LEMMA SetNumberKeeps ==
  StoreInv /\ SetNumber => StoreInv'
  <1> SUFFICES ASSUME StoreInv, SetNumber PROVE StoreInv'
    OBVIOUS
  <1>1. PICK k \in Keys \ ShiftKeys, n \in Numbers :
          Confirm(k, n, IF k \in Durations THEN n * SecondMillis ELSE n)
    BY DEF SetNumber
  <1> DEFINE meant == IF k \in Durations THEN n * SecondMillis ELSE n
  <1>2. n \in Int /\ 2 * n < LongMod
    BY NumbersFit
  <1>3. meant \in Int
    BY <1>2, ConfigConstants
  <1>4. meant \in 0 .. LongMod - 1 => Counts(k, n) = meant
    <2>1. CASE k \in Durations
      <3>1. n = LongMod * 0 + n
        BY <1>2, ConfigConstants
      <3>2. n * SecondMillis \in 0 .. LongMod - 1 => (n * SecondMillis) % LongMod = n * SecondMillis
        BY <1>2, <3>1, MillisMeant
      <3> QED BY <2>1, <3>2 DEF Counts
    <2>2. CASE k \notin Durations
      BY <2>2 DEF Counts
    <2> QED BY <2>1, <2>2
  <1>5. Confirm(k, n, meant)
    BY <1>1
  <1> HIDE DEF meant
  <1> QED BY <1>2, <1>3, <1>4, <1>5, ConfirmKeeps

LEMMA SetShiftHourKeeps ==
  StoreInv /\ SetShiftHour => StoreInv'
  <1> SUFFICES ASSUME StoreInv, SetShiftHour PROVE StoreInv'
    OBVIOUS
  <1>1. PICK k \in Keys \cap ShiftKeys, n \in Numbers : Confirm(k, Long(n * HourMinutes), n * HourMinutes)
    BY DEF SetShiftHour
  <1> DEFINE meant == n * HourMinutes
             v == Long(meant)
  <1>2. meant \in Int
    BY NumbersFit, ConfigConstants
  <1>3. PICK q \in Int : v = LongMod * q + meant
    BY <1>2, LongWraps
  <1>4. v \in Int /\ 2 * v < LongMod
    BY <1>2, LongWraps
  <1>5. Confirm(k, v, meant)
    BY <1>1
  <1> HIDE DEF v, meant
  <1>6. meant \in 0 .. LongMod - 1 /\ InRange(k, v) => Counts(k, v) = meant
    <2>1. InRange(k, v) => v >= 0 /\ v < MinutesPerDay
      BY KeysInUse DEF InRange
    <2>2. Counts(k, v) = v
      BY KeysInUse DEF Counts
    <2> QED BY <1>3, <1>4, <2>1, <2>2, MinutesMeant
  <1> QED BY <1>2, <1>4, <1>5, <1>6, ConfirmKeeps

LEMMA SetShiftTimeKeeps ==
  StoreInv /\ SetShiftTime => StoreInv'
  <1> SUFFICES ASSUME StoreInv, SetShiftTime PROVE StoreInv'
    OBVIOUS
  <1>1. PICK k \in Keys \cap ShiftKeys, hh \in Numbers, mm \in Numbers :
          Confirm(k, Long(Long(hh * HourMinutes) + mm), hh * HourMinutes + mm)
    BY DEF SetShiftTime
  <1> DEFINE hours == hh * HourMinutes
             meant == hours + mm
             sum == Long(hours) + mm
             v == Long(sum)
  <1>2. hours \in Int /\ mm \in Int
    BY NumbersFit, ConfigConstants
  <1>3. PICK q \in Int : Long(hours) = LongMod * q + hours
    BY <1>2, LongWraps
  <1>4. sum \in Int /\ meant \in Int
    BY <1>2, LongWraps
  <1>5. PICK p \in Int : v = LongMod * p + sum
    BY <1>4, LongWraps
  <1>6. v \in Int /\ 2 * v < LongMod
    BY <1>4, LongWraps
  <1>7. LongMod * (p + q) = LongMod * p + LongMod * q /\ LongMod * p \in Int /\ LongMod * q \in Int
    BY ConfigConstants
  <1>8. sum = LongMod * q + meant
    BY <1>2, <1>3, <1>7
  <1>9. Confirm(k, v, meant)
    BY <1>1
  <1> HIDE DEF v, sum, meant
  <1>10. v = LongMod * (p + q) + meant /\ p + q \in Int
    BY <1>4, <1>5, <1>7, <1>8
  <1>11. meant \in 0 .. LongMod - 1 /\ InRange(k, v) => Counts(k, v) = meant
    <2>1. InRange(k, v) => v >= 0 /\ v < MinutesPerDay
      BY KeysInUse DEF InRange
    <2>2. Counts(k, v) = v
      BY KeysInUse DEF Counts
    <2> QED BY <1>6, <1>10, <2>1, <2>2, MinutesMeant
  <1> QED BY <1>4, <1>6, <1>9, <1>11, ConfirmKeeps

LEMMA ScanTokenKeeps ==
  StoreInv /\ ScanToken => StoreInv'
  <1> SUFFICES ASSUME StoreInv, ScanToken PROVE StoreInv'
    OBVIOUS
  <1>1. PICK k \in Keys \ ShiftKeys, n \in Numbers :
          IF k \in Durations
            THEN Confirm(k, Long(n * MinuteSeconds), n * MinuteSeconds * SecondMillis)
            ELSE Confirm(k, n, n)
    BY DEF ScanToken
  <1>2. n \in Int /\ 2 * n < LongMod
    BY NumbersFit
  <1>3. CASE k \in Durations
    <2> DEFINE s == n * MinuteSeconds
               meant == s * SecondMillis
               v == Long(s)
    <2>1. s \in Int
      BY <1>2, ConfigConstants
    <2>2. meant \in Int
      BY <2>1, ConfigConstants
    <2>3. PICK q \in Int : v = LongMod * q + s
      BY <2>1, LongWraps
    <2>4. v \in Int /\ 2 * v < LongMod
      BY <2>1, LongWraps
    <2>5. Confirm(k, v, meant)
      BY <1>1, <1>3
    <2> HIDE DEF v, s
    <2>6. meant \in 0 .. LongMod - 1 => (v * SecondMillis) % LongMod = meant
      BY <2>1, <2>3, <2>4, MillisMeant
    <2>7. meant \in 0 .. LongMod - 1 => Counts(k, v) = meant
      BY <1>3, <2>6 DEF Counts
    <2> HIDE DEF meant
    <2> QED BY <2>2, <2>4, <2>5, <2>7, ConfirmKeeps
  <1>4. CASE k \notin Durations
    <2>1. Counts(k, n) = n /\ Confirm(k, n, n)
      BY <1>1, <1>4 DEF Counts
    <2> QED BY <1>2, <2>1, ConfirmKeeps
  <1> QED BY <1>3, <1>4

LEMMA ResetConfigKeeps ==
  StoreInv /\ ResetConfig => StoreInv'
  <1> SUFFICES ASSUME StoreInv, ResetConfig PROVE StoreInv'
    OBVIOUS
  <1>1. ram' = Default /\ told' = [k \in Keys |-> InForce(Default, k)]
    BY DEF ResetConfig
  <1>2. \/ nvs' = [k \in Keys |-> Absent] /\ unsaved' = {}
        \/ unsaved' = Keys /\ nvs' = nvs
    BY DEF ResetConfig
  <1>3. StoreTyped
    BY DEF StoreInv
  <1>4. ASSUME NEW k \in Keys
        PROVE  told'[k] = Counts(k, Default[k]) /\ told'[k] \in Int
    <2>1. told'[k] = InForce(Default, k)
      BY <1>1
    <2> QED BY <2>1, CountsAreInForce, CountsInt, DefaultsFit
  <1>5. StoreTyped'
    <2>1. told' \in [Keys -> Int]
      BY <1>1, <1>4
    <2>2. nvs' \in [Keys -> Int] /\ \A k \in Keys : nvs'[k] \in Range(k) \cup {Absent}
      BY <1>2, <1>3 DEF StoreTyped, Absent
    <2>3. ram' \in [Keys -> Int] /\ \A k \in Keys : ram'[k] \in Range(k)
      BY <1>1, DefaultsFit
    <2>4. unsaved' \subseteq Keys
      BY <1>2
    <2> QED BY <2>1, <2>2, <2>3, <2>4 DEF StoreTyped, Range
  <1>6. ASSUME NEW k \in Keys PROVE RamAsTold(k)'
    BY <1>1, <1>4 DEF RamAsTold, Counts
  <1>7. ASSUME NEW k \in Keys \ unsaved' PROVE NvsAsTold(k)'
    <2>1. nvs'[k] = Absent
      BY <1>2, <1>7
    <2> QED BY <1>4, <2>1 DEF NvsAsTold, Counts, OnBoot
  <1> QED BY <1>5, <1>6, <1>7 DEF StoreInv

LEMMA StillKeeps ==
  ASSUME StoreInv, UNCHANGED <<ram, nvs, told, unsaved>>
  PROVE  StoreInv'
  <1>1. ram' = ram /\ nvs' = nvs /\ told' = told /\ unsaved' = unsaved
    OBVIOUS
  <1> QED BY <1>1 DEF StoreInv, StoreTyped, RamAsTold, NvsAsTold, Counts, OnBoot, Range

LEMMA StoreInductive ==
  StoreInv /\ [Next]_vars => StoreInv'
  <1> SUFFICES ASSUME StoreInv, [Next]_vars PROVE StoreInv'
    OBVIOUS
  <1>1. CASE LoopShowsCavity
    BY <1>1, StillKeeps DEF LoopShowsCavity
  <1>2. CASE UNCHANGED vars
    BY <1>2, StillKeeps DEF vars
  <1> QED BY <1>1, <1>2, RestartKeeps, SetNumberKeeps, SetShiftHourKeeps, SetShiftTimeKeeps,
             ScanTokenKeeps, ResetConfigKeeps DEF Next

-----------------------------------------------------------------------------
(* The theorems                                                             *)

(* The settings are typed, in force as confirmed, and saved as confirmed     *)
(* unless NVS refused them.                                                  *)
THEOREM StoreInvariant == Spec => []StoreInv
  <1> QED BY InitKeeps, StoreInductive, PTL DEF Spec

(* What setconfig, a config barcode or resetconfig confirmed is what loop()  *)
(* works with, also after restarts, unless NVS refused it before a restart   *)
(* or it is too large for its milliseconds to fit the width.                 *)
THEOREM SettingsHold == Spec => []ConfirmedSettingsHold
  <1>1. StoreInv => ConfirmedSettingsHold
    BY CountsAreInForce DEF StoreInv, ConfirmedSettingsHold, RamAsTold
  <1> QED BY <1>1, StoreInvariant, PTL

(* Whatever is typed or scanned fits its variable, and the display shows a   *)
(* count that can be configured.                                             *)
THEOREM TypeCorrect == Spec => []TypeOK
  <1> DEFINE shown == mold_cavity \in {Blank} \cup 1 .. CavityMax /\ last_cavity_sent \in 1 .. CavityMax
  <1>1. Init => shown
    BY ConfigConstants DEF Init
  <1>2. ASSUME StoreInv', shown, [Next]_vars PROVE shown'
    <2>1. "cavity" \in Keys => ram'["cavity"] \in 1 .. CavityMax
      BY <1>2, KeysInUse DEF StoreInv, StoreTyped, Range
    <2>2. CavityMax \in 1 .. CavityMax
      BY ConfigConstants
    <2>3. ASSUME NEW k \in Keys, NEW v, NEW meant, Confirm(k, v, meant) PROVE shown'
      BY <1>2, <2>1, <2>3 DEF Confirm, ShowCavity
    <2>4. CASE SetNumber
      BY <2>3, <2>4 DEF SetNumber
    <2>5. CASE SetShiftHour
      BY <2>3, <2>5 DEF SetShiftHour
    <2>6. CASE SetShiftTime
      BY <2>3, <2>6 DEF SetShiftTime
    <2>7. CASE ScanToken
      BY <2>3, <2>7 DEF ScanToken
    <2>8. CASE Restart
      BY <2>2, <2>8 DEF Restart
    <2>9. CASE ResetConfig
      <3>1. "cavity" \in Keys => Default["cavity"] \in 1 .. CavityMax
        BY <2>1, <2>9 DEF ResetConfig
      <3> QED BY <1>2, <2>9, <3>1 DEF ResetConfig
    <2>10. CASE LoopShowsCavity
      <3>1. ram' = ram /\ mold_cavity' = ram["cavity"] /\ last_cavity_sent' = ram["cavity"]
            /\ "cavity" \in Keys
        BY <2>10 DEF LoopShowsCavity
      <3> QED BY <2>1, <3>1
    <2>11. CASE UNCHANGED vars
      BY <1>2, <2>11 DEF vars
    <2> QED BY <1>2, <2>4, <2>5, <2>6, <2>7, <2>8, <2>9, <2>10, <2>11 DEF Next
  <1>3. StoreInv /\ shown => TypeOK
    BY DEF StoreInv, StoreTyped, TypeOK
  <1> HIDE DEF shown
  <1> QED BY <1>1, <1>2, <1>3, StoreInvariant, PTL DEF Spec
=============================================================================
