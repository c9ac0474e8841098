---------------------------- MODULE LlmGateProofs ----------------------------
(***************************************************************************)
(* What holds of the gate for every set of callers, every choice of        *)
(* capacities and whichever functions heed their signal.                   *)
(***************************************************************************)
EXTENDS LlmGate, FiniteSetTheorems, TLAPS

-----------------------------------------------------------------------------
(* Lines *)

LEMMA Appended ==
  ASSUME NEW S, NEW s \in Seq(S), NEW x \in S
  PROVE  /\ Append(s, x) \in Seq(S)
         /\ Members(Append(s, x)) = Members(s) \cup {x}
         /\ Append(s, x) # <<>>
         /\ Injective(s) /\ x \notin Members(s) => Injective(Append(s, x))
<1> DEFINE t == Append(s, x)
<1>1. /\ Len(s) \in Nat /\ DOMAIN s = 1 .. Len(s) /\ DOMAIN t = 1 .. Len(s) + 1
      /\ t \in Seq(S) /\ Len(t) = Len(s) + 1
      /\ t[Len(s) + 1] = x /\ \A i \in 1 .. Len(s) : t[i] = s[i]
  BY SMT
<1> HIDE DEF t
<1>2. Members(t) = Members(s) \cup {x}
  <2>1. Members(t) \subseteq Members(s) \cup {x}
    <3> SUFFICES ASSUME NEW i \in 1 .. Len(s) + 1, t[i] # x
                 PROVE  t[i] \in Members(s)
      BY <1>1, Zenon DEF Members
    <3>1. i \in 1 .. Len(s) /\ t[i] = s[i]
      BY <1>1, SMT
    <3> QED
      BY <3>1, <1>1, Zenon DEF Members
  <2>2. x \in Members(t)
    <3>1. Len(s) + 1 \in 1 .. Len(s) + 1
      BY <1>1, SMT
    <3> QED
      BY <3>1, <1>1, Zenon DEF Members
  <2>3. ASSUME NEW i \in 1 .. Len(s)
        PROVE  s[i] \in Members(t)
    <3>1. i \in 1 .. Len(s) + 1 /\ t[i] = s[i]
      BY <1>1, SMT
    <3> QED
      BY <3>1, <1>1, Zenon DEF Members
  <2> QED
    BY <2>1, <2>2, <2>3, <1>1, Zenon DEF Members
<1>3. t # <<>>
  BY <1>1, SMT
<1>4. ASSUME Injective(s), x \notin Members(s)
      PROVE  Injective(t)
  <2>1. \A i \in 1 .. Len(s) : s[i] # x
    BY <1>1, <1>4, Zenon DEF Members
  <2> QED
    BY <1>1, <1>4, <2>1, SMT DEF Injective
<1> QED
  BY <1>1, <1>2, <1>3, <1>4 DEF t

LEMMA HeadAndTail ==
  ASSUME NEW S, NEW s \in Seq(S), s # <<>>
  PROVE  /\ Tail(s) \in Seq(S) /\ Head(s) \in S
         /\ Members(s) = {Head(s)} \cup Members(Tail(s))
         /\ Injective(s) => Injective(Tail(s)) /\ Head(s) \notin Members(Tail(s))
<1> DEFINE t == Tail(s)
           h == Head(s)
<1>1. /\ Len(s) \in Nat /\ Len(s) > 0
      /\ DOMAIN s = 1 .. Len(s) /\ DOMAIN t = 1 .. Len(s) - 1
      /\ h = s[1] /\ \A i \in 1 .. Len(s) - 1 : t[i] = s[i + 1]
      /\ t \in Seq(S) /\ h \in S
  BY SMT
<1> HIDE DEF t, h
<1>2. ASSUME NEW i \in 1 .. Len(s), s[i] # h
      PROVE  s[i] \in Members(t)
  <2>1. i - 1 \in 1 .. Len(s) - 1 /\ t[i - 1] = s[i]
    BY <1>1, <1>2, SMT
  <2> QED
    BY <2>1, <1>1, Zenon DEF Members
<1>3. ASSUME NEW i \in 1 .. Len(s) - 1
      PROVE  t[i] \in Members(s)
  <2>1. i + 1 \in 1 .. Len(s) /\ t[i] = s[i + 1]
    BY <1>1, SMT
  <2> QED
    BY <2>1, <1>1, Zenon DEF Members
<1>4. h \in Members(s)
  <2>1. 1 \in 1 .. Len(s)
    BY <1>1, SMT
  <2> QED
    BY <2>1, <1>1, Zenon DEF Members
<1>5. Members(s) = {h} \cup Members(t)
  BY <1>1, <1>2, <1>3, <1>4, ZenonT(40) DEF Members
<1>6. ASSUME Injective(s)
      PROVE  Injective(t) /\ h \notin Members(t)
  <2>1. Injective(t)
    BY <1>1, <1>6, SMTT(40) DEF Injective
  <2>2. \A i \in 1 .. Len(s) - 1 : t[i] # h
    BY <1>1, <1>6, SMT DEF Injective
  <2> QED
    BY <1>1, <2>1, <2>2, Zenon DEF Members
<1> QED
  BY <1>1, <1>5, <1>6 DEF t, h

LEMMA TakenOut ==
  ASSUME NEW S, NEW s \in Seq(S), NEW i \in DOMAIN s, Injective(s)
  PROVE  /\ Without(s, i) \in Seq(S)
         /\ Members(Without(s, i)) = Members(s) \ {s[i]}
         /\ Injective(Without(s, i))
<1> DEFINE w == Without(s, i)
<1>1. /\ Len(s) \in Nat /\ DOMAIN s = 1 .. Len(s) /\ i \in 1 .. Len(s)
      /\ w \in Seq(S) /\ DOMAIN w = 1 .. Len(s) - 1
      /\ \A j \in 1 .. Len(s) - 1 : w[j] = IF j < i THEN s[j] ELSE s[j + 1]
  BY SMT DEF Without
<1> HIDE DEF w
<1>2. Members(w) \subseteq Members(s) \ {s[i]}
  <2> SUFFICES ASSUME NEW j \in 1 .. Len(s) - 1
               PROVE  \E k \in 1 .. Len(s) : w[j] = s[k] /\ s[k] # s[i]
    BY <1>1, Zenon DEF Members
  <2>1. CASE j < i
    <3>1. j \in 1 .. Len(s) /\ w[j] = s[j] /\ j # i
      BY <2>1, <1>1, SMT
    <3> QED
      BY <3>1, <1>1, Zenon DEF Injective
  <2>2. CASE ~(j < i)
    <3>1. j + 1 \in 1 .. Len(s) /\ w[j] = s[j + 1] /\ j + 1 # i
      BY <2>2, <1>1, SMT
    <3> QED
      BY <3>1, <1>1, Zenon DEF Injective
  <2> QED
    BY <2>1, <2>2
<1>3. ASSUME NEW j \in 1 .. Len(s), j # i
      PROVE  s[j] \in Members(w)
  <2>1. CASE j < i
    <3>1. j \in 1 .. Len(s) - 1 /\ w[j] = s[j]
      BY <2>1, <1>1, SMT
    <3> QED
      BY <3>1, <1>1, Zenon DEF Members
  <2>2. CASE j > i
    <3>1. j - 1 \in 1 .. Len(s) - 1 /\ w[j - 1] = s[j]
      BY <2>2, <1>1, SMT
    <3> QED
      BY <3>1, <1>1, Zenon DEF Members
  <2> QED
    BY <2>1, <2>2, <1>1, <1>3, SMT
<1>4. Members(s) \ {s[i]} \subseteq Members(w)
  <2> SUFFICES ASSUME NEW x \in Members(s), x # s[i]
               PROVE  x \in Members(w)
    OBVIOUS
  <2>1. PICK j \in 1 .. Len(s) : x = s[j]
    BY <1>1, Zenon DEF Members
  <2> QED
    BY <2>1, <1>3, Zenon
<1>5. Injective(w)
  <2>1. \A j, k \in 1 .. Len(s) : s[j] = s[k] => j = k
    BY <1>1, Zenon DEF Injective
  <2>2. ASSUME NEW j \in 1 .. Len(s) - 1, NEW k \in 1 .. Len(s) - 1, w[j] = w[k]
        PROVE  j = k
    <3> DEFINE p == IF j < i THEN j ELSE j + 1
               q == IF k < i THEN k ELSE k + 1
    <3>1. p \in 1 .. Len(s) /\ q \in 1 .. Len(s) /\ (p = q => j = k)
      BY <1>1, SMT
    <3>2. w[j] = s[p] /\ w[k] = s[q]
      BY <1>1
    <3> HIDE DEF p, q
    <3> QED
      BY <2>1, <2>2, <3>1, <3>2, Zenon
  <2> QED
    BY <1>1, <2>2, Zenon DEF Injective
<1> QED
  BY <1>1, <1>2, <1>4, <1>5, Zenon DEF w

-----------------------------------------------------------------------------
(* Slots *)

LEMMA HowMany ==
  ASSUME NEW A \in SUBSET Caller, NEW c \in Caller
  PROVE  /\ Cardinality(A) \in Nat
         /\ c \notin A => Cardinality(A \cup {c}) = Cardinality(A) + 1
         /\ c \in A => Cardinality(A \ {c}) = Cardinality(A) - 1
<1>1. IsFiniteSet(A)
  BY LlmGateAssumption, FS_Subset
<1> QED
  BY <1>1, FS_CardinalityType, FS_AddElement, FS_RemoveElement

LEMMA NobodyIn == Cardinality({}) = 0
BY FS_EmptySet

\* With grants that are not taken up the counter is below the capacity.
LEMMA Admits ==
  ASSUME GateInvariant, granted # <<>>
  PROVE  /\ inFlight < capacity
         /\ Head(granted) \in owners \ inside
<1> DEFINE h == Head(granted)
<1>1. h \in Members(granted) /\ h \in Caller
  <2>1. granted \in Seq(Caller)
    BY DEF GateInvariant, TypeOK
  <2> QED
    BY <2>1, HeadAndTail, ZenonT(40)
<1>2. h \in owners \ inside
  BY <1>1, Zenon DEF GateInvariant, SlotsAreHeld, OnePlace
<1>3. /\ inside \subseteq owners \ {h} /\ owners \in SUBSET Caller
      /\ owners \ {h} \in SUBSET Caller
  BY <1>2, Zenon DEF GateInvariant, SlotsAreHeld, TypeOK
<1>4. IsFiniteSet(owners \ {h})
  BY <1>3, LlmGateAssumption, FS_Subset
<1>5. Cardinality(inside) <= Cardinality(owners \ {h})
  BY <1>3, <1>4, FS_Subset
<1>6. Cardinality(owners \ {h}) = Cardinality(owners) - 1 /\ Cardinality(owners) \in Nat
  BY <1>1, <1>2, <1>3, HowMany, Zenon
<1>7. Cardinality(inside) \in Nat
  BY HowMany, <1>1, Zenon DEF GateInvariant, TypeOK
<1>8. inFlight = Cardinality(inside) /\ Cardinality(owners) <= capacity /\ capacity \in Nat
  BY DEF GateInvariant, Counts, TypeOK
<1>9. inFlight < capacity
  BY <1>5, <1>6, <1>7, <1>8, SMT
<1> QED
  BY <1>2, <1>9 DEF h

\* What a promotion does, when the slots that are held are those of rest and of
\* the callers that stay inside.
LEMMA Promoted ==
  ASSUME TypeOK, waiters # <<>>, Injective(waiters), Members(waiters) \subseteq open,
         NEW held \in SUBSET owners, Members(waiters) \cap owners = {},
         NEW rest \in Seq(Caller), Injective(rest), Members(rest) \subseteq held,
         Promote(held, rest)
  PROVE  LET h == Head(waiters) IN
         /\ h \in Caller /\ h \in open /\ h \notin owners
         /\ owners' = held \cup {h}
         /\ granted' = Append(rest, h) /\ granted' \in Seq(Caller) /\ granted' # <<>>
         /\ Members(granted') = Members(rest) \cup {h} /\ Injective(granted')
         /\ waiters' = Tail(waiters) /\ waiters' \in Seq(Caller)
         /\ Members(waiters') = Members(waiters) \ {h} /\ Injective(waiters')
<1> DEFINE h == Head(waiters)
<1>1. /\ h \in Caller /\ Tail(waiters) \in Seq(Caller)
      /\ Members(waiters) = {h} \cup Members(Tail(waiters))
      /\ Injective(Tail(waiters)) /\ h \notin Members(Tail(waiters))
  BY HeadAndTail, Zenon DEF TypeOK
<1>2. h \in open /\ h \notin owners /\ h \notin Members(rest)
  BY <1>1, Zenon
<1>3. owners' = held \cup {h} /\ granted' = Append(rest, h) /\ waiters' = Tail(waiters)
  BY <1>2, Zenon DEF Promote
<1>4. /\ Append(rest, h) \in Seq(Caller) /\ Append(rest, h) # <<>>
      /\ Members(Append(rest, h)) = Members(rest) \cup {h} /\ Injective(Append(rest, h))
  <2> HIDE DEF h
  <2> QED
    BY <1>1, <1>2, Appended, SMT
<1>5. Members(Tail(waiters)) = Members(waiters) \ {h}
  BY <1>1, Zenon
<1> HIDE DEF h
<1> QED
  BY <1>1, <1>2, <1>3, <1>4, <1>5, Zenon DEF h

-----------------------------------------------------------------------------
(* A caller leaves *)

LEMMA LeaveKeeps ==
  ASSUME GateInvariant, NEW c \in inside, ~resizing, Leave(c),
         capacity' = capacity, resizing' = resizing
  PROVE  /\ inside' = inside \ {c} /\ open' = open \ {c}
         /\ owners' \subseteq Caller /\ inFlight' \in Nat
         /\ waiters' \in Seq(Caller) /\ granted' \in Seq(Caller)
         /\ SlotsAreHeld' /\ OnePlace' /\ Counts' /\ NoIdleSlot'
<1> DEFINE held == owners \ {c}
           h == Head(waiters)
<1>1. /\ inside' = inside \ {c} /\ open' = open \ {c} /\ inFlight' = inFlight - 1
      /\ Release(c, granted)
  BY Zenon DEF Leave
<1>2. /\ TypeOK /\ SlotsAreHeld /\ OnePlace /\ Counts /\ NoIdleSlot
      /\ c \in Caller /\ c \in owners /\ held \in SUBSET Caller /\ held \in SUBSET owners
      /\ Members(granted) \subseteq held /\ inside \in SUBSET Caller /\ owners \in SUBSET Caller
  BY Zenon DEF GateInvariant, TypeOK, SlotsAreHeld, OnePlace
<1>3. /\ Cardinality(owners) \in Nat /\ Cardinality(held) = Cardinality(owners) - 1
      /\ Cardinality(inside) \in Nat /\ Cardinality(inside \ {c}) = Cardinality(inside) - 1
      /\ Cardinality(inside \ {c}) \in Nat
  <2>1. inside \ {c} \in SUBSET Caller
    BY <1>2
  <2> QED
    BY <1>2, <2>1, HowMany, Zenon
<1>4. inFlight' \in Nat /\ inFlight' = Cardinality(inside')
  BY <1>1, <1>2, <1>3, SMT DEF Counts
<1>5. CASE HandsOn(held)
  <2>1. Promote(held, granted) /\ waiters # <<>> /\ Cardinality(held) < capacity
    BY <1>1, <1>5, Zenon DEF Release, HandsOn, Room
  <2>2. /\ h \in Caller /\ h \in open /\ h \notin owners
        /\ owners' = held \cup {h}
        /\ granted' \in Seq(Caller)
        /\ Members(granted') = Members(granted) \cup {h} /\ Injective(granted')
        /\ waiters' \in Seq(Caller)
        /\ Members(waiters') = Members(waiters) \ {h} /\ Injective(waiters')
    <3>1. granted \in Seq(Caller) /\ Injective(granted) /\ Injective(waiters)
          /\ Members(waiters) \subseteq open /\ Members(waiters) \cap owners = {}
      BY <1>2, Zenon DEF TypeOK, OnePlace
    <3> HIDE DEF held
    <3> QED
      BY <1>2, <2>1, <3>1, Promoted, Zenon
  <2> HIDE DEF h
  <2>3. owners' \subseteq Caller /\ SlotsAreHeld'
    BY <1>1, <1>2, <2>2, Zenon DEF SlotsAreHeld
  <2>4. OnePlace'
    BY <1>1, <1>2, <2>2, ZenonT(40) DEF OnePlace, SlotsAreHeld
  <2>5. Cardinality(owners') = Cardinality(held) + 1
    <3>1. h \notin held
      BY <2>2, Zenon
    <3> QED
      BY <1>2, <2>2, <3>1, HowMany, Zenon
  <2>6. Counts'
    BY <1>2, <1>3, <1>4, <2>1, <2>5, SMT DEF Counts, TypeOK
  <2>7. NoIdleSlot'
    BY <1>2, <1>3, <2>1, <2>5, SMT DEF NoIdleSlot, TypeOK
  <2> QED
    BY <1>1, <1>4, <2>2, <2>3, <2>4, <2>6, <2>7, Zenon
<1>6. CASE ~HandsOn(held)
  <2>1. owners' = held /\ granted' = granted /\ waiters' = waiters
    BY <1>1, <1>6, Zenon DEF Release
  <2>2. SlotsAreHeld' /\ OnePlace'
    BY <1>1, <1>2, <2>1, Zenon DEF SlotsAreHeld, OnePlace
  <2>3. Counts'
    BY <1>2, <1>3, <1>4, <2>1, SMT DEF Counts, TypeOK
  <2>4. waiters = <<>> \/ Cardinality(held) >= capacity
    BY <1>2, <1>3, <1>6, SMT DEF HandsOn, Room, TypeOK
  <2>5. NoIdleSlot'
    BY <2>1, <2>4, Zenon DEF NoIdleSlot
  <2> QED
    BY <1>1, <1>2, <1>4, <2>1, <2>2, <2>3, <2>5, Zenon DEF TypeOK
<1> QED
  BY <1>5, <1>6

-----------------------------------------------------------------------------
(* The invariant is kept *)

LEMMA Started == Init => GateInvariant
<1> SUFFICES ASSUME Init PROVE GateInvariant
  OBVIOUS
<1>1. /\ capacity = 1 /\ owners = {} /\ inside = {} /\ inFlight = 0 /\ open = {}
      /\ upstream = {} /\ told = {} /\ resizing = FALSE
      /\ DOMAIN waiters = {} /\ DOMAIN granted = {}
      /\ waiters \in Seq(Caller) /\ granted \in Seq(Caller)
      /\ waiters = <<>> /\ granted = <<>>
  BY SMT DEF Init
<1>2. Members(waiters) = {} /\ Members(granted) = {}
  BY <1>1, Zenon DEF Members
<1>3. TypeOK
  <2>1. 1 \in Nat \ {0} /\ 0 \in Nat
    BY SMT
  <2> QED
    BY <1>1, <2>1, Zenon DEF TypeOK
<1>4. SlotsAreHeld /\ OnePlace /\ NoIdleSlot /\ InsideRuns /\ OutsidersAreTold
  BY <1>1, <1>2, Zenon DEF SlotsAreHeld, OnePlace, Injective, NoIdleSlot, InsideRuns, OutsidersAreTold
<1>5. Counts
  BY <1>1, NobodyIn, Zenon DEF Counts
<1> QED
  BY <1>3, <1>4, <1>5 DEF GateInvariant

LEMMA AcquireKeeps ==
  ASSUME GateInvariant, NEW c \in Caller, Acquire(c)
  PROVE  GateInvariant'
<1>1. /\ TypeOK /\ SlotsAreHeld /\ OnePlace /\ Counts /\ NoIdleSlot /\ InsideRuns /\ OutsidersAreTold
      /\ waiters \in Seq(Caller) /\ granted \in Seq(Caller)
      /\ owners \in SUBSET Caller /\ inside \in SUBSET Caller
      /\ Injective(waiters) /\ Injective(granted)
      /\ capacity \in Nat
  BY SMT DEF GateInvariant, TypeOK, OnePlace
<1>2. /\ c \notin open /\ ~resizing /\ open' = open \cup {c}
      /\ capacity' = capacity /\ inside' = inside /\ inFlight' = inFlight
      /\ upstream' = upstream /\ told' = told /\ resizing' = resizing
  BY Zenon DEF Acquire
<1>3. c \notin owners /\ c \notin inside /\ c \notin Members(granted) /\ c \notin Members(waiters)
  BY <1>1, <1>2, Zenon DEF SlotsAreHeld, OnePlace
<1>4. InsideRuns' /\ OutsidersAreTold'
  BY <1>1, <1>2, Zenon DEF InsideRuns, OutsidersAreTold
<1>5. Cardinality(owners) \in Nat /\ Cardinality(owners \cup {c}) = Cardinality(owners) + 1
  BY <1>1, <1>3, HowMany, Zenon
<1>6. CASE Room(owners)
  <2>1. owners' = owners \cup {c} /\ granted' = Append(granted, c) /\ waiters' = waiters
    BY <1>6, Zenon DEF Acquire
  <2>2. /\ granted' \in Seq(Caller) /\ Members(granted') = Members(granted) \cup {c}
        /\ Injective(granted')
    BY <1>1, <1>3, <2>1, Appended, SMT
  <2>3. waiters = <<>>
    BY <1>1, <1>2, <1>5, <1>6, SMT DEF NoIdleSlot, Room
  <2>4. TypeOK'
    BY <1>1, <1>2, <2>1, <2>2, Zenon DEF TypeOK
  <2>5. SlotsAreHeld'
    BY <1>1, <1>2, <2>1, <2>2, Zenon DEF SlotsAreHeld
  <2>6. OnePlace'
    BY <1>1, <1>2, <1>3, <2>1, <2>2, Zenon DEF OnePlace
  <2>7. Cardinality(owners') <= capacity'
    BY <1>1, <1>2, <1>5, <1>6, <2>1, SMT DEF Room
  <2>8. Counts' /\ NoIdleSlot'
    BY <1>1, <1>2, <2>1, <2>3, <2>7, Zenon DEF Counts, NoIdleSlot
  <2> QED
    BY <1>4, <2>4, <2>5, <2>6, <2>8, Zenon DEF GateInvariant
<1>7. CASE ~Room(owners)
  <2>1. waiters' = Append(waiters, c) /\ owners' = owners /\ granted' = granted
    BY <1>7, Zenon DEF Acquire, Joined
  <2>2. /\ waiters' \in Seq(Caller) /\ Members(waiters') = Members(waiters) \cup {c}
        /\ Injective(waiters')
    BY <1>1, <1>3, <2>1, Appended, SMT
  <2>3. Cardinality(owners) >= capacity
    BY <1>1, <1>5, <1>7, SMT DEF Room
  <2>4. TypeOK'
    BY <1>1, <1>2, <2>1, <2>2, Zenon DEF TypeOK
  <2>5. SlotsAreHeld' /\ OnePlace'
    BY <1>1, <1>2, <1>3, <2>1, <2>2, Zenon DEF SlotsAreHeld, OnePlace
  <2>6. Counts' /\ NoIdleSlot'
    BY <1>1, <1>2, <2>1, <2>3, Zenon DEF Counts, NoIdleSlot
  <2> QED
    BY <1>4, <2>4, <2>5, <2>6, Zenon DEF GateInvariant
<1> QED
  BY <1>6, <1>7

LEMMA EnterKeeps ==
  ASSUME GateInvariant, Enter
  PROVE  GateInvariant'
<1> DEFINE c == Head(granted)
<1>1. /\ TypeOK /\ SlotsAreHeld /\ OnePlace /\ Counts /\ NoIdleSlot /\ InsideRuns /\ OutsidersAreTold
      /\ granted \in Seq(Caller) /\ granted # <<>> /\ inside \in SUBSET Caller
      /\ Injective(granted) /\ inFlight \in Nat
  BY Zenon DEF GateInvariant, TypeOK, OnePlace, Enter
<1>2. inFlight < capacity /\ c \in owners /\ c \notin inside
  BY <1>1, Admits, Zenon
<1>3. /\ Tail(granted) \in Seq(Caller) /\ c \in Caller
      /\ Members(granted) = {c} \cup Members(Tail(granted))
      /\ Injective(Tail(granted)) /\ c \notin Members(Tail(granted))
  BY <1>1, HeadAndTail, Zenon
<1>4. /\ inside' = inside \cup {c} /\ inFlight' = inFlight + 1
      /\ upstream' = upstream \cup {c} /\ granted' = Tail(granted)
      /\ owners' = owners /\ waiters' = waiters /\ open' = open
      /\ capacity' = capacity /\ told' = told /\ resizing' = resizing
  BY <1>2, Zenon DEF Enter, Counted
<1> HIDE DEF c
<1>5. inFlight' \in Nat
  BY <1>1, <1>4, SMT
<1>6. TypeOK'
  BY <1>1, <1>3, <1>4, <1>5, Zenon DEF TypeOK
<1>7. SlotsAreHeld'
  BY <1>1, <1>3, <1>4, Zenon DEF SlotsAreHeld
<1>8. OnePlace'
  BY <1>1, <1>3, <1>4, Zenon DEF OnePlace
<1>9. Cardinality(inside \cup {c}) = Cardinality(inside) + 1
  BY <1>1, <1>2, <1>3, HowMany, Zenon
<1>10. Counts'
  BY <1>1, <1>4, <1>9, SMT DEF Counts
<1>11. NoIdleSlot' /\ InsideRuns' /\ OutsidersAreTold'
  BY <1>1, <1>4, Zenon DEF NoIdleSlot, InsideRuns, OutsidersAreTold
<1> QED
  BY <1>6, <1>7, <1>8, <1>10, <1>11, Zenon DEF GateInvariant

\* A caller that leaves, whatever its function did.
LEMMA GoneKeeps ==
  ASSUME GateInvariant, NEW c \in inside, ~resizing, Leave(c),
         capacity' = capacity, resizing' = resizing,
         upstream' \subseteq upstream, upstream \ upstream' \subseteq {c},
         told' \subseteq upstream', told \ {c} \subseteq told',
         c \in upstream' => c \in told' /\ c \in Deaf
  PROVE  GateInvariant'
<1>1. /\ inside' = inside \ {c} /\ open' = open \ {c}
      /\ owners' \subseteq Caller /\ inFlight' \in Nat
      /\ waiters' \in Seq(Caller) /\ granted' \in Seq(Caller)
      /\ SlotsAreHeld' /\ OnePlace' /\ Counts' /\ NoIdleSlot'
  BY LeaveKeeps, Zenon
<1>2. TypeOK /\ InsideRuns /\ OutsidersAreTold
  BY Zenon DEF GateInvariant
<1>3. TypeOK'
  BY <1>1, <1>2, Zenon DEF TypeOK
<1>4. InsideRuns' /\ OutsidersAreTold'
  BY <1>1, <1>2, Zenon DEF InsideRuns, OutsidersAreTold
<1> QED
  BY <1>1, <1>3, <1>4, Zenon DEF GateInvariant

LEMMA AnswerKeeps ==
  ASSUME GateInvariant, NEW c \in Caller, Answer(c)
  PROVE  GateInvariant'
<1>1. /\ ~resizing /\ c \in upstream /\ upstream' = upstream \ {c} /\ told' = told \ {c}
      /\ capacity' = capacity /\ resizing' = resizing
      /\ IF c \in inside THEN Leave(c) ELSE UNCHANGED <<owners, waiters, granted, inside, inFlight, open>>
  BY Zenon DEF Answer
<1>2. told \subseteq upstream
  BY Zenon DEF GateInvariant, TypeOK
<1>3. CASE c \in inside
  BY <1>1, <1>2, <1>3, GoneKeeps, Zenon
<1>4. CASE c \notin inside
  <2>1. UNCHANGED <<owners, waiters, granted, inside, inFlight, open>>
    BY <1>1, <1>4, Zenon
  <2>2. TypeOK'
    BY <1>1, <2>1, Zenon DEF GateInvariant, TypeOK
  <2>3. SlotsAreHeld' /\ OnePlace' /\ Counts' /\ NoIdleSlot'
    BY <1>1, <2>1, Zenon DEF GateInvariant, SlotsAreHeld, OnePlace, Counts, NoIdleSlot
  <2>4. InsideRuns' /\ OutsidersAreTold'
    BY <1>1, <1>4, <2>1, Zenon DEF GateInvariant, InsideRuns, OutsidersAreTold
  <2> QED
    BY <2>2, <2>3, <2>4, Zenon DEF GateInvariant
<1> QED
  BY <1>3, <1>4

LEMMA CapKeeps ==
  ASSUME GateInvariant, NEW c \in Caller, Cap(c)
  PROVE  GateInvariant'
<1>1. /\ ~resizing /\ c \in inside /\ Leave(c) /\ capacity' = capacity /\ resizing' = resizing
      /\ upstream' = upstream \ ({c} \ Deaf) /\ told' = (told \cup {c}) \ ({c} \ Deaf)
  BY Zenon DEF Cap, Told
<1>2. told \subseteq upstream /\ inside \subseteq upstream
  BY Zenon DEF GateInvariant, TypeOK, InsideRuns
<1>3. /\ upstream' \subseteq upstream /\ upstream \ upstream' \subseteq {c}
      /\ told' \subseteq upstream' /\ told \ {c} \subseteq told'
      /\ c \in upstream' => c \in told' /\ c \in Deaf
  BY <1>1, <1>2, Zenon
<1> QED
  BY <1>1, <1>3, GoneKeeps, Zenon

LEMMA AbortWaitingKeeps ==
  ASSUME GateInvariant, NEW c \in Caller, AbortWaiting(c)
  PROVE  GateInvariant'
<1>1. /\ TypeOK /\ SlotsAreHeld /\ OnePlace /\ waiters \in Seq(Caller) /\ Injective(waiters)
      /\ Members(waiters) \subseteq open \ owners
  BY Zenon DEF GateInvariant, TypeOK, OnePlace
<1>2. /\ open' = open \ {c} /\ ~resizing
      /\ UNCHANGED <<capacity, owners, granted, inside, inFlight, upstream, told, resizing>>
  BY Zenon DEF AbortWaiting
<1>3. PICK i \in DOMAIN waiters : waiters[i] = c /\ waiters' = Without(waiters, i)
  BY Zenon DEF AbortWaiting, Spliced
<1>4. /\ waiters' \in Seq(Caller) /\ Members(waiters') = Members(waiters) \ {c}
      /\ Injective(waiters')
  BY <1>1, <1>3, TakenOut, SMT
<1>5. c \in Members(waiters) /\ waiters # <<>>
  <2>1. waiters = <<>> => DOMAIN waiters = {}
    BY SMT
  <2> QED
    BY <1>3, <2>1, Zenon DEF Members
<1>6. TypeOK'
  BY <1>1, <1>2, <1>4, Zenon DEF TypeOK
<1>7. SlotsAreHeld' /\ OnePlace'
  BY <1>1, <1>2, <1>4, <1>5, Zenon DEF SlotsAreHeld, OnePlace
<1>8. Counts' /\ InsideRuns' /\ OutsidersAreTold'
  BY <1>2, Zenon DEF GateInvariant, Counts, InsideRuns, OutsidersAreTold
<1>9. NoIdleSlot'
  BY <1>2, <1>5, Zenon DEF GateInvariant, NoIdleSlot
<1> QED
  BY <1>6, <1>7, <1>8, <1>9, Zenon DEF GateInvariant

LEMMA AbortInsideKeeps ==
  ASSUME GateInvariant, NEW c \in Caller, AbortInside(c)
  PROVE  GateInvariant'
<1>1. /\ c \in inside /\ told' = told \cup {c}
      /\ UNCHANGED <<capacity, owners, waiters, granted, inside, inFlight, open, upstream, resizing>>
  BY Zenon DEF AbortInside
<1>2. TypeOK' /\ InsideRuns' /\ OutsidersAreTold'
  BY <1>1, Zenon DEF GateInvariant, TypeOK, InsideRuns, OutsidersAreTold
<1>3. SlotsAreHeld' /\ OnePlace' /\ Counts' /\ NoIdleSlot'
  BY <1>1, Zenon DEF GateInvariant, SlotsAreHeld, OnePlace, Counts, NoIdleSlot
<1> QED
  BY <1>2, <1>3, Zenon DEF GateInvariant

LEMMA SetCapacityKeeps ==
  ASSUME GateInvariant, NEW n \in Capacities, SetCapacity(n)
  PROVE  GateInvariant'
<1>1. /\ granted = <<>> /\ capacity' = n /\ resizing' = TRUE
      /\ UNCHANGED <<owners, waiters, granted, inside, inFlight, open, upstream, told>>
  BY Zenon DEF SetCapacity, Resizing
<1>2. n \in Nat \ {0}
  BY LlmGateAssumption, Zenon
<1>3. TypeOK' /\ InsideRuns' /\ OutsidersAreTold'
  BY <1>1, <1>2, Zenon DEF GateInvariant, TypeOK, InsideRuns, OutsidersAreTold
<1>4. SlotsAreHeld' /\ OnePlace' /\ Counts' /\ NoIdleSlot'
  BY <1>1, Zenon DEF GateInvariant, SlotsAreHeld, OnePlace, Counts, NoIdleSlot
<1> QED
  BY <1>3, <1>4, Zenon DEF GateInvariant

LEMMA ResizeKeeps ==
  ASSUME GateInvariant, Resize
  PROVE  GateInvariant'
<1> DEFINE h == Head(waiters)
<1>1. /\ TypeOK /\ SlotsAreHeld /\ OnePlace /\ Counts
      /\ resizing /\ UNCHANGED <<capacity, inside, inFlight, open, upstream, told>>
      /\ owners \in SUBSET Caller /\ capacity \in Nat
  BY SMT DEF GateInvariant, TypeOK, Resize
<1>2. InsideRuns' /\ OutsidersAreTold'
  BY <1>1, Zenon DEF GateInvariant, InsideRuns, OutsidersAreTold
<1>3. CASE HandsOn(owners)
  <2>1. /\ Promote(owners, granted) /\ resizing' = resizing
        /\ waiters # <<>> /\ Cardinality(owners) < capacity
    BY <1>3, Zenon DEF Resize, HandsOn, Room
  <2>2. /\ h \in Caller /\ h \in open /\ h \notin owners
        /\ owners' = owners \cup {h}
        /\ granted' \in Seq(Caller)
        /\ Members(granted') = Members(granted) \cup {h} /\ Injective(granted')
        /\ waiters' \in Seq(Caller)
        /\ Members(waiters') = Members(waiters) \ {h} /\ Injective(waiters')
    <3>1. granted \in Seq(Caller) /\ Injective(granted) /\ Injective(waiters)
          /\ Members(waiters) \subseteq open /\ Members(waiters) \cap owners = {}
          /\ Members(granted) \subseteq owners /\ owners \in SUBSET owners
      BY <1>1, Zenon DEF TypeOK, OnePlace, SlotsAreHeld
    <3> QED
      BY <1>1, <2>1, <3>1, Promoted, Zenon
  <2> HIDE DEF h
  <2>3. TypeOK'
    BY <1>1, <2>1, <2>2, Zenon DEF TypeOK
  <2>4. SlotsAreHeld'
    BY <1>1, <2>2, Zenon DEF SlotsAreHeld
  <2>5. OnePlace'
    BY <1>1, <2>2, Zenon DEF OnePlace, SlotsAreHeld
  <2>6. Cardinality(owners) \in Nat /\ Cardinality(owners') = Cardinality(owners) + 1
    BY <1>1, <2>2, HowMany, Zenon
  <2>7. Counts'
    BY <1>1, <2>1, <2>6, SMT DEF Counts
  <2>8. NoIdleSlot'
    BY <1>1, <2>1, Zenon DEF NoIdleSlot
  <2> QED
    BY <1>2, <2>3, <2>4, <2>5, <2>7, <2>8, Zenon DEF GateInvariant
<1>4. CASE ~HandsOn(owners)
  <2>1. resizing' = FALSE /\ UNCHANGED <<owners, waiters, granted>>
    BY <1>4, Zenon DEF Resize
  <2>2. Cardinality(owners) \in Nat
    BY <1>1, FS_Subset, FS_CardinalityType, LlmGateAssumption
  <2>3. NoIdleSlot'
    BY <1>1, <1>4, <2>1, <2>2, SMT DEF NoIdleSlot, HandsOn, Room
  <2>4. TypeOK' /\ SlotsAreHeld' /\ OnePlace' /\ Counts'
    BY <1>1, <2>1, Zenon DEF TypeOK, SlotsAreHeld, OnePlace, Counts
  <2> QED
    BY <1>2, <2>3, <2>4, Zenon DEF GateInvariant
<1> QED
  BY <1>3, <1>4

LEMMA StepKeeps == GateInvariant /\ [Next]_vars => GateInvariant'
<1> SUFFICES ASSUME GateInvariant, [Next]_vars PROVE GateInvariant'
  OBVIOUS
<1>1. ASSUME NEW c \in Caller, Acquire(c) \/ Answer(c) \/ Cap(c) \/ AbortWaiting(c) \/ AbortInside(c)
      PROVE  GateInvariant'
  BY <1>1, AcquireKeeps, AnswerKeeps, CapKeeps, AbortWaitingKeeps, AbortInsideKeeps, Zenon
<1>2. CASE Enter
  BY <1>2, EnterKeeps, Zenon
<1>3. ASSUME NEW n \in Capacities, SetCapacity(n)
      PROVE  GateInvariant'
  BY <1>3, SetCapacityKeeps, Zenon
<1>4. CASE Resize
  BY <1>4, ResizeKeeps, Zenon
<1>5. CASE UNCHANGED vars
  BY <1>5, Zenon DEF vars, GateInvariant, TypeOK, SlotsAreHeld, OnePlace, Counts, NoIdleSlot,
                     InsideRuns, OutsidersAreTold
<1> QED
  BY <1>1, <1>2, <1>3, <1>4, <1>5, Zenon DEF Next

\* The gate's invariant, of acquire, run, release and setCapacity: a slot is
\* held by a run that will give it back, a caller has one place, the counter of
\* the entry check counts, and nobody waits beside a free slot.
THEOREM GateHolds == Spec => []GateInvariant
<1>1. Init => GateInvariant
  BY Started
<1>2. GateInvariant /\ [Next]_vars => GateInvariant'
  BY StepKeeps
<1> QED
  BY <1>1, <1>2, PTL DEF Spec

\* The state of the gate keeps its types.
THEOREM GateTypes == Spec => []TypeOK
<1>1. GateInvariant => TypeOK
  BY DEF GateInvariant
<1> QED
  BY <1>1, GateHolds, PTL

\* No slot leaks: each is held by a call in progress that will release it.
THEOREM SlotsStayHeld == Spec => []SlotsAreHeld
<1>1. GateInvariant => SlotsAreHeld
  BY DEF GateInvariant
<1> QED
  BY <1>1, GateHolds, PTL

\* No caller is left in the line beside a free slot.
THEOREM SlotsAreUsed == Spec => []NoIdleSlot
<1>1. GateInvariant => NoIdleSlot
  BY DEF GateInvariant
<1> QED
  BY <1>1, GateHolds, PTL

\* The error the entry check of run throws is never thrown.
THEOREM NobodyRefused == Spec => []EntryAdmitted
<1>1. GateInvariant => EntryAdmitted
  BY Admits DEF EntryAdmitted
<1> QED
  BY <1>1, GateHolds, PTL

\* What runs outside the gate was told to stop and ignores its signal.
THEOREM OutsidersTold == Spec => []OutsidersAreTold
<1>1. GateInvariant => OutsidersAreTold
  BY DEF GateInvariant
<1> QED
  BY <1>1, GateHolds, PTL

-----------------------------------------------------------------------------
(* The gate keeps the line *)

LEMMA SameSequence ==
  ASSUME NEW S, NEW s \in Seq(S), NEW t \in Seq(S), Len(s) = Len(t),
         \A i \in 1 .. Len(s) : s[i] = t[i]
  PROVE  s = t
BY SMT

LEMMA LineMembers ==
  ASSUME NEW S, NEW g \in Seq(S), NEW w \in Seq(S)
  PROVE  Members(g \o w) = Members(g) \cup Members(w)
<1> DEFINE l == g \o w
<1>1. /\ Len(g) \in Nat /\ Len(w) \in Nat
      /\ DOMAIN g = 1 .. Len(g) /\ DOMAIN w = 1 .. Len(w) /\ DOMAIN l = 1 .. Len(g) + Len(w)
      /\ l \in Seq(S) /\ Len(l) = Len(g) + Len(w)
      /\ \A i \in 1 .. Len(g) + Len(w) : l[i] = IF i <= Len(g) THEN g[i] ELSE w[i - Len(g)]
  BY SMT
<1>2. ASSUME NEW i \in 1 .. Len(g) + Len(w)
      PROVE  l[i] \in Members(g) \cup Members(w)
  <2>1. CASE i <= Len(g)
    <3>1. i \in 1 .. Len(g) /\ l[i] = g[i]
      BY <1>1, <2>1, SMT
    <3> QED
      BY <3>1, <1>1, Zenon DEF Members
  <2>2. CASE ~(i <= Len(g))
    <3>1. i - Len(g) \in 1 .. Len(w) /\ l[i] = w[i - Len(g)]
      BY <1>1, <2>2, SMT
    <3> QED
      BY <3>1, <1>1, Zenon DEF Members
  <2> QED
    BY <2>1, <2>2
<1> HIDE DEF l
<1>3. ASSUME NEW i \in 1 .. Len(g)
      PROVE  g[i] \in Members(l)
  <2>1. i \in 1 .. Len(g) + Len(w) /\ g[i] = l[i]
    BY <1>1, SMT
  <2> QED
    BY <2>1, <1>1, Zenon DEF Members
<1>4. ASSUME NEW i \in 1 .. Len(w)
      PROVE  w[i] \in Members(l)
  <2>1. Len(g) + i \in 1 .. Len(g) + Len(w) /\ ~(Len(g) + i <= Len(g)) /\ (Len(g) + i) - Len(g) = i
    BY <1>1, SMT
  <2>2. l[Len(g) + i] = w[i]
    BY <2>1, <1>1, Zenon
  <2> QED
    BY <2>1, <2>2, <1>1, Zenon DEF Members
<1>5. Members(l) = Members(g) \cup Members(w)
  <2>1. Members(l) \subseteq Members(g) \cup Members(w)
    BY <1>1, <1>2, Zenon DEF Members
  <2>2. Members(g) \subseteq Members(l) /\ Members(w) \subseteq Members(l)
    BY <1>1, <1>3, <1>4, Zenon DEF Members
  <2> QED
    BY <2>1, <2>2, Zenon
<1> QED
  BY <1>5 DEF l

LEMMA OneLine ==
  ASSUME NEW S, NEW g \in Seq(S), NEW w \in Seq(S)
  PROVE  /\ g \o w \in Seq(S)
         /\ \A x \in S : Append(g \o w, x) = g \o Append(w, x)
         /\ g # <<>> => /\ g \o w # <<>>
                        /\ Head(g \o w) = Head(g) /\ Tail(g \o w) = Tail(g) \o w
         /\ w # <<>> => Append(g, Head(w)) \o Tail(w) = g \o w
<1> DEFINE l == g \o w
<1>1. /\ Len(g) \in Nat /\ Len(w) \in Nat
      /\ DOMAIN g = 1 .. Len(g) /\ DOMAIN w = 1 .. Len(w) /\ DOMAIN l = 1 .. Len(g) + Len(w)
      /\ l \in Seq(S) /\ Len(l) = Len(g) + Len(w)
      /\ \A i \in 1 .. Len(g) + Len(w) : l[i] = IF i <= Len(g) THEN g[i] ELSE w[i - Len(g)]
  BY SMT
<1>2. ASSUME NEW x \in S
      PROVE  Append(l, x) = g \o Append(w, x)
  <2>1. /\ Append(l, x) \in Seq(S) /\ g \o Append(w, x) \in Seq(S)
        /\ Len(Append(l, x)) = Len(g) + Len(w) + 1 /\ Len(g \o Append(w, x)) = Len(g) + Len(w) + 1
        /\ \A i \in 1 .. Len(g) + Len(w) + 1 : Append(l, x)[i] = (g \o Append(w, x))[i]
    BY <1>1, SMT
  <2> QED
    BY <2>1, SameSequence, SMT
<1>3. ASSUME g # <<>>
      PROVE  l # <<>> /\ Head(l) = Head(g) /\ Tail(l) = Tail(g) \o w
  <2>1. /\ Len(g) > 0 /\ l # <<>> /\ Head(l) = Head(g)
        /\ Tail(l) \in Seq(S) /\ Tail(g) \o w \in Seq(S)
        /\ Len(Tail(l)) = Len(g) + Len(w) - 1 /\ Len(Tail(g) \o w) = Len(g) + Len(w) - 1
        /\ \A i \in 1 .. Len(g) + Len(w) - 1 : Tail(l)[i] = (Tail(g) \o w)[i]
    BY <1>1, <1>3, SMT
  <2> QED
    BY <2>1, SameSequence, SMT
<1>4. ASSUME w # <<>>
      PROVE  Append(g, Head(w)) \o Tail(w) = l
  <2>1. /\ Len(w) > 0 /\ Head(w) \in S /\ Append(g, Head(w)) \in Seq(S) /\ Tail(w) \in Seq(S)
        /\ Append(g, Head(w)) \o Tail(w) \in Seq(S)
        /\ Len(Append(g, Head(w)) \o Tail(w)) = Len(g) + Len(w)
        /\ \A i \in 1 .. Len(g) + Len(w) : (Append(g, Head(w)) \o Tail(w))[i] = l[i]
    BY <1>1, <1>4, SMT
  <2> QED
    BY <2>1, <1>1, SameSequence, SMT
<1> HIDE DEF l
<1> QED
  BY <1>1, <1>2, <1>3, <1>4, Zenon DEF l

LEMMA LineAppended ==
  ASSUME NEW g \in Seq(Caller), NEW w \in Seq(Caller), NEW x \in Caller
  PROVE  Append(g \o w, x) = g \o Append(w, x)
BY OneLine, SMT

LEMMA SameCount == \A A \in SUBSET Caller : Line!Cardinality(A) = Cardinality(A)
BY Zenon DEF Cardinality, Line!Cardinality

LEMMA GivenUp ==
  ASSUME NEW S, NEW g \in Seq(S), NEW w \in Seq(S), NEW i \in DOMAIN w
  PROVE  /\ Len(g) + i \in DOMAIN (g \o w)
         /\ g \o Without(w, i) = Without(g \o w, Len(g) + i)
<1> DEFINE l == g \o w
           k == Len(g) + i
           u == Without(w, i)
           v == Without(l, k)
<1>1. /\ i \in 1 .. Len(w) /\ k \in 1 .. Len(l) /\ k \in Nat
      /\ l \in Seq(S) /\ Len(l) = Len(g) + Len(w) /\ DOMAIN l = 1 .. Len(l)
      /\ \A j \in 1 .. Len(l) : l[j] = IF j <= Len(g) THEN g[j] ELSE w[j - Len(g)]
  BY SMT
<1>2. /\ u \in Seq(S) /\ Len(u) = Len(w) - 1
      /\ \A j \in 1 .. Len(u) : u[j] = IF j < i THEN w[j] ELSE w[j + 1]
  BY <1>1, SMT DEF Without
<1> HIDE DEF l, u
<1>3. /\ v \in Seq(S) /\ Len(v) = Len(l) - 1
      /\ \A j \in 1 .. Len(v) : v[j] = IF j < k THEN l[j] ELSE l[j + 1]
  BY <1>1, SMT DEF Without
<1>4. k = Len(g) + i
  OBVIOUS
<1> HIDE DEF v, k
<1>5. /\ Len(g) \in Nat /\ Len(w) \in Nat /\ Len(u) \in Nat /\ Len(v) \in Nat
      /\ g \o u \in Seq(S) /\ Len(g \o u) = Len(v)
      /\ \A j \in 1 .. Len(v) : (g \o u)[j] = IF j <= Len(g) THEN g[j] ELSE u[j - Len(g)]
  BY <1>1, <1>2, <1>3, SMT
<1>6. ASSUME NEW j \in 1 .. Len(v)
      PROVE  (g \o u)[j] = v[j]
  <2>1. CASE j <= Len(g)
    <3>1. j \in 1 .. Len(l) /\ j < k
      BY <1>1, <1>2, <1>3, <1>4, <1>5, <2>1, SMT
    <3> QED
      BY <1>1, <1>2, <1>3, <1>4, <1>5, <2>1, <3>1, Zenon
  <2>2. CASE ~(j <= Len(g)) /\ j < k
    <3>1. j \in 1 .. Len(l) /\ j - Len(g) \in 1 .. Len(u) /\ j - Len(g) < i
      BY <1>1, <1>2, <1>3, <1>4, <1>5, <2>2, SMT
    <3> QED
      BY <1>1, <1>2, <1>3, <1>4, <1>5, <2>2, <3>1, Zenon
  <2>3. CASE ~(j < k)
    <3>1. /\ j + 1 \in 1 .. Len(l) /\ ~(j + 1 <= Len(g)) /\ ~(j <= Len(g))
          /\ j - Len(g) \in 1 .. Len(u) /\ ~(j - Len(g) < i)
          /\ (j + 1) - Len(g) = (j - Len(g)) + 1
      BY <1>1, <1>2, <1>3, <1>4, <1>5, <2>3, SMT
    <3>2. v[j] = w[(j + 1) - Len(g)] /\ (g \o u)[j] = w[(j - Len(g)) + 1]
      BY <1>1, <1>2, <1>3, <1>4, <1>5, <2>3, <3>1, Zenon
    <3> QED
      BY <3>1, <3>2, Zenon
  <2> QED
    BY <2>1, <2>2, <2>3
<1> DEFINE gu == g \o u
<1>7. gu \in Seq(S) /\ Len(gu) = Len(v) /\ \A j \in 1 .. Len(gu) : gu[j] = v[j]
  BY <1>5, <1>6, Zenon
<1> HIDE DEF gu
<1>8. gu = v
  BY <1>3, <1>7, SameSequence, Zenon
<1>9. k \in DOMAIN l
  BY <1>1, Zenon
<1> QED
  BY <1>8, <1>9 DEF gu, l, u, v, k

\* What a promotion and a release do to the line: nothing.
LEMMA PromotionKeepsLine ==
  ASSUME TypeOK, waiters # <<>>, Head(waiters) \in open, NEW held, NEW rest \in Seq(Caller),
         Promote(held, rest)
  PROVE  granted' \o waiters' = rest \o waiters
<1>1. granted' = Append(rest, Head(waiters)) /\ waiters' = Tail(waiters)
  BY Zenon DEF Promote
<1>2. waiters \in Seq(Caller)
  BY DEF TypeOK
<1>3. Append(rest, Head(waiters)) \o Tail(waiters) = rest \o waiters
  BY <1>2, OneLine, SMT
<1> QED
  BY <1>1, <1>3

LEMMA LeaveExits ==
  ASSUME GateInvariant, NEW c \in inside, Leave(c), capacity' = capacity
  PROVE  Line!Exit(c)
<1>1. /\ TypeOK /\ granted \in Seq(Caller) /\ waiters \in Seq(Caller)
      /\ Members(waiters) \subseteq open
      /\ inside' = inside \ {c} /\ Release(c, granted)
  BY Zenon DEF GateInvariant, TypeOK, OnePlace, Leave
<1>2. granted' \o waiters' = granted \o waiters
  <2>1. CASE HandsOn(owners \ {c})
    <3>1. Promote(owners \ {c}, granted) /\ waiters # <<>>
      BY <1>1, <2>1, Zenon DEF Release, HandsOn
    <3>2. Head(waiters) \in open
      <4>1. Head(waiters) \in Members(waiters)
        BY <1>1, <3>1, HeadAndTail, ZenonT(40)
      <4> QED
        BY <1>1, <4>1, Zenon
    <3> QED
      BY <1>1, <3>1, <3>2, PromotionKeepsLine, Zenon
  <2>2. CASE ~HandsOn(owners \ {c})
    BY <1>1, <2>2, Zenon DEF Release
  <2> QED
    BY <2>1, <2>2
<1> QED
  BY <1>1, <1>2, Zenon DEF Line!Exit

LEMMA AcquireJoins ==
  ASSUME GateInvariant, NEW c \in Caller, Acquire(c)
  PROVE  Line!Join(c)
<1>1. /\ TypeOK /\ granted \in Seq(Caller) /\ waiters \in Seq(Caller)
      /\ capacity \in Nat /\ owners \in SUBSET Caller
      /\ c \notin open /\ ~resizing
      /\ inside' = inside /\ capacity' = capacity
  BY SMT DEF GateInvariant, TypeOK, Acquire
<1>2. c \notin Members(granted) /\ c \notin Members(waiters) /\ c \notin inside
  BY <1>1, Zenon DEF GateInvariant, SlotsAreHeld, OnePlace
<1> DEFINE g == granted
           w == waiters
<1>3. Members(g \o w) = Members(g) \cup Members(w) /\ Append(g \o w, c) = g \o Append(w, c)
  <2>1. g \in Seq(Caller) /\ w \in Seq(Caller) /\ c \in Caller
    BY <1>1
  <2> HIDE DEF g, w
  <2>2. Members(g \o w) = Members(g) \cup Members(w)
    BY <2>1, LineMembers, Zenon
  <2>3. Append(g \o w, c) = g \o Append(w, c)
    BY <2>1, LineAppended, Zenon
  <2> QED
    BY <2>2, <2>3
<1>4. c \notin Line!Standing \cup inside
  BY <1>2, <1>3, Zenon DEF Line!Standing, Members
<1>5. Append(granted \o waiters, c) = granted \o Append(waiters, c)
  BY <1>3
<1>6. granted' \o waiters' = Append(granted \o waiters, c)
  <2>1. CASE Room(owners)
    <3>1. granted' = Append(granted, c) /\ waiters' = waiters
      BY <2>1, Zenon DEF Acquire
    <3>2. Cardinality(owners) \in Nat
      BY <1>1, HowMany, Zenon
    <3>3. waiters = <<>>
      BY <1>1, <2>1, <3>2, SMT DEF GateInvariant, NoIdleSlot, Room
    <3>4. Append(granted, c) \o <<>> = Append(granted \o <<>>, c)
      <4>1. granted \o <<>> = granted /\ Append(granted, c) \o <<>> = Append(granted, c)
        BY <1>1, SMT
      <4> QED
        BY <4>1
    <3> QED
      BY <3>1, <3>3, <3>4
  <2>2. CASE ~Room(owners)
    BY <1>5, <2>2, Zenon DEF Acquire, Joined
  <2> QED
    BY <2>1, <2>2
<1> QED
  BY <1>1, <1>4, <1>6, Zenon DEF Line!Join

LEMMA EnterLetsIn ==
  ASSUME GateInvariant, Enter
  PROVE  Line!LetIn
<1>1. /\ granted \in Seq(Caller) /\ waiters \in Seq(Caller) /\ granted # <<>>
      /\ capacity' = capacity /\ Counts
  BY Zenon DEF GateInvariant, TypeOK, Enter
<1>2. inFlight < capacity
  BY <1>1, Admits, Zenon
<1>3. inside' = inside \cup {Head(granted)} /\ granted' = Tail(granted) /\ waiters' = waiters
  BY <1>2, Zenon DEF Enter
<1>4. /\ granted \o waiters # <<>> /\ Head(granted \o waiters) = Head(granted)
      /\ Tail(granted \o waiters) = Tail(granted) \o waiters
  BY <1>1, OneLine, SMT
<1>5. Cardinality(inside) < capacity /\ Line!Cardinality(inside) = Cardinality(inside)
  BY <1>1, <1>2, SameCount DEF Counts, GateInvariant, TypeOK
<1>6. Line!Cardinality(inside) < capacity
  BY <1>5
<1> QED
  BY <1>1, <1>3, <1>4, <1>6 DEF Line!LetIn

LEMMA AbortGivesUp ==
  ASSUME GateInvariant, NEW c \in Caller, AbortWaiting(c)
  PROVE  Line!GiveUp
<1>1. /\ granted \in Seq(Caller) /\ waiters \in Seq(Caller)
      /\ granted' = granted /\ inside' = inside /\ capacity' = capacity
  BY Zenon DEF GateInvariant, TypeOK, AbortWaiting
<1>2. PICK i \in DOMAIN waiters : waiters' = Without(waiters, i)
  BY Zenon DEF AbortWaiting, Spliced
<1> DEFINE g == granted
           w == waiters
<1>3. /\ Len(g) + i \in DOMAIN (g \o w)
      /\ g \o Without(w, i) = Without(g \o w, Len(g) + i)
  <2>1. g \in Seq(Caller) /\ w \in Seq(Caller) /\ i \in DOMAIN w
    BY <1>1
  <2> HIDE DEF g, w
  <2> QED
    BY <2>1, GivenUp, Zenon
<1>4. \E j \in DOMAIN (granted \o waiters) :
        granted' \o waiters' = Without(granted \o waiters, j)
  BY <1>1, <1>2, <1>3, Zenon
<1> QED
  BY <1>1, <1>4, Zenon DEF Line!GiveUp, Line!Without, Without

LEMMA ResizeStutters ==
  ASSUME GateInvariant, Resize
  PROVE  UNCHANGED Line!lineVars
<1>1. /\ TypeOK /\ granted \in Seq(Caller) /\ waiters \in Seq(Caller)
      /\ Members(waiters) \subseteq open
      /\ inside' = inside /\ capacity' = capacity
  BY Zenon DEF GateInvariant, TypeOK, OnePlace, Resize
<1>2. granted' \o waiters' = granted \o waiters
  <2>1. CASE HandsOn(owners)
    <3>1. Promote(owners, granted) /\ waiters # <<>>
      BY <2>1, Zenon DEF Resize, HandsOn
    <3>2. Head(waiters) \in open
      <4>1. Head(waiters) \in Members(waiters)
        BY <1>1, <3>1, HeadAndTail, Zenon
      <4> QED
        BY <1>1, <4>1, Zenon
    <3> QED
      BY <1>1, <3>1, <3>2, PromotionKeepsLine, Zenon
  <2>2. CASE ~HandsOn(owners)
    BY <2>2, Zenon DEF Resize
  <2> QED
    BY <2>1, <2>2
<1> QED
  BY <1>1, <1>2, Zenon DEF Line!lineVars

LEMMA StepKeepsLine == GateInvariant /\ [Next]_vars => [Line!Next]_(Line!lineVars)
<1> SUFFICES ASSUME GateInvariant, [Next]_vars PROVE [Line!Next]_(Line!lineVars)
  OBVIOUS
<1>1. ASSUME NEW c \in Caller, Acquire(c)
      PROVE  Line!Next
  BY <1>1, AcquireJoins, Zenon DEF Line!Next
<1>2. ASSUME NEW c \in Caller, Answer(c)
      PROVE  [Line!Next]_(Line!lineVars)
  <2>1. CASE c \in inside
    <3>1. Leave(c) /\ capacity' = capacity
      BY <1>2, <2>1, Zenon DEF Answer
    <3> QED
      BY <2>1, <3>1, LeaveExits, Zenon DEF Line!Next
  <2>2. CASE c \notin inside
    BY <1>2, <2>2, Zenon DEF Answer, Line!lineVars
  <2> QED
    BY <2>1, <2>2
<1>3. ASSUME NEW c \in Caller, Cap(c)
      PROVE  Line!Next
  <2>1. c \in inside /\ Leave(c) /\ capacity' = capacity
    BY <1>3, Zenon DEF Cap
  <2> QED
    BY <2>1, LeaveExits, Zenon DEF Line!Next
<1>4. ASSUME NEW c \in Caller, AbortWaiting(c)
      PROVE  Line!Next
  BY <1>4, AbortGivesUp, Zenon DEF Line!Next
<1>5. ASSUME NEW c \in Caller, AbortInside(c)
      PROVE  UNCHANGED Line!lineVars
  BY <1>5, Zenon DEF AbortInside, Line!lineVars
<1>6. CASE Enter
  BY <1>6, EnterLetsIn, Zenon DEF Line!Next
<1>7. ASSUME NEW n \in Capacities, SetCapacity(n)
      PROVE  Line!Next
  BY <1>7, Zenon DEF SetCapacity, Line!Next, Line!Resize
<1>8. CASE Resize
  BY <1>8, ResizeStutters
<1>9. CASE UNCHANGED vars
  BY <1>9, Zenon DEF vars, Line!lineVars
<1> QED
  BY <1>1, <1>2, <1>3, <1>4, <1>5, <1>6, <1>7, <1>8, <1>9, Zenon DEF Next

\* The gate implements the line: calls are let in from the front, in the order
\* they came, and never above the capacity.
THEOREM GateKeepsLine == Spec => KeepsTheLine
<1>1. Init => Line!Init
  <2>1. <<>> \o <<>> = <<>>
    BY SMT
  <2> QED
    BY <2>1 DEF Init, Line!Init
<1>2. GateInvariant /\ [Next]_vars => [Line!Next]_(Line!lineVars)
  BY StepKeepsLine
<1> QED
  BY <1>1, <1>2, GateHolds, PTL DEF Spec, KeepsTheLine, Line!Spec

=============================================================================
