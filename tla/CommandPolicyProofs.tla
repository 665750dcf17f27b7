------------------------- MODULE CommandPolicyProofs -------------------------
(***************************************************************************)
(* A command runs without an approval exactly if it changes nothing. What  *)
(* is composed consists of options with their values, up to what is passed *)
(* through; the walk descends to the entry of its subcommand and sees      *)
(* every option of the last region, where the entry knows exactly the      *)
(* options that make the command harmless.                                 *)
(***************************************************************************)
EXTENDS VerdictProofs

-----------------------------------------------------------------------------
(* The walk over a region. *)

\* Options and their values, and nothing else.
Paired(tokens) ==
  \A n \in DOMAIN tokens :
    /\ tokens[n] \in Valued <=> n + 1 \in DOMAIN tokens /\ tokens[n + 1] \notin Options
    /\ n = 1 => tokens[n] \in Options

\* Every value is one that its option allows.
FitsAt(tokens, n, flags, catalog) ==
  tokens[n] \in flags \cap Valued => Fits(tokens[n + 1], Allowed(tokens[n], catalog))
Fitting(tokens, flags, catalog) == \A n \in DOMAIN tokens : FitsAt(tokens, n, flags, catalog)

\* The states of a walk.
Places == [optional : BOOLEAN, repeated : BOOLEAN]
WalkStates == [next : Nat, ok : BOOLEAN, triggered : BOOLEAN, matched : BOOLEAN, left : Seq(Places)]
WalkStart(positionals, triggered) ==
  [next |-> 1, ok |-> TRUE, triggered |-> triggered, matched |-> FALSE, left |-> positionals]
Walks(at, tokens, flags, positionals, triggered, catalog) ==
  /\ at[0] = WalkStart(positionals, triggered)
  /\ \A n \in 1..Len(tokens) : at[n] = Consume(at[n - 1], n, tokens, flags, catalog)
  /\ \A n \in 0..Len(tokens) : at[n] \in WalkStates
WalkVerdict(end, base) ==
  LET missing == {n \in DOMAIN end.left : ~end.left[n].optional /\ ~(end.left[n].repeated /\ end.matched)}
  IN  IF ~end.ok \/ missing # {} THEN Rejected ELSE IF end.triggered THEN "read_only" ELSE base

\* What one token does to the state, in its four cases.
TakesValue(token, n, tokens, flags) ==
  IF token \in flags THEN token \in Valued ELSE n < Len(tokens) /\ ~IsOption(tokens[n + 1])
ConsumeCases(s, t, n, tokens, flags, catalog) ==
  LET token == tokens[n]
      taken == TakesValue(token, n, tokens, flags)
  IN  /\ n < s.next => t = s
      /\ n >= s.next /\ IsOption(token) =>
           /\ t.next = (IF taken THEN n + 2 ELSE n + 1) /\ t.left = s.left /\ t.matched = s.matched
           /\ t.ok <=> s.ok /\ (token \in flags /\ taken => n < Len(tokens) /\ Fits(tokens[n + 1], Allowed(token, catalog)))
           /\ t.triggered <=> s.triggered \/ (token \in flags /\ token \in Triggers)
      /\ n >= s.next /\ ~IsOption(token) =>
           /\ t.next = s.next /\ (t.triggered <=> s.triggered)

\* One step of a walk, case by case, keeps the state of the walk well-formed.
LEMMA ConsumeIs ==
  ASSUME NEW s \in WalkStates, NEW n \in Nat, NEW tokens, NEW flags, NEW catalog
  PROVE  /\ Consume(s, n, tokens, flags, catalog) \in WalkStates
         /\ ConsumeCases(s, Consume(s, n, tokens, flags, catalog), n, tokens, flags, catalog)
<1> DEFINE token == tokens[n]
           known == token \in flags
           value == n < Len(tokens)
           taken == TakesValue(token, n, tokens, flags)
           fits == known /\ taken => value /\ Fits(tokens[n + 1], Allowed(token, catalog))
           trigger == known /\ token \in Triggers
           option == [s EXCEPT !.next = IF taken THEN n + 2 ELSE n + 1, !.ok = @ /\ fits, !.triggered = @ \/ trigger]
           stopped == [s EXCEPT !.ok = FALSE]
           placed == [s EXCEPT !.matched = Head(s.left).repeated,
                               !.left = IF Head(@).repeated THEN @ ELSE Tail(@)]
           t == Consume(s, n, tokens, flags, catalog)
<1>0. s.next \in Nat /\ s.ok \in BOOLEAN /\ s.triggered \in BOOLEAN /\ s.matched \in BOOLEAN /\ s.left \in Seq(Places)
  BY DEF WalkStates
<1>1. t = CASE n < s.next -> s
            [] n >= s.next /\ IsOption(token) -> option
            [] n >= s.next /\ ~IsOption(token) /\ s.left = <<>> -> stopped
            [] OTHER -> placed
  BY DEF Consume, TakesValue
<1> HIDE DEF t, option, stopped, placed
<1>2. CASE n < s.next
  <2>2. ~(n >= s.next)
    BY <1>0, <1>2
  <2>1. t = s
    BY <1>1, <1>2, <2>2
  <2> QED
    BY <2>1, <2>2 DEF ConsumeCases, t
<1>3. CASE n >= s.next /\ IsOption(token)
  <2>0. ~(n < s.next)
    BY <1>0, <1>3
  <2>1. t = option
    BY <1>1, <1>3, <2>0
  <2> HIDE DEF fits, trigger, taken
  <2> DEFINE next == IF taken THEN n + 2 ELSE n + 1
             ok == s.ok /\ fits
             triggered == s.triggered \/ trigger
  <2>a. next \in Nat /\ ok \in BOOLEAN /\ triggered \in BOOLEAN
    OBVIOUS
  <2>b. t = [s EXCEPT !.next = next, !.ok = ok, !.triggered = triggered]
    BY <2>1 DEF option
  <2> HIDE DEF next, ok, triggered
  <2>2. t \in WalkStates
    BY <1>0, <2>a, <2>b DEF WalkStates
  <2>c. t.next = next /\ t.left = s.left /\ t.matched = s.matched /\ t.ok = ok /\ t.triggered = triggered
    BY <2>b DEF WalkStates
  <2>3. /\ t.next = (IF taken THEN n + 2 ELSE n + 1) /\ t.left = s.left /\ t.matched = s.matched
        /\ t.ok = (s.ok /\ fits) /\ t.triggered = (s.triggered \/ trigger)
    BY <2>c DEF next, ok, triggered
  <2>4. ConsumeCases(s, t, n, tokens, flags, catalog)
    BY <1>3, <2>0, <2>3 DEF ConsumeCases, fits, trigger, taken
  <2> QED
    BY <2>2, <2>4 DEF t
<1>4. CASE n >= s.next /\ ~IsOption(token)
  <2>0. ~(n < s.next)
    BY <1>0, <1>4
  <2>1. t \in WalkStates /\ t.next = s.next /\ t.triggered = s.triggered
    <3>1. CASE s.left = <<>>
      <4>1. t = [s EXCEPT !.ok = FALSE]
        BY <1>1, <1>4, <2>0, <3>1 DEF stopped
      <4> QED
        BY <4>1 DEF WalkStates
    <3>2. CASE s.left # <<>>
      <4>1. Head(s.left) \in Places /\ Tail(s.left) \in Seq(Places)
        BY <1>0, <3>2
      <4>2. Head(s.left).repeated \in BOOLEAN
        BY <4>1 DEF Places
      <4> DEFINE left == IF Head(s.left).repeated THEN s.left ELSE Tail(s.left)
      <4>3. left \in Seq(Places)
        BY <1>0, <4>1
      <4>4. t = [s EXCEPT !.matched = Head(s.left).repeated, !.left = left]
        BY <1>1, <1>4, <2>0, <3>2 DEF placed
      <4> HIDE DEF left
      <4> QED
        BY <4>2, <4>3, <4>4 DEF WalkStates
    <3> QED
      BY <3>1, <3>2
  <2>2. ConsumeCases(s, t, n, tokens, flags, catalog)
    BY <1>4, <2>0, <2>1 DEF ConsumeCases
  <2> QED
    BY <2>1, <2>2 DEF t
<1> QED
  BY <1>0, <1>2, <1>3, <1>4

\* A walk is its steps, and its verdict that of the last state.
LEMMA WalkIs ==
  ASSUME NEW T, NEW tokens \in Seq(T), NEW flags, NEW positionals \in Seq(Places), NEW base,
         NEW triggered \in BOOLEAN, NEW catalog
  PROVE  \E at : /\ Walks(at, tokens, flags, positionals, triggered, catalog)
                 /\ Walk(tokens, flags, positionals, base, triggered, catalog) = WalkVerdict(at[Len(tokens)], base)
<1> DEFINE N == Len(tokens)
           X == WalkStates
           start == WalkStart(positionals, triggered)
           next(s, n) == Consume(s, n, tokens, flags, catalog)
           at == CHOOSE at : at = [n \in 0..N |-> IF n = 0
                   THEN [next |-> 1, ok |-> TRUE, triggered |-> triggered, matched |-> FALSE, left |-> positionals]
                   ELSE Consume(at[n - 1], n, tokens, flags, catalog)]
           step == [p \in (1..N) \X X |-> next(p[2], p[1])]
<1>0. N \in Nat
  OBVIOUS
<1>1. Walk(tokens, flags, positionals, base, triggered, catalog) = WalkVerdict(at[N], base)
  BY DEF Walk, WalkVerdict
<1> HIDE DEF N
<1>2. start \in X
  BY DEF WalkStart, WalkStates
<1>3. \A n \in 1..N, s \in X : next(s, n) \in X
  BY <1>0, ConsumeIs
<1> HIDE DEF next, X
<1>4. step \in [(1..N) \X X -> X]
  BY <1>3
<1>5. \A n \in 1..N, s \in X : step[<<n, s>>] = next(s, n)
  OBVIOUS
<1> HIDE DEF step, start
<1>6. PICK a \in [0..N -> X] : Follows(a, N, start, step)
  BY <1>0, <1>2, <1>4, Recursion
<1>7. \A n \in 0..N : a[n] = IF n = 0 THEN start ELSE next(a[n - 1], n)
  <2> SUFFICES ASSUME NEW n \in 0..N PROVE a[n] = IF n = 0 THEN start ELSE next(a[n - 1], n)
    OBVIOUS
  <2>1. n # 0 => n - 1 \in 0..N /\ n \in 1..N
    BY <1>0
  <2> QED
    BY <1>5, <1>6, <2>1 DEF Follows
<1>8. a = [n \in 0..N |-> IF n = 0 THEN start ELSE next(a[n - 1], n)]
  BY <1>7
<1>9. at = [n \in 0..N |-> IF n = 0 THEN start ELSE next(at[n - 1], n)]
  BY <1>8 DEF start, next, WalkStart
<1> HIDE DEF at
<1>10. at[0] = start /\ \A n \in 1..N : at[n] = next(at[n - 1], n)
  <2>1. 0 \in 0..N /\ \A n \in 1..N : n \in 0..N /\ n # 0
    BY <1>0
  <2> QED
    BY <1>9, <2>1
<1> DEFINE K == {n \in Nat : n <= N => at[n] \in X}
<1>11. 0 \in K
  BY <1>2, <1>10
<1>12. ASSUME NEW n \in Nat, n \in K PROVE n + 1 \in K
  <2> SUFFICES ASSUME n + 1 <= N PROVE at[n + 1] \in X
    OBVIOUS
  <2>1. at[n] \in X /\ n + 1 \in 1..N /\ (n + 1) - 1 = n
    BY <1>0, <1>12
  <2> QED
    BY <1>3, <1>10, <2>1
<1>13. \A n \in Nat : n \in K
  <2> HIDE DEF K
  <2> QED
    BY <1>11, <1>12, Climb
<1>14. \A n \in 0..N : at[n] \in X
  BY <1>0, <1>13
<1>15. Walks(at, tokens, flags, positionals, triggered, catalog)
  BY <1>10, <1>14 DEF Walks, N, X, start, next
<1> QED
  BY <1>1, <1>15 DEF N

\* Where no option stands for a value, a walk sees every option.
LEMMA WalkSees ==
  ASSUME NEW T, NEW tokens \in Seq(T), NoneForValue(tokens), NEW flags, flags \subseteq Options,
         NEW positionals, NEW triggered \in BOOLEAN, NEW catalog,
         NEW at, Walks(at, tokens, flags, positionals, triggered, catalog)
  PROVE  at[Len(tokens)].triggered <=> triggered \/ HasTrigger(tokens, flags)
<1> DEFINE N == Len(tokens)
           seen(n) == triggered \/ \E m \in 1..n : tokens[m] \in flags \cap Triggers
           Right(n) == /\ at[n].triggered <=> seen(n)
                       /\ at[n].next <= n + 2
                       /\ n + 1 <= N /\ n + 1 < at[n].next => tokens[n + 1] \notin Options
           K == {n \in Nat : n <= N => Right(n)}
<1>0. N \in Nat /\ DOMAIN tokens = 1..N
  OBVIOUS
<1> HIDE DEF N
<1>1. 0 \in K
  <2>1. at[0].next = 1 /\ at[0].triggered = triggered
    BY DEF Walks, WalkStart
  <2> QED
    BY <2>1
<1>2. ASSUME NEW n \in Nat, n \in K PROVE n + 1 \in K
  <2> SUFFICES ASSUME n + 1 <= N PROVE Right(n + 1)
    OBVIOUS
  <2> DEFINE s == at[n]
             t == at[n + 1]
             k == n + 1
             token == tokens[k]
             taken == TakesValue(token, k, tokens, flags)
  <2>1. Right(n) /\ k \in 1..N /\ k - 1 = n /\ n \in 0..N /\ k \in Nat
    BY <1>0, <1>2
  <2>2. s \in WalkStates /\ t = Consume(s, k, tokens, flags, catalog)
    BY <1>0, <2>1 DEF Walks, N
  <2>3. ConsumeCases(s, t, k, tokens, flags, catalog)
    BY <2>1, <2>2, ConsumeIs
  <2>4. s.next \in Nat
    BY <2>2 DEF WalkStates
  <2>5. seen(k) <=> seen(n) \/ token \in flags \cap Triggers
    <3>1. \A m \in 1..k : m \in 1..n \/ m = k
      BY <2>1
    <3>2. \A m \in 1..n : m \in 1..k
      BY <2>1
    <3> QED
      BY <2>1, <3>1, <3>2
  <2> HIDE DEF seen, s, t, token, taken
  <2>6. CASE k < s.next
    <3>1. t = s /\ token \notin Options
      BY <2>1, <2>3, <2>6 DEF ConsumeCases, s, token
    <3>2. seen(k) <=> seen(n)
      BY <2>5, <3>1
    <3> QED
      BY <2>1, <2>4, <3>1, <3>2 DEF s, t
  <2>7. CASE ~(k < s.next) /\ token \in Options
    <3>1. /\ t.next = (IF taken THEN k + 2 ELSE k + 1)
          /\ t.triggered <=> s.triggered \/ (token \in flags /\ token \in Triggers)
      BY <2>1, <2>3, <2>4, <2>7 DEF ConsumeCases, IsOption, token, taken
    <3>2. t.triggered <=> seen(k)
      BY <2>1, <2>5, <3>1 DEF s
    <3>3. taken /\ k + 1 <= N => tokens[k + 1] \notin Options
      BY <1>0, <2>1 DEF taken, TakesValue, IsOption, NoneForValue, token
    <3> QED
      BY <2>1, <3>1, <3>2, <3>3 DEF t
  <2>8. CASE ~(k < s.next) /\ token \notin Options
    <3>1. t.next = s.next /\ (t.triggered <=> s.triggered)
      BY <2>1, <2>3, <2>4, <2>8 DEF ConsumeCases, IsOption, token
    <3>2. seen(k) <=> seen(n)
      BY <2>5, <2>8
    <3> QED
      BY <2>1, <2>4, <2>8, <3>1, <3>2 DEF s, t
  <2> QED
    BY <2>6, <2>7, <2>8
<1>3. \A n \in Nat : n \in K
  <2> HIDE DEF K
  <2> QED
    BY <1>1, <1>2, Climb
<1>4. at[N].triggered <=> seen(N)
  BY <1>0, <1>3
<1> QED
  BY <1>0, <1>4 DEF HasTrigger, N

\* A walk over options and their values is refused exactly if a value does not fit.
LEMMA WalkFits ==
  ASSUME NEW T, NEW tokens \in Seq(T), Paired(tokens), NEW flags,
         NEW triggered \in BOOLEAN, NEW catalog,
         NEW at, Walks(at, tokens, flags, <<>>, triggered, catalog)
  PROVE  /\ at[Len(tokens)].ok <=> Fitting(tokens, flags, catalog)
         /\ at[Len(tokens)].left = <<>>
<1> DEFINE N == Len(tokens)
           fits(m) == FitsAt(tokens, m, flags, catalog)
           fine(n) == \A m \in 1..n : fits(m)
           Right(n) == /\ at[n].ok <=> fine(n)
                       /\ at[n].left = <<>>
                       /\ at[n].next <= n + 2
                       /\ n + 1 <= N => (n + 1 < at[n].next <=> tokens[n + 1] \notin Options)
           K == {n \in Nat : n <= N => Right(n)}
<1>0. N \in Nat /\ DOMAIN tokens = 1..N
  OBVIOUS
<1> HIDE DEF N
<1>1. 0 \in K
  <2>1. at[0].next = 1 /\ at[0].ok /\ at[0].left = <<>>
    BY DEF Walks, WalkStart
  <2>2. 1 <= N => tokens[1] \in Options
    BY <1>0 DEF Paired
  <2>3. fine(0)
    OBVIOUS
  <2> HIDE DEF fine
  <2> QED
    BY <2>1, <2>2, <2>3
<1>2. ASSUME NEW n \in Nat, n \in K PROVE n + 1 \in K
  <2> SUFFICES ASSUME n + 1 <= N PROVE Right(n + 1)
    OBVIOUS
  <2> DEFINE s == at[n]
             t == at[n + 1]
             k == n + 1
             token == tokens[k]
             taken == TakesValue(token, k, tokens, flags)
  <2>1. Right(n) /\ k \in 1..N /\ k - 1 = n /\ n \in 0..N /\ k \in Nat
    BY <1>0, <1>2
  <2>2. s \in WalkStates /\ t = Consume(s, k, tokens, flags, catalog)
    BY <1>0, <2>1 DEF Walks, N
  <2>3. ConsumeCases(s, t, k, tokens, flags, catalog)
    BY <2>1, <2>2, ConsumeIs
  <2>4. s.next \in Nat
    BY <2>2 DEF WalkStates
  <2>5. fine(k) <=> fine(n) /\ fits(k)
    <3>1. \A m \in 1..k : m \in 1..n \/ m = k
      BY <2>1
    <3>2. \A m \in 1..n : m \in 1..k
      BY <2>1
    <3> HIDE DEF fits
    <3> QED
      BY <2>1, <3>1, <3>2
  <2>6. /\ token \in Valued <=> k + 1 <= N /\ tokens[k + 1] \notin Options
        /\ Valued \subseteq Options
    <3>1. Valued \subseteq Options
      BY DEF Options
    <3> QED
      BY <1>0, <2>1, <3>1 DEF Paired, token
  <2> HIDE DEF fine, s, t, token, taken, fits
  <2>7. CASE token \notin Options
    <3>1. k < s.next
      BY <2>1, <2>7 DEF s, token
    <3>2. t = s
      BY <2>3, <3>1 DEF ConsumeCases
    <3>3. fits(k)
      BY <2>6, <2>7 DEF fits, FitsAt, token
    <3>4. k + 1 <= N => tokens[k + 1] \in Options
      BY <2>6, <2>7
    <3> QED
      BY <2>1, <2>4, <2>5, <3>2, <3>3, <3>4 DEF s, t
  <2>8. CASE token \in Options
    <3>0. ~(k < s.next) /\ k >= s.next
      BY <2>1, <2>4, <2>8 DEF s, token
    <3>1. /\ t.next = (IF taken THEN k + 2 ELSE k + 1) /\ t.left = s.left
          /\ t.ok <=> s.ok /\ (token \in flags /\ taken => k < N /\ Fits(tokens[k + 1], Allowed(token, catalog)))
      BY <2>3, <2>8, <3>0 DEF ConsumeCases, IsOption, token, taken, N
    <3>2. taken <=> token \in Valued
      BY <1>0, <2>1, <2>6 DEF taken, TakesValue, IsOption, N
    <3>3. token \in Valued => k < N
      BY <1>0, <2>1, <2>6
    <3>4. fits(k) <=> (token \in flags /\ taken => k < N /\ Fits(tokens[k + 1], Allowed(token, catalog)))
      BY <3>2, <3>3 DEF fits, FitsAt, token
    <3>5. t.ok <=> fine(k)
      BY <2>1, <2>5, <3>1, <3>4 DEF s
    <3>6. t.left = <<>>
      BY <2>1, <3>1 DEF s
    <3>7. t.next <= k + 2 /\ (k + 1 <= N => (k + 1 < t.next <=> tokens[k + 1] \notin Options))
      BY <2>1, <2>6, <3>1, <3>2
    <3> QED
      BY <3>5, <3>6, <3>7 DEF t
  <2> QED
    BY <2>7, <2>8
<1>3. \A n \in Nat : n \in K
  <2> HIDE DEF K
  <2> QED
    BY <1>1, <1>2, Climb
<1>4. (at[N].ok <=> fine(N)) /\ at[N].left = <<>>
  BY <1>0, <1>3
<1> QED
  BY <1>0, <1>4 DEF Fitting, N

\* The mode of a region in which every option is seen.
AnyMode(mode, tokens, flags, base, triggered) ==
  mode = Rejected \/ mode = IF triggered \/ HasTrigger(tokens, flags) THEN "read_only" ELSE base

\* The verdict of a walk over tokens of which none hides an option as a value.
LEMMA AnyWalk ==
  ASSUME NEW T, NEW tokens \in Seq(T), NoneForValue(tokens), NEW flags, flags \subseteq Options,
         NEW positionals \in Seq(Places), NEW base, NEW triggered \in BOOLEAN, NEW catalog
  PROVE  AnyMode(Walk(tokens, flags, positionals, base, triggered, catalog), tokens, flags, base, triggered)
<1>1. PICK at : /\ Walks(at, tokens, flags, positionals, triggered, catalog)
                /\ Walk(tokens, flags, positionals, base, triggered, catalog) = WalkVerdict(at[Len(tokens)], base)
  BY WalkIs
<1>2. at[Len(tokens)].triggered <=> triggered \/ HasTrigger(tokens, flags)
  BY <1>1, WalkSees
<1> QED
  BY <1>1, <1>2 DEF WalkVerdict, AnyMode

\* The mode of a region of options and their values.
PairedMode(tokens, flags, base, triggered, catalog) ==
  IF ~Fitting(tokens, flags, catalog) THEN Rejected
  ELSE IF triggered \/ HasTrigger(tokens, flags) THEN "read_only" ELSE base

\* The verdict of a walk over options and their values.
LEMMA PairedWalk ==
  ASSUME NEW T, NEW tokens \in Seq(T), Paired(tokens), NEW flags, flags \subseteq Options,
         NEW base, NEW triggered \in BOOLEAN, NEW catalog
  PROVE  Walk(tokens, flags, <<>>, base, triggered, catalog) =
           PairedMode(tokens, flags, base, triggered, catalog)
<1> DEFINE none == <<>>
<1>0. none \in Seq(Places)
  OBVIOUS
<1> HIDE DEF none
<1>a. PICK at : /\ Walks(at, tokens, flags, none, triggered, catalog)
                /\ Walk(tokens, flags, none, base, triggered, catalog) = WalkVerdict(at[Len(tokens)], base)
  BY <1>0, WalkIs
<1>1. /\ Walks(at, tokens, flags, <<>>, triggered, catalog)
      /\ Walk(tokens, flags, <<>>, base, triggered, catalog) = WalkVerdict(at[Len(tokens)], base)
  BY <1>a DEF none
<1>2. NoneForValue(tokens)
  BY DEF NoneForValue, Paired
<1>3. at[Len(tokens)].triggered <=> triggered \/ HasTrigger(tokens, flags)
  BY <1>1, <1>2, WalkSees
<1>4. /\ at[Len(tokens)].ok <=> Fitting(tokens, flags, catalog)
      /\ at[Len(tokens)].left = <<>>
  BY <1>1, WalkFits
<1> QED
  BY <1>1, <1>3, <1>4 DEF WalkVerdict, PairedMode

-----------------------------------------------------------------------------
(* The descent through the subcommands. *)

\* Before place k there are options that are known, and their values, and nothing else.
Leads(tokens, k, flags) ==
  /\ k \in DOMAIN tokens /\ tokens[k] \notin Options
  /\ \A n \in 1..(k - 1) :
       /\ tokens[n] \in flags \cap Valued <=> n + 1 < k /\ tokens[n + 1] \notin Options
       /\ n = 1 => tokens[n] \in Options

\* The subcommand is the first word that is no value.
LEMMA SubcommandFound ==
  ASSUME NEW T, NEW tokens \in Seq(T), NEW flags, NEW k \in Nat, Leads(tokens, k, flags)
  PROVE  FindSubcommand(tokens, flags) = k
<1> DEFINE N == Len(tokens)
           here(b, n) == n > 1 /\ ~b /\ tokens[n - 1] \in flags \cap Valued
           value == CHOOSE value : value = [n \in 0..N |->
                      n > 1 /\ ~value[n - 1] /\ tokens[n - 1] \in flags \cap Valued]
           words == {n \in DOMAIN tokens : ~IsOption(tokens[n]) /\ ~value[n]}
           step == [p \in (1..N) \X BOOLEAN |-> here(p[2], p[1])]
<1>0. N \in Nat /\ DOMAIN tokens = 1..N
  OBVIOUS
<1>1. FindSubcommand(tokens, flags) = IF words = {} THEN 0 ELSE Min(words)
  BY DEF FindSubcommand
<1> HIDE DEF N
<1>2. \A b, n : here(b, n) \in BOOLEAN
  OBVIOUS
<1>a. \A b : \A n \in 0..N : n = 0 => here(b, n) = FALSE
  OBVIOUS
<1> HIDE DEF here
<1>3. step \in [(1..N) \X BOOLEAN -> BOOLEAN]
  BY <1>2
<1>4. \A n \in 1..N, b \in BOOLEAN : step[<<n, b>>] = here(b, n)
  OBVIOUS
<1> HIDE DEF step
<1>5. PICK a \in [0..N -> BOOLEAN] : Follows(a, N, FALSE, step)
  BY <1>0, <1>3, Recursion
<1>6. \A n \in 0..N : a[n] = here(a[n - 1], n)
  <2> SUFFICES ASSUME NEW n \in 0..N PROVE a[n] = here(a[n - 1], n)
    OBVIOUS
  <2>1. CASE n = 0
    <3>1. a[n] = FALSE
      BY <1>5, <2>1 DEF Follows
    <3>2. here(a[n - 1], n) = FALSE
      BY <1>a, <2>1
    <3> QED
      BY <3>1, <3>2
  <2>2. CASE n # 0
    <3>1. n - 1 \in 0..N /\ n \in 1..N
      BY <1>0, <2>2
    <3> QED
      BY <1>4, <1>5, <2>2, <3>1 DEF Follows
  <2> QED
    BY <2>1, <2>2
<1>7. a = [n \in 0..N |-> here(a[n - 1], n)]
  BY <1>6
<1>8. value = [n \in 0..N |-> here(value[n - 1], n)]
  BY <1>7 DEF here
<1> HIDE DEF value
<1>9. \A n \in 1..N : value[n] <=> n > 1 /\ ~value[n - 1] /\ tokens[n - 1] \in flags \cap Valued
  <2>1. \A n \in 1..N : n \in 0..N
    BY <1>0
  <2> QED
    BY <1>8, <2>1 DEF here
<1>10. /\ k \in 1..N /\ tokens[k] \notin Options
       /\ \A n \in 1..(k - 1) :
            /\ tokens[n] \in flags \cap Valued <=> n + 1 < k /\ tokens[n + 1] \notin Options
            /\ n = 1 => tokens[n] \in Options
  BY <1>0 DEF Leads
<1>11. flags \cap Valued \subseteq Options
  <2>1. Valued \subseteq Options
    BY DEF Options
  <2> QED
    BY <2>1
<1> DEFINE K == {n \in Nat : n \in 1..(k - 1) => (value[n] <=> tokens[n] \notin Options)}
<1>12. 0 \in K
  OBVIOUS
<1>13. ASSUME NEW n \in Nat, n \in K PROVE n + 1 \in K
  <2> SUFFICES ASSUME n + 1 \in 1..(k - 1) PROVE value[n + 1] <=> tokens[n + 1] \notin Options
    OBVIOUS
  <2>0. n + 1 \in 1..N /\ (n + 1) - 1 = n
    BY <1>0, <1>10
  <2>1. CASE n = 0
    <3>1. ~value[n + 1]
      BY <1>9, <2>0, <2>1
    <3>2. tokens[n + 1] \in Options
      BY <1>10, <2>1
    <3> QED
      BY <3>1, <3>2
  <2>2. CASE n # 0
    <3>1. n \in 1..(k - 1) /\ n + 1 < k /\ n + 1 > 1
      BY <2>2
    <3>2. value[n] <=> tokens[n] \notin Options
      BY <1>13, <3>1
    <3>3. tokens[n] \in flags \cap Valued <=> tokens[n + 1] \notin Options
      BY <1>10, <3>1
    <3>4. value[n + 1] <=> ~value[n] /\ tokens[n] \in flags \cap Valued
      BY <1>9, <2>0, <3>1
    <3> QED
      BY <1>11, <3>2, <3>3, <3>4
  <2> QED
    BY <2>1, <2>2
<1>14. \A n \in Nat : n \in K
  <2> HIDE DEF K
  <2> QED
    BY <1>12, <1>13, Climb
<1>15. \A n \in 1..(k - 1) : n \notin words
  BY <1>0, <1>14 DEF IsOption
<1>16. k \in words
  <2>1. CASE k = 1
    <3>1. ~value[k]
      BY <1>9, <1>10, <2>1
    <3> QED
      BY <1>0, <1>10, <3>1 DEF IsOption
  <2>2. CASE k # 1
    <3>1. k - 1 \in 1..(k - 1) /\ ~((k - 1) + 1 < k)
      BY <1>10, <2>2
    <3>2. tokens[k - 1] \notin flags \cap Valued
      BY <1>10, <3>1
    <3>3. ~value[k]
      BY <1>9, <1>10, <3>2
    <3> QED
      BY <1>0, <1>10, <3>3 DEF IsOption
  <2> QED
    BY <2>1, <2>2
<1>17. words \in SUBSET Nat
  BY <1>0
<1> HIDE DEF words
<1>18. Min(words) \in words /\ Min(words) <= k /\ Min(words) \in Nat
  BY <1>16, <1>17, MinIsLeast
<1>19. Min(words) \in 1..N
  <2>1. words \subseteq 1..N
    BY <1>0 DEF words
  <2> QED
    BY <1>18, <2>1
<1>20. Min(words) = k
  BY <1>15, <1>18, <1>19
<1> QED
  BY <1>1, <1>16, <1>20

\* Two lists, one after the other.
IsConcat(u, s, t, T) ==
  /\ u \in Seq(T) /\ Len(s) \in Nat /\ Len(t) \in Nat /\ Len(u) = Len(s) + Len(t)
  /\ DOMAIN u = 1..(Len(s) + Len(t)) /\ DOMAIN s = 1..Len(s) /\ DOMAIN t = 1..Len(t)
  /\ \A n \in 1..Len(s) : u[n] = s[n]
  /\ \A n \in 1..Len(t) : u[Len(s) + n] = t[n]

\* The members of two lists, one after the other.
LEMMA ConcatIs ==
  ASSUME NEW T, NEW s \in Seq(T), NEW t \in Seq(T)
  PROVE  IsConcat(s \o t, s, t, T)
BY DEF IsConcat

\* A command line in its parts: what leads to a word, the word and what follows it.
Parts3(before, word, after) == (before \o <<word>>) \o after

AreParts(tokens, T, before, word, after) ==
  LET k == Len(before) + 1
  IN  /\ tokens \in Seq(T) /\ k \in DOMAIN tokens /\ tokens[k] = word
      /\ \A n \in 1..(k - 1) : tokens[n] = before[n] /\ n \in DOMAIN before
      /\ SubSeq(tokens, 1, k - 1) = before /\ SubSeq(tokens, k + 1, Len(tokens)) = after
      /\ Len(tokens) = k + Len(after)

\* The parts of a command line, and where each is.
LEMMA PartsAre ==
  ASSUME NEW T, NEW before \in Seq(T), NEW word \in T, NEW after \in Seq(T)
  PROVE  AreParts(Parts3(before, word, after), T, before, word, after)
<1> DEFINE one == <<word>>
           start == before \o one
           tokens == start \o after
           B == Len(before)
           L == Len(after)
<1>1. one \in Seq(T) /\ Len(one) = 1 /\ one[1] = word
  OBVIOUS
<1> HIDE DEF one
<1>2. IsConcat(start, before, one, T)
  BY <1>1, ConcatIs
<1> HIDE DEF start
<1>3. start \in Seq(T)
  BY <1>2 DEF IsConcat
<1>4. IsConcat(tokens, start, after, T)
  BY <1>3, ConcatIs
<1> HIDE DEF tokens
<1>5. /\ B \in Nat /\ L \in Nat /\ Len(start) = B + 1 /\ DOMAIN before = 1..B
      /\ \A n \in 1..B : start[n] = before[n]
      /\ start[B + 1] = word
  <2>1. 1 \in 1..Len(one)
    BY <1>1
  <2> QED
    BY <1>1, <1>2, <1>4, <2>1 DEF IsConcat
<1>6. /\ tokens \in Seq(T) /\ Len(tokens) = (B + 1) + L /\ DOMAIN tokens = 1..((B + 1) + L)
      /\ \A n \in 1..(B + 1) : tokens[n] = start[n]
      /\ \A n \in 1..L : tokens[(B + 1) + n] = after[n]
  BY <1>4, <1>5 DEF IsConcat
<1> HIDE DEF B, L
<1>7. /\ B + 1 \in DOMAIN tokens /\ tokens[B + 1] = word
      /\ \A n \in 1..B : tokens[n] = before[n] /\ n \in DOMAIN before
  <2>1. B + 1 \in 1..((B + 1) + L) /\ B + 1 \in 1..(B + 1) /\ \A n \in 1..B : n \in 1..(B + 1)
    BY <1>5
  <2> QED
    BY <1>5, <1>6, <2>1
<1>8. SubSeq(tokens, 1, B) = before
  <2> DEFINE sub == SubSeq(tokens, 1, B)
  <2>1. sub \in Seq(T) /\ Len(sub) = B /\ \A n \in 1..B : sub[n] = tokens[n]
    BY <1>5, <1>6
  <2>2. Len(before) = B
    BY DEF B
  <2> HIDE DEF sub
  <2> QED
    BY <1>7, <2>1, <2>2 DEF sub
<1>9. SubSeq(tokens, (B + 1) + 1, Len(tokens)) = after
  <2> DEFINE sub == SubSeq(tokens, (B + 1) + 1, Len(tokens))
  <2>1. sub \in Seq(T) /\ Len(sub) = L /\ \A n \in 1..L : sub[n] = tokens[(B + 1) + n]
    BY <1>5, <1>6
  <2>2. Len(after) = L
    BY DEF L
  <2> HIDE DEF sub
  <2>3. \A n \in 1..L : sub[n] = after[n]
    BY <1>6, <2>1
  <2>4. sub = after
    BY <2>1, <2>2, <2>3
  <2> QED
    BY <2>4 DEF sub
<1>10. AreParts(tokens, T, before, word, after)
  <2>1. (B + 1) - 1 = B
    BY <1>5
  <2> QED
    BY <1>6, <1>7, <1>8, <1>9, <2>1 DEF AreParts, B, L
<1> QED
  BY <1>10 DEF Parts3, tokens, start, one

\* Where a descent through the subcommands is.
Level(entry, tokens, outer, regions, verdict) ==
  [entry |-> entry, tokens |-> tokens, outer |-> outer, regions |-> regions, verdict |-> verdict]

\* What may stand before a subcommand.
Heads(before, flags) ==
  /\ Paired(before) /\ flags \subseteq Options
  /\ \A n \in DOMAIN before : before[n] \in Valued => before[n] \in flags

\* What may stand before a subcommand leads to it.
LEMMA HeadLeads ==
  ASSUME NEW T, NEW before \in Seq(T), NEW word \in T, NEW after \in Seq(T), NEW flags,
         Heads(before, flags), word \notin Options
  PROVE  Leads(Parts3(before, word, after), Len(before) + 1, flags)
<1> DEFINE tokens == Parts3(before, word, after)
           k == Len(before) + 1
<1>1. /\ k \in DOMAIN tokens /\ tokens[k] = word /\ k - 1 = Len(before) /\ k \in Nat
      /\ \A n \in 1..(k - 1) : tokens[n] = before[n] /\ n \in DOMAIN before
      /\ DOMAIN before = 1..(k - 1)
  <2>1. AreParts(tokens, T, before, word, after)
    BY PartsAre
  <2> QED
    BY <2>1 DEF AreParts
<1> HIDE DEF tokens, k
<1>2. ASSUME NEW n \in 1..(k - 1)
      PROVE  /\ tokens[n] \in flags \cap Valued <=> n + 1 < k /\ tokens[n + 1] \notin Options
             /\ n = 1 => tokens[n] \in Options
  <2>1. /\ before[n] \in Valued <=> n + 1 \in DOMAIN before /\ before[n + 1] \notin Options
        /\ n = 1 => before[n] \in Options
        /\ before[n] \in Valued => before[n] \in flags
    BY <1>1 DEF Heads, Paired
  <2>2. n + 1 \in DOMAIN before <=> n + 1 < k
    BY <1>1
  <2>3. tokens[n] = before[n] /\ (n + 1 < k => tokens[n + 1] = before[n + 1])
    BY <1>1, <2>2
  <2> QED
    BY <2>1, <2>2, <2>3
<1>3. Leads(tokens, k, flags)
  BY <1>1, <1>2 DEF Leads
<1> QED
  BY <1>3 DEF tokens, k

\* A level down, if what stands before the subcommand fits.
DescendsTo(level, entry, before, word, after, outer, regions, catalog) ==
  LET flags == entry.flags \cup outer
  IN  level = IF Fitting(before, flags, catalog)
              THEN Level(entry.nested[word], after, flags, Append(regions, [tokens |-> before, flags |-> flags]), "open")
              ELSE Level(entry, Parts3(before, word, after), outer, regions, Rejected)

\* One level of the descent goes to the subcommand that is named, or refuses.
LEMMA Descends ==
  ASSUME NEW T, NEW before \in Seq(T), NEW word \in T, NEW after \in Seq(T), NEW entry, NEW outer, NEW regions,
         NEW catalog, Heads(before, entry.flags \cup outer), word \notin Options,
         entry.nested # <<>>, word \in DOMAIN entry.nested
  PROVE  DescendsTo(Deeper(Level(entry, Parts3(before, word, after), outer, regions, "open"), catalog),
                    entry, before, word, after, outer, regions, catalog)
<1> DEFINE flags == entry.flags \cup outer
           tokens == Parts3(before, word, after)
           k == Len(before) + 1
           s == Level(entry, tokens, outer, regions, "open")
           more == Append(regions, [tokens |-> before, flags |-> flags])
           named == k # 0 /\ tokens[k] \in DOMAIN entry.nested
           walked == Walk(before, flags, <<>>, "read_only", FALSE, catalog) # Rejected
<1>1. /\ tokens \in Seq(T) /\ k \in Nat /\ k # 0 /\ tokens[k] = word
      /\ SubSeq(tokens, 1, k - 1) = before /\ SubSeq(tokens, k + 1, Len(tokens)) = after
  <2>1. AreParts(tokens, T, before, word, after)
    BY PartsAre
  <2> QED
    BY <2>1 DEF AreParts
<1>2. FindSubcommand(tokens, flags) = k
  <2> HIDE DEF flags
  <2>1. Leads(Parts3(before, word, after), Len(before) + 1, flags)
    BY HeadLeads DEF flags
  <2> QED
    BY <1>1, <2>1, SubcommandFound
<1>3. walked <=> Fitting(before, flags, catalog)
  <2>1. Paired(before) /\ flags \subseteq Options
    BY DEF Heads
  <2> DEFINE no == FALSE
             base == "read_only"
  <2>2. no \in BOOLEAN
    OBVIOUS
  <2> HIDE DEF flags, no, base
  <2>3. Walk(before, flags, <<>>, base, no, catalog) = PairedMode(before, flags, base, no, catalog)
    BY <2>1, <2>2, PairedWalk
  <2> QED
    BY <2>3 DEF PairedMode, Rejected, no, base
<1>4. /\ s.entry = entry /\ s.tokens = tokens /\ s.outer = outer /\ s.regions = regions /\ s.verdict = "open"
  BY DEF Level
<1>5. Deeper(s, catalog) =
        CASE s.verdict # "open" -> s
          [] s.verdict = "open" /\ s.entry.nested = <<>> ->
               [s EXCEPT !.verdict = Walk(s.tokens, flags, s.entry.positionals, s.entry.mode,
                                          Triggered(s.regions, flags), catalog)]
          [] s.verdict = "open" /\ s.entry.nested # <<>> /\ named /\ walked ->
               [s EXCEPT !.entry = @.nested[s.tokens[k]], !.outer = flags,
                         !.tokens = SubSeq(@, k + 1, Len(@)),
                         !.regions = Append(@, [tokens |-> before, flags |-> flags])]
          [] OTHER -> [s EXCEPT !.verdict = Rejected]
  <2> HIDE DEF tokens, k
  <2> QED
    BY <1>1, <1>2, <1>4 DEF Deeper
<1>6. named
  BY <1>1
<1> HIDE DEF named, walked, flags, tokens, k
<1>7. CASE walked
  <2>1. Deeper(s, catalog) = [s EXCEPT !.entry = @.nested[s.tokens[k]], !.outer = flags,
                                       !.tokens = SubSeq(@, k + 1, Len(@)),
                                       !.regions = Append(@, [tokens |-> before, flags |-> flags])]
    <3> HIDE DEF s
    <3> QED
      BY <1>4, <1>5, <1>6, <1>7
  <2>2. Deeper(s, catalog) = Level(entry.nested[word], after, flags, more, "open")
    BY <1>1, <2>1 DEF Level
  <2> QED
    BY <1>3, <1>7, <2>2 DEF DescendsTo, flags, tokens
<1>8. CASE ~walked
  <2>1. Deeper(s, catalog) = [s EXCEPT !.verdict = Rejected]
    <3> HIDE DEF s
    <3> QED
      BY <1>4, <1>5, <1>8
  <2>2. Deeper(s, catalog) = Level(entry, tokens, outer, regions, Rejected)
    BY <2>1 DEF Level
  <2> QED
    BY <1>3, <1>8, <2>2 DEF DescendsTo, flags, tokens
<1> QED
  BY <1>7, <1>8

\* The last level walks what is left.
LEMMA LeafWalks ==
  ASSUME NEW entry, NEW tokens, NEW outer, NEW regions, NEW catalog, entry.nested = <<>>
  PROVE  Deeper(Level(entry, tokens, outer, regions, "open"), catalog) =
           Level(entry, tokens, outer, regions,
                 Walk(tokens, entry.flags \cup outer, entry.positionals, entry.mode,
                      Triggered(regions, entry.flags \cup outer), catalog))
<1> DEFINE s == Level(entry, tokens, outer, regions, "open")
           verdict == Walk(tokens, entry.flags \cup outer, entry.positionals, entry.mode,
                           Triggered(regions, entry.flags \cup outer), catalog)
<1>1. /\ s.entry = entry /\ s.tokens = tokens /\ s.outer = outer /\ s.regions = regions /\ s.verdict = "open"
  BY DEF Level
<1>2. Deeper(s, catalog) = [s EXCEPT !.verdict = verdict]
  <2> HIDE DEF s
  <2> QED
    BY <1>1 DEF Deeper
<1> HIDE DEF verdict
<1>3. Deeper(s, catalog) = Level(entry, tokens, outer, regions, verdict)
  BY <1>2 DEF Level
<1> QED
  BY <1>3 DEF verdict

\* A verdict is kept.
LEMMA VerdictKept ==
  ASSUME NEW entry, NEW tokens, NEW outer, NEW regions, NEW catalog, NEW verdict, verdict # "open"
  PROVE  Deeper(Level(entry, tokens, outer, regions, verdict), catalog) = Level(entry, tokens, outer, regions, verdict)
<1> DEFINE s == Level(entry, tokens, outer, regions, verdict)
<1>1. s.verdict = verdict
  BY DEF Level
<1> HIDE DEF s
<1>2. Deeper(s, catalog) = s
  BY <1>1 DEF Deeper
<1> QED
  BY <1>2 DEF s

\* The descent, of k levels.
Descent(st, k, entry, tokens, outer, catalog) ==
  /\ st[0] = Level(entry, tokens, outer, <<>>, "open")
  /\ \A j \in 1..k : st[j] = Deeper(st[j - 1], catalog)
  /\ Deeper(st[k], catalog) = st[k]

\* What a descent says once it stays where it is, is the verdict of walk_subcommand.
LEMMA DescentEnds ==
  ASSUME NEW T, NEW tokens \in Seq(T), NEW entry, NEW outer, NEW catalog, NEW k \in Nat, k <= Len(tokens) + 1,
         NEW st, Descent(st, k, entry, tokens, outer, catalog)
  PROVE  WalkSubcommand(entry, tokens, outer, catalog) = st[k].verdict
<1> DEFINE N == Len(tokens) + 1
           start == Level(entry, tokens, outer, <<>>, "open")
           level == CHOOSE level : level = [d \in 0..N |-> IF d = 0
                      THEN [entry |-> entry, tokens |-> tokens, outer |-> outer, regions |-> <<>>, verdict |-> "open"]
                      ELSE Deeper(level[d - 1], catalog)]
           a == [d \in 0..N |-> IF d <= k THEN st[d] ELSE st[k]]
<1>0. N \in Nat /\ k <= N
  OBVIOUS
<1>1. WalkSubcommand(entry, tokens, outer, catalog) = level[N].verdict
  BY DEF WalkSubcommand
<1> HIDE DEF N
<1>2. \A d \in 0..N : a[d] = IF d = 0 THEN start ELSE Deeper(a[d - 1], catalog)
  <2> SUFFICES ASSUME NEW d \in 0..N PROVE a[d] = IF d = 0 THEN start ELSE Deeper(a[d - 1], catalog)
    OBVIOUS
  <2>1. CASE d = 0
    <3>1. a[d] = st[0]
      BY <2>1
    <3> QED
      BY <2>1, <3>1 DEF Descent
  <2>2. CASE d # 0 /\ d <= k
    <3>1. d \in 1..k /\ d - 1 \in 0..N /\ d - 1 <= k
      BY <1>0, <2>2
    <3>2. a[d] = st[d] /\ a[d - 1] = st[d - 1]
      BY <2>2, <3>1
    <3>3. st[d] = Deeper(st[d - 1], catalog)
      BY <3>1 DEF Descent
    <3> QED
      BY <2>2, <3>2, <3>3
  <2>3. CASE ~(d <= k)
    <3>1. d # 0 /\ d - 1 \in 0..N /\ (d - 1 <= k => d - 1 = k)
      BY <1>0, <2>3
    <3>2. a[d] = st[k] /\ a[d - 1] = st[k]
      BY <2>3, <3>1
    <3>3. Deeper(st[k], catalog) = st[k]
      BY DEF Descent
    <3> QED
      BY <3>1, <3>2, <3>3
  <2> QED
    BY <2>1, <2>2, <2>3
<1>3. a[N] = st[k]
  BY <1>0
<1>4. a = [d \in 0..N |-> IF d = 0 THEN start ELSE Deeper(a[d - 1], catalog)]
  <2> DEFINE b == a
  <2>1. b = [d \in 0..N |-> b[d]]
    OBVIOUS
  <2>2. \A d \in 0..N : b[d] = IF d = 0 THEN start ELSE Deeper(b[d - 1], catalog)
    BY <1>2
  <2> HIDE DEF b, start
  <2>3. b = [d \in 0..N |-> IF d = 0 THEN start ELSE Deeper(b[d - 1], catalog)]
    BY <2>1, <2>2
  <2> QED
    BY <2>3 DEF b, start
<1> HIDE DEF a
<1>5. level = [d \in 0..N |-> IF d = 0 THEN start ELSE Deeper(level[d - 1], catalog)]
  BY <1>4 DEF Level
<1> HIDE DEF level, start
<1> DEFINE K == {d \in Nat : d <= N => level[d] = a[d]}
<1>6. 0 \in K
  <2>1. 0 \in 0..N
    BY <1>0
  <2> QED
    BY <1>2, <1>5, <2>1
<1>7. ASSUME NEW d \in Nat, d \in K PROVE d + 1 \in K
  <2> SUFFICES ASSUME d + 1 <= N PROVE level[d + 1] = a[d + 1]
    OBVIOUS
  <2>1. d + 1 \in 0..N /\ d + 1 # 0 /\ (d + 1) - 1 = d /\ level[d] = a[d]
    BY <1>0, <1>7
  <2>2. level[d + 1] = Deeper(level[d], catalog)
    BY <1>5, <2>1
  <2>3. a[d + 1] = Deeper(a[d], catalog)
    BY <1>2, <2>1
  <2> QED
    BY <2>1, <2>2, <2>3
<1>8. \A d \in Nat : d \in K
  <2> HIDE DEF K
  <2> QED
    BY <1>6, <1>7, Climb
<1>9. level[N] = a[N]
  BY <1>0, <1>8
<1> QED
  BY <1>1, <1>3, <1>9

-----------------------------------------------------------------------------
(* Command lines. *)

\* One list after another, in either order of appending; without its head.
Reassociates(r, s, t) == (r \o s) \o t = r \o (s \o t)

\* Appending is associative.
LEMMA ConcatTwice ==
  ASSUME NEW T, NEW r \in Seq(T), NEW s \in Seq(T), NEW t \in Seq(T)
  PROVE  Reassociates(r, s, t)
<1> DEFINE rs == r \o s
           st == s \o t
           left == rs \o t
           right == r \o st
           R == Len(r)
           S == Len(s)
           L == Len(t)
<1>1. IsConcat(rs, r, s, T) /\ IsConcat(st, s, t, T)
  BY ConcatIs
<1> HIDE DEF rs, st
<1>2. rs \in Seq(T) /\ st \in Seq(T)
  BY <1>1 DEF IsConcat
<1>3. IsConcat(left, rs, t, T) /\ IsConcat(right, r, st, T)
  BY <1>2, ConcatIs
<1> HIDE DEF left, right
<1>4. R \in Nat /\ S \in Nat /\ L \in Nat
  OBVIOUS
<1>5. /\ Len(rs) = R + S /\ Len(st) = S + L
      /\ \A n \in 1..R : rs[n] = r[n]
      /\ \A n \in 1..S : rs[R + n] = s[n] /\ st[n] = s[n]
      /\ \A n \in 1..L : st[S + n] = t[n]
  BY <1>1 DEF IsConcat
<1>6. /\ left \in Seq(T) /\ Len(left) = (R + S) + L
      /\ \A n \in 1..(R + S) : left[n] = rs[n]
      /\ \A n \in 1..L : left[(R + S) + n] = t[n]
  BY <1>3, <1>5 DEF IsConcat
<1>7. /\ right \in Seq(T) /\ Len(right) = R + (S + L)
      /\ \A n \in 1..R : right[n] = r[n]
      /\ \A n \in 1..(S + L) : right[R + n] = st[n]
  BY <1>3, <1>5 DEF IsConcat
<1> HIDE DEF R, S, L
<1>8. ASSUME NEW n \in 1..((R + S) + L) PROVE left[n] = right[n]
  <2>1. CASE n <= R
    <3>1. n \in 1..R /\ n \in 1..(R + S)
      BY <1>4, <2>1
    <3> QED
      BY <1>5, <1>6, <1>7, <3>1
  <2>2. CASE R < n /\ n <= R + S
    <3> DEFINE m == n - R
    <3>1. m \in 1..S /\ m \in 1..(S + L) /\ n \in 1..(R + S) /\ n = R + m
      BY <1>4, <2>2
    <3> HIDE DEF m
    <3>2. left[n] = rs[R + m] /\ right[n] = st[m]
      BY <1>6, <1>7, <3>1
    <3> QED
      BY <1>5, <3>1, <3>2
  <2>3. CASE R + S < n
    <3> DEFINE m == n - (R + S)
               k == n - R
    <3>1. m \in 1..L /\ k \in 1..(S + L) /\ n = (R + S) + m /\ n = R + k /\ k = S + m
      BY <1>4, <2>3
    <3> HIDE DEF m, k
    <3>2. left[n] = t[m] /\ right[n] = st[k]
      BY <1>6, <1>7, <3>1
    <3>3. st[k] = t[m]
      BY <1>5, <3>1
    <3> QED
      BY <3>2, <3>3
  <2> QED
    BY <1>4, <2>1, <2>2, <2>3
<1>9. left = right
  <2>1. Len(left) = Len(right) /\ Len(left) = (R + S) + L
    BY <1>4, <1>6, <1>7
  <2> QED
    BY <1>6, <1>7, <1>8, <2>1
<1> QED
  BY <1>9 DEF Reassociates, left, right, rs, st

\* A list whose head is dropped.
LEMMA WithoutHead ==
  ASSUME NEW T, NEW e \in T, NEW s \in Seq(T)
  PROVE  /\ Tail(<<e>> \o s) = s
         /\ SubSeq(<<e>> \o s, 2, Len(<<e>> \o s)) = s
         /\ SubSeq(<<e>> \o s, 1, 1) = <<e>>
<1> DEFINE one == <<e>>
           all == one \o s
           L == Len(s)
<1>1. one \in Seq(T) /\ Len(one) = 1 /\ one[1] = e
  OBVIOUS
<1> HIDE DEF one
<1>2. IsConcat(all, one, s, T)
  BY <1>1, ConcatIs
<1> HIDE DEF all
<1>3. /\ all \in Seq(T) /\ Len(all) = 1 + L /\ L \in Nat
      /\ all[1] = e /\ \A n \in 1..L : all[1 + n] = s[n]
  <2>1. 1 \in 1..Len(one)
    BY <1>1
  <2> QED
    BY <1>1, <1>2, <2>1 DEF IsConcat
<1>4. Len(s) = L
  OBVIOUS
<1> HIDE DEF L
<1>5. SubSeq(all, 2, Len(all)) = s
  <2> DEFINE sub == SubSeq(all, 2, Len(all))
  <2>1. sub \in Seq(T) /\ Len(sub) = L /\ \A n \in 1..L : sub[n] = all[1 + n]
    BY <1>3
  <2> HIDE DEF sub
  <2>2. \A n \in 1..L : sub[n] = s[n]
    BY <1>3, <2>1
  <2>3. sub = s
    BY <1>3, <1>4, <2>1, <2>2
  <2> QED
    BY <2>3 DEF sub
<1>6. SubSeq(all, 1, 1) = one
  <2> DEFINE sub == SubSeq(all, 1, 1)
  <2>1. sub \in Seq(T) /\ Len(sub) = 1 /\ sub[1] = all[1]
    BY <1>3
  <2> HIDE DEF sub
  <2>2. sub = one
    BY <1>1, <1>3, <2>1
  <2> QED
    BY <2>2 DEF sub
<1>7. Tail(all) = SubSeq(all, 2, Len(all))
  <2> DEFINE sub == SubSeq(all, 2, Len(all))
             tail == Tail(all)
  <2>1. sub \in Seq(T) /\ Len(sub) = L /\ \A n \in 1..L : sub[n] = all[1 + n]
    BY <1>3
  <2>2. tail \in Seq(T) /\ Len(tail) = L /\ \A n \in 1..L : tail[n] = all[n + 1]
    <3>1. all # <<>>
      BY <1>3
    <3> QED
      BY <1>3, <3>1
  <2> HIDE DEF sub, tail
  <2>3. \A n \in 1..L : sub[n] = tail[n]
    BY <1>3, <2>1, <2>2
  <2>4. sub = tail
    BY <1>3, <2>1, <2>2, <2>3
  <2> QED
    BY <2>4 DEF sub, tail
<1> QED
  BY <1>5, <1>6, <1>7 DEF all, one

\* A command line and its parts, also with an option put before them.
CommandLine(e, before, word, after) == ((<<e>> \o before) \o <<word>>) \o after

\* A command line is the program, and the parts that follow it.
LEMMA LineParts ==
  ASSUME NEW T, NEW e \in T, NEW before \in Seq(T), NEW word \in T, NEW after \in Seq(T)
  PROVE  CommandLine(e, before, word, after) = <<e>> \o Parts3(before, word, after)
<1> DEFINE one == <<e>>
           w == <<word>>
           bw == before \o w
<1>1. one \in Seq(T) /\ w \in Seq(T)
  OBVIOUS
<1> HIDE DEF one, w
<1>2. bw \in Seq(T)
  BY <1>1
<1>3. Reassociates(one, before, w)
  BY <1>1, ConcatTwice
<1> HIDE DEF bw
<1>4. Reassociates(one, bw, after)
  BY <1>1, <1>2, ConcatTwice
<1> QED
  BY <1>3, <1>4 DEF Reassociates, CommandLine, Parts3, one, w, bw

HasShape(line, before, word, after, x) ==
  /\ Tail(line) = Parts3(before, word, after)
  /\ Tail(InsertAt(line, 2, x)) = Parts3(<<x>> \o before, word, after)

\* A command line without the program, also with an option put right after it.
LEMMA LineShapes ==
  ASSUME NEW T, NEW e \in T, NEW before \in Seq(T), NEW word \in T, NEW after \in Seq(T), NEW x \in T
  PROVE  HasShape(CommandLine(e, before, word, after), before, word, after, x)
<1> DEFINE one == <<e>>
           ex == <<x>>
           w == <<word>>
           line == CommandLine(e, before, word, after)
           rest == Parts3(before, word, after)
<1>1. one \in Seq(T) /\ ex \in Seq(T) /\ w \in Seq(T)
  OBVIOUS
<1>2. rest \in Seq(T)
  BY <1>1 DEF Parts3
<1>3. line = one \o rest
  BY LineParts
<1> HIDE DEF rest, line, one
<1>4. Tail(line) = rest /\ SubSeq(line, 2, Len(line)) = rest /\ SubSeq(line, 1, 1) = one
  BY <1>2, <1>3, WithoutHead DEF one
<1> HIDE DEF ex
<1>5. InsertAt(line, 2, x) = (one \o ex) \o rest
  <2>1. InsertAt(line, 2, x) = (SubSeq(line, 1, 2 - 1) \o <<x>>) \o SubSeq(line, 2, Len(line))
    BY DEF InsertAt
  <2>2. 2 - 1 = 1
    OBVIOUS
  <2> QED
    BY <1>4, <2>1, <2>2 DEF ex
<1>6. Reassociates(one, ex, rest)
  BY <1>1, <1>2, ConcatTwice
<1> DEFINE more == ex \o rest
<1>7. more \in Seq(T)
  BY <1>1, <1>2
<1> HIDE DEF more
<1>8. Tail(one \o more) = more
  BY <1>7, WithoutHead DEF one
<1>9. more = Parts3(ex \o before, word, after)
  <2> DEFINE eb == ex \o before
             bw == before \o w
  <2>1. bw \in Seq(T) /\ eb \in Seq(T)
    BY <1>1
  <2> HIDE DEF w
  <2>2. Reassociates(ex, before, w)
    BY <1>1, ConcatTwice
  <2> HIDE DEF bw, eb
  <2>3. Reassociates(ex, bw, after)
    BY <1>1, <2>1, ConcatTwice
  <2> QED
    BY <2>2, <2>3 DEF Reassociates, more, rest, Parts3, bw, eb, w
<1> QED
  BY <1>4, <1>5, <1>6, <1>8, <1>9 DEF HasShape, Reassociates, more, ex, line, rest

-----------------------------------------------------------------------------
(* What is composed. *)

\* What may be followed by anything: its last option waits for no value.
Closed(s, T) ==
  /\ s \in Seq(T) /\ NoneForValue(s)
  /\ Len(s) \in DOMAIN s => s[Len(s)] \notin Valued

\* The three options whose values the catalog lists carry those of a request.
AsRequested(s, q) ==
  \A n \in DOMAIN s :
    /\ s[n] = "--spec" => s[n + 1] = q.spec
    /\ s[n] = "-l" => s[n + 1] = q.harness
    /\ s[n] = "-w" => s[n + 1] = q.workload

\* Options and values that are composed for a request.
Composed(s, q, T) == s \in Seq(T) /\ Paired(s) /\ AsRequested(s, q)

\* How the kinds of options exclude one another.
LEMMA OptionsAre ==
  /\ Valued \subseteq Options /\ Triggers \subseteq Options /\ Bare \subseteq Options
  /\ Valued \cap Triggers = {} /\ Valued \cap Bare = {}
  /\ {"--spec", "-l", "-w"} \subseteq Valued
BY DEF Valued, Triggers, Bare, Options

\* Options and their values leave no option waiting for a value.
LEMMA PairedIsClosed ==
  ASSUME NEW T, NEW s \in Seq(T), Paired(s)
  PROVE  Closed(s, T)
<1>1. NoneForValue(s)
  BY DEF NoneForValue, Paired
<1>2. Len(s) + 1 \notin DOMAIN s
  OBVIOUS
<1>3. Len(s) \in DOMAIN s => s[Len(s)] \notin Valued
  BY <1>2 DEF Paired
<1> QED
  BY <1>1, <1>3 DEF Closed

\* Neither do words.
LEMMA WordsAreClosed ==
  ASSUME NEW T, NEW s \in Seq(T), \A n \in DOMAIN s : s[n] \notin Options
  PROVE  Closed(s, T)
<1>1. \A n \in DOMAIN s : s[n] \notin Valued
  BY OptionsAre
<1> QED
  BY <1>1 DEF Closed, NoneForValue

\* Where a token of two lists and the one after it come from.
Neighbours(u, s, t) ==
  \A n \in DOMAIN u :
    \/ n \in DOMAIN s /\ n + 1 \in DOMAIN s /\ u[n] = s[n] /\ u[n + 1] = s[n + 1] /\ n + 1 \in DOMAIN u
    \/ /\ n \in DOMAIN s /\ n + 1 \notin DOMAIN s /\ n = Len(s) /\ u[n] = s[n]
       /\ n + 1 \in DOMAIN u => 1 \in DOMAIN t /\ u[n + 1] = t[1]
    \/ \E m \in DOMAIN t :
         /\ u[n] = t[m] /\ (n + 1 \in DOMAIN u <=> m + 1 \in DOMAIN t)
         /\ m + 1 \in DOMAIN t => u[n + 1] = t[m + 1]
         /\ n = 1 => m = 1 /\ s = <<>>

\* Two tokens that stand together do so in one of two lists, or where they meet.
LEMMA ConcatNeighbours ==
  ASSUME NEW T, NEW s \in Seq(T), NEW t \in Seq(T)
  PROVE  Neighbours(s \o t, s, t)
<1> DEFINE u == s \o t
           S == Len(s)
           L == Len(t)
<1>1. IsConcat(u, s, t, T)
  BY ConcatIs
<1> HIDE DEF u
<1>2. /\ S \in Nat /\ L \in Nat /\ DOMAIN u = 1..(S + L) /\ DOMAIN s = 1..S /\ DOMAIN t = 1..L
      /\ \A n \in 1..S : u[n] = s[n]
      /\ \A n \in 1..L : u[S + n] = t[n]
  BY <1>1 DEF IsConcat
<1>3. S = 0 => s = <<>>
  OBVIOUS
<1>4. S = Len(s)
  OBVIOUS
<1> HIDE DEF S, L
<1>5. ASSUME NEW n \in DOMAIN u
      PROVE  \/ n \in DOMAIN s /\ n + 1 \in DOMAIN s /\ u[n] = s[n] /\ u[n + 1] = s[n + 1] /\ n + 1 \in DOMAIN u
             \/ /\ n \in DOMAIN s /\ n + 1 \notin DOMAIN s /\ n = Len(s) /\ u[n] = s[n]
                /\ n + 1 \in DOMAIN u => 1 \in DOMAIN t /\ u[n + 1] = t[1]
             \/ \E m \in DOMAIN t :
                  /\ u[n] = t[m] /\ (n + 1 \in DOMAIN u <=> m + 1 \in DOMAIN t)
                  /\ m + 1 \in DOMAIN t => u[n + 1] = t[m + 1]
                  /\ n = 1 => m = 1 /\ s = <<>>
  <2>1. CASE n < S
    <3>1. n \in 1..S /\ n + 1 \in 1..S /\ n + 1 \in 1..(S + L)
      BY <1>2, <2>1
    <3> QED
      BY <1>2, <3>1
  <2>2. CASE n = S
    <3>1. n \in 1..S /\ n + 1 \notin 1..S /\ (n + 1 \in 1..(S + L) => 1 \in 1..L /\ n + 1 = S + 1)
      BY <1>2, <2>2
    <3> QED
      BY <1>2, <1>4, <2>2, <3>1
  <2>3. CASE n > S
    <3> DEFINE m == n - S
    <3>1. m \in 1..L /\ n = S + m /\ n + 1 = S + (m + 1) /\ (n + 1 \in 1..(S + L) <=> m + 1 \in 1..L)
      BY <1>2, <2>3
    <3>2. n = 1 => m = 1 /\ S = 0
      BY <1>2, <2>3
    <3> HIDE DEF m
    <3> QED
      BY <1>2, <1>3, <3>1, <3>2
  <2> QED
    BY <1>2, <2>1, <2>2, <2>3
<1>6. Neighbours(u, s, t)
  BY <1>5 DEF Neighbours
<1> QED
  BY <1>6 DEF u

\* Two pieces that are composed for a request are composed together.
LEMMA ComposedBoth ==
  ASSUME NEW T, NEW q, NEW s, NEW t, Composed(s, q, T), Composed(t, q, T)
  PROVE  Composed(s \o t, q, T)
<1> DEFINE u == s \o t
<1>1. s \in Seq(T) /\ t \in Seq(T) /\ Paired(s) /\ Paired(t) /\ AsRequested(s, q) /\ AsRequested(t, q)
  BY DEF Composed
<1>2. u \in Seq(T) /\ Neighbours(u, s, t)
  BY <1>1, ConcatNeighbours
<1> HIDE DEF u
<1>3. ASSUME NEW n \in DOMAIN u
      PROVE  /\ u[n] \in Valued <=> n + 1 \in DOMAIN u /\ u[n + 1] \notin Options
             /\ n = 1 => u[n] \in Options
             /\ u[n] = "--spec" => u[n + 1] = q.spec
             /\ u[n] = "-l" => u[n + 1] = q.harness
             /\ u[n] = "-w" => u[n + 1] = q.workload
  <2>1. CASE n \in DOMAIN s /\ n + 1 \in DOMAIN s /\ u[n] = s[n] /\ u[n + 1] = s[n + 1] /\ n + 1 \in DOMAIN u
    BY <1>1, <2>1 DEF Paired, AsRequested
  <2>2. CASE /\ n \in DOMAIN s /\ n + 1 \notin DOMAIN s /\ u[n] = s[n]
             /\ n + 1 \in DOMAIN u => 1 \in DOMAIN t /\ u[n + 1] = t[1]
    <3>1. u[n] \notin Valued /\ (n = 1 => u[n] \in Options)
      BY <1>1, <2>2 DEF Paired
    <3>2. n + 1 \in DOMAIN u => u[n + 1] \in Options
      BY <1>1, <2>2 DEF Paired
    <3> QED
      BY <3>1, <3>2, OptionsAre
  <2>3. CASE \E m \in DOMAIN t :
               /\ u[n] = t[m] /\ (n + 1 \in DOMAIN u <=> m + 1 \in DOMAIN t)
               /\ m + 1 \in DOMAIN t => u[n + 1] = t[m + 1]
               /\ n = 1 => m = 1 /\ s = <<>>
    <3>1. PICK m \in DOMAIN t :
               /\ u[n] = t[m] /\ (n + 1 \in DOMAIN u <=> m + 1 \in DOMAIN t)
               /\ m + 1 \in DOMAIN t => u[n + 1] = t[m + 1]
               /\ n = 1 => m = 1 /\ s = <<>>
      BY <2>3
    <3>2. /\ t[m] \in Valued <=> m + 1 \in DOMAIN t /\ t[m + 1] \notin Options
          /\ m = 1 => t[m] \in Options
          /\ t[m] = "--spec" => t[m + 1] = q.spec
          /\ t[m] = "-l" => t[m + 1] = q.harness
          /\ t[m] = "-w" => t[m + 1] = q.workload
      BY <1>1 DEF Paired, AsRequested
    <3>3. u[n] \in {"--spec", "-l", "-w"} => u[n + 1] = t[m + 1]
      BY <3>1, <3>2, OptionsAre
    <3> QED
      BY <3>1, <3>2, <3>3
  <2> QED
    BY <1>2, <2>1, <2>2, <2>3 DEF Neighbours
<1>4. Composed(u, q, T)
  BY <1>2, <1>3 DEF Composed, Paired, AsRequested
<1> QED
  BY <1>4 DEF u

\* What waits for no value may be followed by anything.
LEMMA ClosedBoth ==
  ASSUME NEW T, NEW s, NEW t \in Seq(T), Closed(s, T), NoneForValue(t)
  PROVE  s \o t \in Seq(T) /\ NoneForValue(s \o t) /\ (Closed(t, T) => Closed(s \o t, T))
<1> DEFINE u == s \o t
<1>1. s \in Seq(T) /\ NoneForValue(s) /\ (Len(s) \in DOMAIN s => s[Len(s)] \notin Valued)
  BY DEF Closed
<1>2. u \in Seq(T) /\ Neighbours(u, s, t) /\ IsConcat(u, s, t, T)
  BY <1>1, ConcatNeighbours, ConcatIs
<1> HIDE DEF u
<1>3. NoneForValue(u)
  <2> SUFFICES ASSUME NEW n \in DOMAIN u, u[n] \in Valued, n + 1 \in DOMAIN u PROVE u[n + 1] \notin Options
    BY DEF NoneForValue
  <2>1. CASE n \in DOMAIN s /\ n + 1 \in DOMAIN s /\ u[n] = s[n] /\ u[n + 1] = s[n + 1]
    BY <1>1, <2>1 DEF NoneForValue
  <2>2. CASE n \in DOMAIN s /\ n = Len(s) /\ u[n] = s[n]
    BY <1>1, <2>2
  <2>3. CASE \E m \in DOMAIN t : u[n] = t[m] /\ m + 1 \in DOMAIN t /\ u[n + 1] = t[m + 1]
    BY <2>3 DEF NoneForValue
  <2> QED
    BY <1>2, <2>1, <2>2, <2>3 DEF Neighbours
<1>4. ASSUME Closed(t, T) PROVE Closed(u, T)
  <2>1. /\ Len(u) = Len(s) + Len(t) /\ Len(s) \in Nat /\ Len(t) \in Nat
        /\ DOMAIN s = 1..Len(s) /\ DOMAIN t = 1..Len(t) /\ DOMAIN u = 1..(Len(s) + Len(t))
        /\ \A n \in 1..Len(s) : u[n] = s[n]
        /\ \A n \in 1..Len(t) : u[Len(s) + n] = t[n]
    BY <1>2 DEF IsConcat
  <2> DEFINE S == Len(s)
             L == Len(t)
  <2>2. CASE L = 0
    <3>1. Len(u) = S
      BY <2>1, <2>2
    <3> HIDE DEF S
    <3>2. Len(u) \in DOMAIN u => S \in DOMAIN s /\ u[S] = s[S]
      BY <2>1, <2>2, <3>1 DEF S, L
    <3> QED
      BY <1>1, <1>2, <1>3, <3>1, <3>2 DEF Closed, S
  <2>3. CASE L # 0
    <3>1. L \in 1..L /\ L \in DOMAIN t
      BY <2>1, <2>3
    <3>2. u[S + L] = t[L]
      BY <2>1, <3>1
    <3>3. t[L] \notin Valued
      BY <1>4, <3>1 DEF Closed
    <3> QED
      BY <1>2, <1>3, <2>1, <3>2, <3>3 DEF Closed
  <2> QED
    BY <2>2, <2>3
<1> QED
  BY <1>2, <1>3, <1>4 DEF u

\* Pieces of a command line.
LEMMA NothingComposed ==
  ASSUME NEW T, NEW q
  PROVE  Composed(<<>>, q, T)
BY DEF Composed, Paired, AsRequested

\* An option without a value.
LEMMA OneComposed ==
  ASSUME NEW T, NEW q, NEW x \in T, x \in Options \ Valued
  PROVE  Composed(<<x>>, q, T)
<1> DEFINE one == <<x>>
<1>0. one \in Seq(T) /\ Len(one) = 1 /\ one[1] = x
  OBVIOUS
<1> HIDE DEF one
<1>1. one \in Seq(T) /\ DOMAIN one = {1} /\ one[1] = x
  BY <1>0
<1>2. x \notin {"--spec", "-l", "-w"}
  BY OptionsAre
<1>3. Composed(one, q, T)
  BY <1>1, <1>2 DEF Composed, Paired, AsRequested
<1> QED
  BY <1>3 DEF one

\* An option and its value.
LEMMA PairComposed ==
  ASSUME NEW T, NEW q, NEW x \in T, x \in Valued, NEW value \in T, value \notin Options,
         x = "--spec" => value = q.spec, x = "-l" => value = q.harness, x = "-w" => value = q.workload
  PROVE  Composed(<<x, value>>, q, T)
<1> DEFINE two == <<x, value>>
<1>1. two \in Seq(T) /\ DOMAIN two = {1, 2} /\ two[1] = x /\ two[2] = value
  OBVIOUS
<1> HIDE DEF two
<1>2. x \in Options /\ value \notin {"--spec", "-l", "-w"} /\ value \notin Valued
  BY OptionsAre
<1>3. two[1 + 1] = value /\ 2 + 1 \notin DOMAIN two /\ 1 + 1 \in DOMAIN two
  BY <1>1
<1>4. Paired(two)
  BY <1>1, <1>2, <1>3 DEF Paired
<1>5. AsRequested(two, q)
  BY <1>1, <1>2, <1>3 DEF AsRequested
<1>6. Composed(two, q, T)
  BY <1>1, <1>4, <1>5 DEF Composed
<1> QED
  BY <1>6 DEF two

\* A piece that is emitted under a condition.
LEMMA OnComposed ==
  ASSUME NEW T, NEW q, NEW s, Composed(s, q, T), NEW condition
  PROVE  Composed(On(condition, s), q, T)
BY NothingComposed DEF On

\* A field that may not be given.
LEMMA GivenComposed ==
  ASSUME NEW T, NEW q, NEW x \in T, x \in Valued, NEW value \in T, value \notin Options,
         x = "--spec" => value = q.spec, x = "-l" => value = q.harness, x = "-w" => value = q.workload
  PROVE  Composed(Given(x, value), q, T)
<1>1. Composed(<<x, value>>, q, T)
  BY PairComposed
<1> QED
  BY <1>1, NothingComposed DEF Given

\* The options with values that are no name of the request.
LEMMA LiteralPair ==
  ASSUME NEW T, NEW q, NEW x \in T, x \in Valued \ {"--spec", "-l", "-w"}, NEW value \in T, value \notin Options,
         NEW condition
  PROVE  Composed(On(condition, <<x, value>>), q, T)
<1>1. Composed(<<x, value>>, q, T)
  BY PairComposed
<1> QED
  BY <1>1, OnComposed

\* An option without a value, under a condition.
LEMMA LiteralOne ==
  ASSUME NEW T, NEW q, NEW x \in T, x \in Options \ Valued, NEW condition
  PROVE  Composed(On(condition, <<x>>), q, T)
BY OneComposed, OnComposed

Literals == {"pool", "2", "url", "file", "here", "ns", "local"}
Emitted == {"--stop-on-error", "--monitoring", "--no-monitoring", "--list-endpoints", "-z", "--dry-run",
            "--generate-config", "-d", "-n"}
EmittedPairs == {"--stack", "--parallel", "-x", "-c", "--wait-timeout", "--workspace", "-p", "-r", "-e"}

\* What is emitted is an option of its kind, and the values are none.
LEMMA LiteralsAre ==
  /\ Literals \cap Options = {}
  /\ Emitted \subseteq Options \ Valued
  /\ EmittedPairs \subseteq Valued \ {"--spec", "-l", "-w"}
<1>1. Literals \cap Options = {}
  BY DEF Literals, Options, Valued, Triggers, Bare
<1>2. Emitted \subseteq Options \ Valued
  BY DEF Emitted, Options, Valued, Triggers, Bare
<1>3. EmittedPairs \subseteq Valued \ {"--spec", "-l", "-w"}
  BY DEF EmittedPairs, Valued
<1> QED
  BY <1>1, <1>2, <1>3

\* Every flag that is emitted is an option with its value, or alone.
LEMMA FlagComposed ==
  ASSUME NEW T, Options \cup Literals \subseteq T, NEW q, NEW condition
  PROVE  /\ \A x \in Emitted : Composed(On(condition, <<x>>), q, T)
         /\ \A x \in EmittedPairs, v \in Literals : Composed(On(condition, <<x, v>>), q, T)
<1>1. ASSUME NEW x \in Emitted PROVE Composed(On(condition, <<x>>), q, T)
  <2>1. x \in T /\ x \in Options \ Valued
    BY LiteralsAre, OptionsAre
  <2> QED
    BY <2>1, LiteralOne
<1>2. ASSUME NEW x \in EmittedPairs, NEW v \in Literals PROVE Composed(On(condition, <<x, v>>), q, T)
  <2>1. x \in T /\ x \in Valued \ {"--spec", "-l", "-w"} /\ v \in T /\ v \notin Options
    BY LiteralsAre, OptionsAre
  <2> QED
    BY <2>1, LiteralPair
<1> QED
  BY <1>1, <1>2

\* The options that ride on some subcommands only.
LEMMA SubcommandFlagsComposed ==
  ASSUME NEW T, Options \cup Literals \subseteq T, NEW q, NEW sub, NEW flags
  PROVE  Composed(SubcommandFlags(sub, flags), q, T)
<1> DEFINE on(key, subs, tokens) == On(key \in flags /\ sub \in subs, tokens)
           a == on("stack", {"standup", "smoketest", "run", "teardown"}, <<"--stack", "pool">>)
           b == on("parallel", {"standup", "smoketest", "experiment"}, <<"--parallel", "2">>)
           c == on("dataset", {"run", "experiment"}, <<"-x", "url">>)
           d == on("generate_config", {"run"}, <<"--generate-config">>)
           e == on("run_config", {"run"}, <<"-c", "file">>)
           f == on("debug", {"run", "experiment"}, <<"-d">>)
<1>1. SubcommandFlags(sub, flags) = ((((a \o b) \o c) \o d) \o e) \o f
  BY DEF SubcommandFlags
<1>2. Composed(a, q, T) /\ Composed(b, q, T) /\ Composed(c, q, T) /\ Composed(d, q, T) /\ Composed(e, q, T) /\ Composed(f, q, T)
  <2>1. \A condition : /\ \A x \in Emitted : Composed(On(condition, <<x>>), q, T)
                       /\ \A x \in EmittedPairs, v \in Literals : Composed(On(condition, <<x, v>>), q, T)
    BY FlagComposed
  <2>2. {"--generate-config", "-d"} \subseteq Emitted /\ {"--stack", "--parallel", "-x", "-c"} \subseteq EmittedPairs
        /\ {"pool", "2", "url", "file"} \subseteq Literals
    BY DEF Emitted, EmittedPairs, Literals
  <2>3. Composed(a, q, T)
    BY <2>1, <2>2
  <2>4. Composed(b, q, T)
    BY <2>1, <2>2
  <2>5. Composed(c, q, T)
    BY <2>1, <2>2
  <2>6. Composed(d, q, T)
    BY <2>1, <2>2
  <2>7. Composed(e, q, T)
    BY <2>1, <2>2
  <2>8. Composed(f, q, T)
    BY <2>1, <2>2
  <2> QED
    BY <2>3, <2>4, <2>5, <2>6, <2>7, <2>8
<1> HIDE DEF a, b, c, d, e, f
<1>3. Composed(a \o b, q, T)
  BY <1>2, ComposedBoth
<1>4. Composed((a \o b) \o c, q, T)
  BY <1>2, <1>3, ComposedBoth
<1>5. Composed(((a \o b) \o c) \o d, q, T)
  BY <1>2, <1>4, ComposedBoth
<1>6. Composed((((a \o b) \o c) \o d) \o e, q, T)
  BY <1>2, <1>5, ComposedBoth
<1>7. Composed(((((a \o b) \o c) \o d) \o e) \o f, q, T)
  BY <1>2, <1>6, ComposedBoth
<1> QED
  BY <1>1, <1>7

\* The options that are switched on.
LEMMA TogglesComposed ==
  ASSUME NEW T, Options \cup Literals \subseteq T, NEW q, NEW sub, NEW flags
  PROVE  Composed(Toggles(sub, flags), q, T)
<1> DEFINE a == On("stop_on_error" \in flags, <<"--stop-on-error">>)
           b == On("monitoring" \in flags, <<"--monitoring">>)
           c == On("no_monitoring" \in flags /\ sub = "standup", <<"--no-monitoring">>)
           d == On("wait_timeout" \in flags /\ sub \in {"run", "experiment"}, <<"--wait-timeout", "2">>)
           e == On("list_endpoints" \in flags, <<"--list-endpoints">>)
           f == On("skip" \in flags, <<"-z">>)
           g == On("dry_run" \in flags, <<"--dry-run">>)
<1>1. Toggles(sub, flags) = (((((a \o b) \o c) \o d) \o e) \o f) \o g
  BY DEF Toggles
<1>2. Composed(a, q, T) /\ Composed(b, q, T) /\ Composed(c, q, T) /\ Composed(d, q, T) /\ Composed(e, q, T) /\ Composed(f, q, T)
      /\ Composed(g, q, T)
  <2>1. \A condition : /\ \A x \in Emitted : Composed(On(condition, <<x>>), q, T)
                       /\ \A x \in EmittedPairs, v \in Literals : Composed(On(condition, <<x, v>>), q, T)
    BY FlagComposed
  <2>2. {"--stop-on-error", "--monitoring", "--no-monitoring", "--list-endpoints", "-z", "--dry-run"} \subseteq Emitted
        /\ "--wait-timeout" \in EmittedPairs /\ "2" \in Literals
    BY DEF Emitted, EmittedPairs, Literals
  <2>3. Composed(a, q, T)
    BY <2>1, <2>2
  <2>4. Composed(b, q, T)
    BY <2>1, <2>2
  <2>5. Composed(c, q, T)
    BY <2>1, <2>2
  <2>6. Composed(d, q, T)
    BY <2>1, <2>2
  <2>7. Composed(e, q, T)
    BY <2>1, <2>2
  <2>8. Composed(f, q, T)
    BY <2>1, <2>2
  <2>9. Composed(g, q, T)
    BY <2>1, <2>2
  <2> QED
    BY <2>3, <2>4, <2>5, <2>6, <2>7, <2>8, <2>9
<1> HIDE DEF a, b, c, d, e, f, g
<1>3. Composed(a \o b, q, T)
  BY <1>2, ComposedBoth
<1>4. Composed((a \o b) \o c, q, T)
  BY <1>2, <1>3, ComposedBoth
<1>5. Composed(((a \o b) \o c) \o d, q, T)
  BY <1>2, <1>4, ComposedBoth
<1>6. Composed((((a \o b) \o c) \o d) \o e, q, T)
  BY <1>2, <1>5, ComposedBoth
<1>7. Composed(((((a \o b) \o c) \o d) \o e) \o f, q, T)
  BY <1>2, <1>6, ComposedBoth
<1>8. Composed((((((a \o b) \o c) \o d) \o e) \o f) \o g, q, T)
  BY <1>2, <1>7, ComposedBoth
<1> QED
  BY <1>1, <1>8

-----------------------------------------------------------------------------
(* The command that is composed for a request. *)

\* The parts of a composed command: what stands before the subcommand, and after it up to
\* what is passed through.
Before(q) == Given("--spec", q.spec) \o On("workspace" \in Anchored(q), <<"--workspace", "here">>)
Middle(q) ==
  LET flags == Anchored(q)
  IN  <<"-p", "ns">> \o Given("-l", q.harness) \o Given("-w", q.workload)
      \o On("output" \in flags, <<"-r", "local">>) \o On("experiments" \in flags, <<"-e", "file">>)
      \o SubcommandFlags(q.sub, flags) \o Toggles(q.sub, flags)

\* A set of tokens in which a request can be written.
Speaks(T, q) ==
  /\ Options \cup Literals \cup {"llmdbenchmark", q.sub, q.spec, q.harness, q.workload} \subseteq T
  /\ q.extra \in Seq(T)
Names(q) == {q.spec, q.harness, q.workload} \cap Options = {}

\* The names of a request, where they are given.
LEMMA GivenFor ==
  ASSUME NEW q, NEW T, Speaks(T, q), Names(q)
  PROVE  /\ Composed(Given("--spec", q.spec), q, T)
         /\ Composed(Given("-l", q.harness), q, T)
         /\ Composed(Given("-w", q.workload), q, T)
<1>1. /\ q.spec \in T /\ q.harness \in T /\ q.workload \in T
      /\ q.spec \notin Options /\ q.harness \notin Options /\ q.workload \notin Options
      /\ Options \subseteq T
  BY DEF Speaks, Names
<1> DEFINE s == "--spec"
           h == "-l"
           w == "-w"
<1>2. /\ s \in Valued /\ h \in Valued /\ w \in Valued /\ s \in T /\ h \in T /\ w \in T
  BY <1>1, OptionsAre
<1>3. s # "-l" /\ s # "-w" /\ h # "--spec" /\ h # "-w" /\ w # "--spec" /\ w # "-l"
  OBVIOUS
<1> HIDE DEF s, h, w
<1>4. Composed(Given(s, q.spec), q, T)
  BY <1>1, <1>2, <1>3, GivenComposed
<1>5. Composed(Given(h, q.harness), q, T)
  BY <1>1, <1>2, <1>3, GivenComposed
<1>6. Composed(Given(w, q.workload), q, T)
  BY <1>1, <1>2, <1>3, GivenComposed
<1> QED
  BY <1>4, <1>5, <1>6 DEF s, h, w

\* What is composed before the subcommand.
LEMMA BeforeIs ==
  ASSUME NEW q, NEW T, Speaks(T, q), Names(q)
  PROVE  /\ Composed(Before(q), q, T)
         /\ ToSet(Before(q)) \subseteq {"--spec", q.spec, "--workspace", "here"}
<1> DEFINE a == Given("--spec", q.spec)
           b == On("workspace" \in Anchored(q), <<"--workspace", "here">>)
<1>1. Composed(a, q, T)
  BY GivenFor
<1>2. Composed(b, q, T)
  <2>1. \A x \in EmittedPairs, v \in Literals : Composed(On("workspace" \in Anchored(q), <<x, v>>), q, T)
    BY FlagComposed DEF Speaks
  <2>2. "--workspace" \in EmittedPairs /\ "here" \in Literals
    BY DEF EmittedPairs, Literals
  <2> QED
    BY <2>1, <2>2
<1>3. ToSet(a) \subseteq {"--spec", q.spec}
  <2>1. a = <<>> \/ a = <<"--spec", q.spec>>
    BY DEF Given
  <2>2. ToSet(<<>>) = {} /\ ToSet(<<"--spec", q.spec>>) \subseteq {"--spec", q.spec}
    BY DEF ToSet
  <2> QED
    BY <2>1, <2>2
<1>4. ToSet(b) \subseteq {"--workspace", "here"}
  BY DEF On, ToSet
<1> HIDE DEF a, b
<1>5. Composed(a \o b, q, T)
  BY <1>1, <1>2, ComposedBoth
<1>6. ToSet(a \o b) = ToSet(a) \cup ToSet(b)
  BY <1>1, <1>2, ToSetOfBoth DEF Composed
<1> QED
  BY <1>3, <1>4, <1>5, <1>6 DEF Before, a, b

\* What is composed after the subcommand.
LEMMA MiddleIs ==
  ASSUME NEW q, NEW T, Speaks(T, q), Names(q)
  PROVE  Composed(Middle(q), q, T)
<1> DEFINE flags == Anchored(q)
           a == <<"-p", "ns">>
           b == Given("-l", q.harness)
           c == Given("-w", q.workload)
           d == On("output" \in flags, <<"-r", "local">>)
           e == On("experiments" \in flags, <<"-e", "file">>)
           f == SubcommandFlags(q.sub, flags)
           g == Toggles(q.sub, flags)
<1>1. Middle(q) = (((((a \o b) \o c) \o d) \o e) \o f) \o g
  BY DEF Middle
<1>2. Composed(a, q, T)
  <2>1. Composed(On(TRUE, <<"-p", "ns">>), q, T)
    <3>1. "-p" \in EmittedPairs /\ "ns" \in Literals
      BY DEF EmittedPairs, Literals
    <3>2. \A x \in EmittedPairs, v \in Literals : Composed(On(TRUE, <<x, v>>), q, T)
      BY FlagComposed DEF Speaks
    <3> QED
      BY <3>1, <3>2
  <2> QED
    BY <2>1 DEF On
<1>3. Composed(b, q, T) /\ Composed(c, q, T)
  BY GivenFor
<1>4. Composed(d, q, T) /\ Composed(e, q, T)
  <2>1. "-r" \in EmittedPairs /\ "local" \in Literals /\ "-e" \in EmittedPairs /\ "file" \in Literals
    BY DEF EmittedPairs, Literals
  <2>2. \A condition : \A x \in EmittedPairs, v \in Literals : Composed(On(condition, <<x, v>>), q, T)
    BY FlagComposed DEF Speaks
  <2>3. Composed(d, q, T)
    BY <2>1, <2>2
  <2>4. Composed(e, q, T)
    BY <2>1, <2>2
  <2> QED
    BY <2>3, <2>4
<1>5. Composed(f, q, T)
  BY SubcommandFlagsComposed DEF Speaks
<1>6. Composed(g, q, T)
  BY TogglesComposed DEF Speaks
<1> HIDE DEF a, b, c, d, e, f, g
<1>7. Composed(a \o b, q, T)
  BY <1>2, <1>3, ComposedBoth
<1>8. Composed((a \o b) \o c, q, T)
  BY <1>3, <1>7, ComposedBoth
<1>9. Composed(((a \o b) \o c) \o d, q, T)
  BY <1>4, <1>8, ComposedBoth
<1>10. Composed((((a \o b) \o c) \o d) \o e, q, T)
  BY <1>4, <1>9, ComposedBoth
<1>11. Composed(((((a \o b) \o c) \o d) \o e) \o f, q, T)
  BY <1>5, <1>10, ComposedBoth
<1>12. Composed((((((a \o b) \o c) \o d) \o e) \o f) \o g, q, T)
  BY <1>6, <1>11, ComposedBoth
<1> QED
  BY <1>1, <1>12

\* Seven lists that are appended one by one are appended as one.
AppendsAsOne(h, a, b, c, d, e, f, g, x) ==
  (((((((h \o a) \o b) \o c) \o d) \o e) \o f) \o g) \o x
    = h \o (((((((a \o b) \o c) \o d) \o e) \o f) \o g) \o x)

\* The order of appending does not matter.
LEMMA AppendsAtOnce ==
  ASSUME NEW T, NEW h \in Seq(T), NEW a \in Seq(T), NEW b \in Seq(T), NEW c \in Seq(T), NEW d \in Seq(T),
         NEW e \in Seq(T), NEW f \in Seq(T), NEW g \in Seq(T), NEW x \in Seq(T)
  PROVE  AppendsAsOne(h, a, b, c, d, e, f, g, x)
<1> DEFINE m2 == a \o b
           m3 == m2 \o c
           m4 == m3 \o d
           m5 == m4 \o e
           m6 == m5 \o f
           m7 == m6 \o g
<1>1. Reassociates(h, a, b) /\ m2 \in Seq(T)
  BY ConcatTwice
<1> HIDE DEF m2
<1>2. Reassociates(h, m2, c) /\ m3 \in Seq(T)
  BY <1>1, ConcatTwice
<1> HIDE DEF m3
<1>3. Reassociates(h, m3, d) /\ m4 \in Seq(T)
  BY <1>2, ConcatTwice
<1> HIDE DEF m4
<1>4. Reassociates(h, m4, e) /\ m5 \in Seq(T)
  BY <1>3, ConcatTwice
<1> HIDE DEF m5
<1>5. Reassociates(h, m5, f) /\ m6 \in Seq(T)
  BY <1>4, ConcatTwice
<1> HIDE DEF m6
<1>6. Reassociates(h, m6, g) /\ m7 \in Seq(T)
  BY <1>5, ConcatTwice
<1> HIDE DEF m7
<1>7. Reassociates(h, m7, x)
  BY <1>6, ConcatTwice
<1> QED
  BY <1>1, <1>2, <1>3, <1>4, <1>5, <1>6, <1>7, Zenon DEF AppendsAsOne, Reassociates, m2, m3, m4, m5, m6, m7

\* The one command that is composed for a request that is not for the store.
LEMMA ComposedLine ==
  ASSUME NEW q, q.sub # "results", NEW T, Speaks(T, q), Names(q)
  PROVE  BuildArgv(q) = {CommandLine("llmdbenchmark", Before(q), q.sub, Middle(q) \o q.extra)}
<1> DEFINE flags == Anchored(q)
           exe == <<"llmdbenchmark">>
           s == Given("--spec", q.spec)
           w == On("workspace" \in flags, <<"--workspace", "here">>)
           sub == <<q.sub>>
           h == ((exe \o s) \o w) \o sub
           a == <<"-p", "ns">>
           b == Given("-l", q.harness)
           c == Given("-w", q.workload)
           d == On("output" \in flags, <<"-r", "local">>)
           e == On("experiments" \in flags, <<"-e", "file">>)
           f == SubcommandFlags(q.sub, flags)
           g == Toggles(q.sub, flags)
           x == q.extra
<1>1. BuildArgv(q) = {(((((((h \o a) \o b) \o c) \o d) \o e) \o f) \o g) \o x}
  BY DEF BuildArgv
<1>2. Middle(q) = (((((a \o b) \o c) \o d) \o e) \o f) \o g
  BY DEF Middle
<1>3. s \in Seq(T) /\ b \in Seq(T) /\ c \in Seq(T)
  BY GivenFor DEF Composed
<1>4. w \in Seq(T) /\ d \in Seq(T) /\ e \in Seq(T) /\ a \in Seq(T)
  BY DEF On, Speaks, Literals, Options, Valued
<1>5. f \in Seq(T) /\ g \in Seq(T)
  BY SubcommandFlagsComposed, TogglesComposed DEF Speaks, Composed
<1>6. x \in Seq(T) /\ exe \in Seq(T) /\ sub \in Seq(T)
  BY DEF Speaks
<1>7. Before(q) = s \o w
  BY DEF Before
<1> HIDE DEF a, b, c, d, e, f, g, x, s, w, sub, exe
<1>8. h \in Seq(T) /\ Reassociates(exe, s, w)
  BY <1>3, <1>4, <1>6, ConcatTwice
<1>9. h = (exe \o Before(q)) \o sub
  BY <1>7, <1>8 DEF Reassociates
<1> HIDE DEF h
<1>10. AppendsAsOne(h, a, b, c, d, e, f, g, x)
  BY <1>3, <1>4, <1>5, <1>6, <1>8, AppendsAtOnce
<1>11. (((((((h \o a) \o b) \o c) \o d) \o e) \o f) \o g) \o x = h \o (Middle(q) \o x)
  BY <1>2, <1>10 DEF AppendsAsOne
<1> QED
  BY <1>1, <1>9, <1>11 DEF CommandLine, exe, sub, x

-----------------------------------------------------------------------------
(* How a descent ends. *)

\* From a level the descent comes to a verdict in k steps.
Ends(level, verdict, k, catalog) ==
  \E st : /\ st[0] = level /\ st[k].verdict = verdict
          /\ \A j \in 1..k : st[j] = Deeper(st[j - 1], catalog)
          /\ Deeper(st[k], catalog) = st[k]

\* A level that stays has its own verdict.
LEMMA EndsHere ==
  ASSUME NEW level, NEW catalog, Deeper(level, catalog) = level
  PROVE  Ends(level, level.verdict, 0, catalog)
<1> DEFINE st == [j \in {0} |-> level]
<1>1. st[0] = level /\ \A j \in 1..0 : st[j] = Deeper(st[j - 1], catalog)
  OBVIOUS
<1> HIDE DEF st
<1> QED
  BY <1>1 DEF Ends

\* A level above one that comes to a verdict comes to the same.
LEMMA EndsDeeper ==
  ASSUME NEW level, NEW catalog, NEW verdict, NEW k \in Nat, Ends(Deeper(level, catalog), verdict, k, catalog)
  PROVE  Ends(level, verdict, k + 1, catalog)
<1>1. PICK st : /\ st[0] = Deeper(level, catalog) /\ st[k].verdict = verdict
                /\ \A j \in 1..k : st[j] = Deeper(st[j - 1], catalog)
                /\ Deeper(st[k], catalog) = st[k]
  BY DEF Ends
<1> DEFINE more == [j \in 0..(k + 1) |-> IF j = 0 THEN level ELSE st[j - 1]]
<1>2. more[0] = level /\ more[k + 1] = st[k]
  OBVIOUS
<1>3. ASSUME NEW j \in 1..(k + 1) PROVE more[j] = Deeper(more[j - 1], catalog)
  <2>1. CASE j = 1
    BY <1>1, <2>1
  <2>2. CASE j # 1
    <3>1. j - 1 \in 1..k /\ j \in 0..(k + 1) /\ j - 1 \in 0..(k + 1) /\ j # 0 /\ j - 1 # 0
      BY <2>2
    <3>2. more[j] = st[j - 1] /\ more[j - 1] = st[(j - 1) - 1]
      BY <3>1
    <3> QED
      BY <1>1, <3>1, <3>2
  <2> QED
    BY <2>1, <2>2
<1> HIDE DEF more
<1> QED
  BY <1>1, <1>2, <1>3 DEF Ends

\* The verdict a descent comes to is the verdict of walk_subcommand.
LEMMA EndsWalk ==
  ASSUME NEW T, NEW tokens \in Seq(T), NEW entry, NEW outer, NEW catalog, NEW verdict, NEW k \in Nat, k <= Len(tokens) + 1,
         Ends(Level(entry, tokens, outer, <<>>, "open"), verdict, k, catalog)
  PROVE  WalkSubcommand(entry, tokens, outer, catalog) = verdict
<1>1. PICK st : /\ st[0] = Level(entry, tokens, outer, <<>>, "open") /\ st[k].verdict = verdict
                /\ \A j \in 1..k : st[j] = Deeper(st[j - 1], catalog)
                /\ Deeper(st[k], catalog) = st[k]
  BY DEF Ends
<1>2. Descent(st, k, entry, tokens, outer, catalog)
  BY <1>1 DEF Descent
<1> QED
  BY <1>1, <1>2, DescentEnds

\* A refusal stays.
LEMMA EndsRejected ==
  ASSUME NEW entry, NEW tokens, NEW outer, NEW regions, NEW catalog
  PROVE  Ends(Level(entry, tokens, outer, regions, Rejected), Rejected, 0, catalog)
<1> DEFINE level == Level(entry, tokens, outer, regions, Rejected)
<1>1. level.verdict = Rejected
  BY DEF Level
<1>2. Deeper(level, catalog) = level
  BY VerdictKept DEF Rejected
<1> HIDE DEF level
<1> QED
  BY <1>1, <1>2, EndsHere DEF level

\* What a walk can say.
LEMMA WalkSays ==
  ASSUME NEW tokens, NEW flags, NEW positionals, NEW base, NEW triggered, NEW catalog
  PROVE  Walk(tokens, flags, positionals, base, triggered, catalog) \in {Rejected, "read_only", base}
BY DEF Walk

\* No trigger in the regions before.
Quiet(regions) == \A n \in DOMAIN regions : ~HasTrigger(regions[n].tokens, regions[n].flags)

\* One more region without a trigger.
LEMMA QuietMore ==
  ASSUME NEW R, NEW regions \in Seq(R), Quiet(regions), NEW before, NEW flags, [tokens |-> before, flags |-> flags] \in R,
         ~HasTrigger(before, flags)
  PROVE  /\ Append(regions, [tokens |-> before, flags |-> flags]) \in Seq(R)
         /\ Quiet(Append(regions, [tokens |-> before, flags |-> flags]))
<1> DEFINE r == [tokens |-> before, flags |-> flags]
           more == Append(regions, r)
           N == Len(regions)
<1>1. r \in R /\ r.tokens = before /\ r.flags = flags
  OBVIOUS
<1> HIDE DEF r
<1>2. more \in Seq(R) /\ DOMAIN more = 1..(N + 1) /\ DOMAIN regions = 1..N /\ N \in Nat
      /\ more[N + 1] = r /\ \A n \in 1..N : more[n] = regions[n]
  BY <1>1
<1> HIDE DEF more, N
<1>3. ASSUME NEW n \in 1..(N + 1) PROVE ~HasTrigger(more[n].tokens, more[n].flags)
  <2>1. CASE n = N + 1
    BY <1>1, <1>2, <2>1
  <2>2. CASE n \in 1..N
    BY <1>2, <2>2 DEF Quiet
  <2> QED
    BY <1>2, <2>1, <2>2
<1>4. more \in Seq(R) /\ Quiet(more)
  BY <1>2, <1>3 DEF Quiet
<1> QED
  BY <1>4 DEF more, r

\* The last level.
LEMMA EndsLeaf ==
  ASSUME NEW entry, NEW tokens, NEW outer, NEW regions, NEW catalog, entry.nested = <<>>, entry.mode # "open", Quiet(regions)
  PROVE  Ends(Level(entry, tokens, outer, regions, "open"),
              Walk(tokens, entry.flags \cup outer, entry.positionals, entry.mode, FALSE, catalog), 1, catalog)
<1> DEFINE flags == entry.flags \cup outer
           no == Triggered(regions, flags)
           verdict == Walk(tokens, flags, entry.positionals, entry.mode, no, catalog)
           level == Level(entry, tokens, outer, regions, "open")
           last == Level(entry, tokens, outer, regions, verdict)
<1>1. no = FALSE
  BY DEF Triggered, Quiet
<1>2. Deeper(level, catalog) = last
  BY LeafWalks
<1> HIDE DEF no
<1>3. verdict # "open"
  <2>1. verdict \in {Rejected, "read_only", entry.mode}
    BY WalkSays
  <2> QED
    BY <2>1 DEF Rejected
<1> HIDE DEF verdict
<1>4. Deeper(last, catalog) = last /\ last.verdict = verdict
  <2>1. Deeper(last, catalog) = last
    BY <1>3, VerdictKept
  <2> QED
    BY <2>1 DEF Level
<1> HIDE DEF last, level
<1>5. Ends(last, verdict, 0, catalog)
  BY <1>4, EndsHere
<1>6. Ends(level, verdict, 0 + 1, catalog)
  BY <1>2, <1>5, EndsDeeper
<1>7. 0 + 1 = 1
  OBVIOUS
<1> QED
  BY <1>1, <1>6, <1>7 DEF level, verdict, flags

\* A group says what its subcommand says, if what stands before that fits.
LEMMA GroupStep ==
  ASSUME NEW T, NEW before \in Seq(T), NEW word \in T, NEW after \in Seq(T), NEW entry, NEW outer, NEW regions,
         NEW catalog, NEW flags, flags = entry.flags \cup outer, Heads(before, flags), word \notin Options,
         entry.nested # <<>>, word \in DOMAIN entry.nested, NEW verdict, NEW k \in Nat,
         Ends(Level(entry.nested[word], after, flags, Append(regions, [tokens |-> before, flags |-> flags]), "open"),
              verdict, k, catalog)
  PROVE  Ends(Level(entry, Parts3(before, word, after), outer, regions, "open"),
              IF Fitting(before, flags, catalog) THEN verdict ELSE Rejected,
              IF Fitting(before, flags, catalog) THEN k + 1 ELSE 1, catalog)
<1> DEFINE level == Level(entry, Parts3(before, word, after), outer, regions, "open")
           next == Level(entry.nested[word], after, flags, Append(regions, [tokens |-> before, flags |-> flags]), "open")
           end == Level(entry, Parts3(before, word, after), outer, regions, Rejected)
<1>1. DescendsTo(Deeper(level, catalog), entry, before, word, after, outer, regions, catalog)
  BY Descends
<1>2. CASE Fitting(before, flags, catalog)
  <2>1. Deeper(level, catalog) = next
    BY <1>1, <1>2 DEF DescendsTo
  <2> HIDE DEF level, next
  <2>2. Ends(level, verdict, k + 1, catalog)
    BY <2>1, EndsDeeper DEF next
  <2> QED
    BY <1>2, <2>2 DEF level
<1>3. CASE ~Fitting(before, flags, catalog)
  <2>1. Deeper(level, catalog) = end
    BY <1>1, <1>3 DEF DescendsTo
  <2>2. Ends(end, Rejected, 0, catalog)
    BY EndsRejected
  <2> HIDE DEF level, end
  <2>3. Ends(level, Rejected, 0 + 1, catalog)
    BY <2>1, <2>2, EndsDeeper
  <2>4. 0 + 1 = 1
    OBVIOUS
  <2> QED
    BY <1>3, <2>3, <2>4 DEF level
<1> QED
  BY <1>2, <1>3

\* A word that names no subcommand is refused.
LEMMA UnnamedIsRefused ==
  ASSUME NEW T, NEW before \in Seq(T), NEW word \in T, NEW after \in Seq(T), NEW entry, NEW outer, NEW regions,
         NEW catalog, Heads(before, entry.flags \cup outer), word \notin Options,
         entry.nested # <<>>, word \notin DOMAIN entry.nested
  PROVE  Ends(Level(entry, Parts3(before, word, after), outer, regions, "open"), Rejected, 1, catalog)
<1> DEFINE tokens == Parts3(before, word, after)
           flags == entry.flags \cup outer
           k == Len(before) + 1
           s == Level(entry, tokens, outer, regions, "open")
           named == k # 0 /\ s.tokens[k] \in DOMAIN s.entry.nested
           end == Level(entry, tokens, outer, regions, Rejected)
<1>1. /\ tokens \in Seq(T) /\ k \in Nat /\ tokens[k] = word
  <2>1. AreParts(tokens, T, before, word, after)
    BY PartsAre
  <2> QED
    BY <2>1 DEF AreParts
<1>2. FindSubcommand(tokens, flags) = k
  <2> HIDE DEF flags
  <2>1. Leads(Parts3(before, word, after), Len(before) + 1, flags)
    BY HeadLeads DEF flags
  <2> QED
    BY <1>1, <2>1, SubcommandFound
<1> HIDE DEF tokens, k
<1>3. /\ s.entry = entry /\ s.tokens = tokens /\ s.outer = outer /\ s.regions = regions /\ s.verdict = "open"
  BY DEF Level
<1>4. ~named
  BY <1>1, <1>3
<1>5. Deeper(s, catalog) = [s EXCEPT !.verdict = Rejected]
  <2> HIDE DEF s
  <2>1. FindSubcommand(s.tokens, s.entry.flags \cup s.outer) = k
    BY <1>2, <1>3
  <2> QED
    BY <1>3, <1>4, <2>1 DEF Deeper
<1>6. Deeper(s, catalog) = end
  BY <1>5 DEF Level
<1>7. Ends(end, Rejected, 0, catalog)
  BY EndsRejected
<1> HIDE DEF s, end
<1>8. Ends(s, Rejected, 0 + 1, catalog)
  BY <1>6, <1>7, EndsDeeper
<1>9. 0 + 1 = 1
  OBVIOUS
<1> QED
  BY <1>8, <1>9 DEF s, tokens

\* The validation of a command line is the descent, as it has a subcommand.
LEMMA ValidateWalks ==
  ASSUME NEW T, NEW before \in Seq(T), NEW word \in T, NEW after \in Seq(T), Heads(before, GlobalFlags), word \notin Options,
         NEW argv, Tail(argv) = Parts3(before, word, after), NEW catalog, NEW verdict, NEW k \in Nat,
         Ends(Level(Group(Subcommands), Parts3(before, word, after), GlobalFlags, <<>>, "open"), verdict, k, catalog),
         k <= Len(before) + Len(after) + 2
  PROVE  Validate(argv, catalog) = verdict
<1> DEFINE tokens == Parts3(before, word, after)
<1>1. tokens \in Seq(T) /\ Len(before) + 1 \in Nat /\ Len(tokens) = (Len(before) + 1) + Len(after) /\ Len(after) \in Nat
  <2>1. AreParts(tokens, T, before, word, after)
    BY PartsAre
  <2> QED
    BY <2>1 DEF AreParts
<1>2. FindSubcommand(tokens, GlobalFlags) = Len(before) + 1
  <2>1. Leads(tokens, Len(before) + 1, GlobalFlags)
    BY HeadLeads
  <2> QED
    BY <1>1, <2>1, SubcommandFound
<1>3. k <= Len(tokens) + 1
  BY <1>1
<1> HIDE DEF tokens
<1>4. WalkSubcommand(Group(Subcommands), tokens, GlobalFlags, catalog) = verdict
  <2> DEFINE g == Group(Subcommands)
             f == GlobalFlags
  <2>1. Ends(Level(g, tokens, f, <<>>, "open"), verdict, k, catalog)
    BY DEF tokens
  <2> HIDE DEF g, f
  <2>2. WalkSubcommand(g, tokens, f, catalog) = verdict
    BY <1>1, <1>3, <2>1, EndsWalk
  <2> QED
    BY <2>2 DEF g, f
<1>5. Len(before) + 1 # 0
  BY <1>1
<1> QED
  BY <1>2, <1>4, <1>5 DEF Validate, tokens

-----------------------------------------------------------------------------
(* The policy's entry. *)

\* What the CLI makes of a token.
EffectCases(sub, token) ==
  /\ Effect(sub, token) \in Harmless <=>
       \/ token \in {"-n", "--dry-run"} /\ sub # "results"
       \/ token \in {"-z", "--list-endpoints"} /\ sub = "run"
       \/ token = "--version"
  /\ Effect(sub, token) = "deep" => token = "-d" /\ sub = "teardown"
  /\ token = "--dry-run" /\ sub # "results" => Effect(sub, token) = "preview"

\* Effect, case by case.
LEMMA EffectIs ==
  ASSUME NEW sub, NEW token
  PROVE  EffectCases(sub, token)
<1>1. CASE token \in {"-n", "--dry-run"} /\ sub # "results"
  <2>1. Effect(sub, token) = "preview"
    BY <1>1 DEF Effect
  <2> QED
    BY <1>1, <2>1 DEF EffectCases, Harmless
<1>2. CASE token = "-z" /\ sub = "run"
  <2>1. Effect(sub, token) = "collect"
    BY <1>2 DEF Effect
  <2> QED
    BY <1>2, <2>1 DEF EffectCases, Harmless
<1>3. CASE token = "--list-endpoints" /\ sub = "run"
  <2>1. Effect(sub, token) = "list"
    BY <1>3 DEF Effect
  <2> QED
    BY <1>3, <2>1 DEF EffectCases, Harmless
<1>4. CASE token = "-d" /\ sub = "teardown"
  <2>1. Effect(sub, token) = "deep"
    BY <1>4 DEF Effect
  <2> QED
    BY <1>4, <2>1 DEF EffectCases, Harmless
<1>5. CASE token = "--version"
  <2>1. Effect(sub, token) = "version"
    BY <1>5 DEF Effect
  <2> QED
    BY <1>5, <2>1 DEF EffectCases, Harmless
<1>6. CASE /\ ~(token \in {"-n", "--dry-run"} /\ sub # "results") /\ ~(token = "-z" /\ sub = "run")
           /\ ~(token = "--list-endpoints" /\ sub = "run") /\ ~(token = "-d" /\ sub = "teardown")
           /\ token # "--version"
  <2>1. Effect(sub, token) = "other"
    BY <1>6 DEF Effect
  <2> QED
    BY <1>6, <2>1 DEF EffectCases, Harmless
<1> QED
  BY <1>1, <1>2, <1>3, <1>4, <1>5, <1>6

\* The options that make a command harmless are the triggers that its entry knows.
TriggersAreHarmless(sub, flags) ==
  \A token : token \in (flags \cup GlobalFlags) \cap Triggers <=> Effect(sub, token) \in Harmless

\* The entry of a subcommand that is no group.
IsLeafFor(entry, sub) ==
  /\ entry.nested = <<>> /\ entry.flags \subseteq Options /\ entry.mode # "open" /\ entry.mode # Rejected
  /\ TriggersAreHarmless(sub, entry.flags)

\* The options of the CLI itself.
LEMMA GlobalFlagsAre ==
  /\ GlobalFlags \subseteq Options /\ "-n" \notin GlobalFlags
  /\ \A token : token \in GlobalFlags \cap Triggers <=> token = "--version"
  /\ {} \cup GlobalFlags = GlobalFlags
BY DEF GlobalFlags, Options, Valued, Triggers

Lines == {"plan", "standup", "smoketest", "run", "teardown", "experiment"}

\* The flags of the six.
LEMMA LinesAre ==
  ASSUME NEW sub \in Lines
  PROVE  /\ sub \in DOMAIN Subcommands /\ sub # "results" /\ sub \notin Options
         /\ IsLeafFor(Subcommands[sub], sub) /\ Subcommands[sub].positionals = <<>>
         /\ Subcommands[sub].mode = IF sub = "plan" THEN "read_only" ELSE "mutating"
<1> DEFINE entry == Subcommands[sub]
           leaf(mode, flags) == Leaf(mode, flags, <<>>)
<1>1. sub \in DOMAIN Subcommands /\ sub # "results"
  BY DEF Subcommands, Lines
<1>2. sub \notin Options
  BY DEF Lines, Options, Valued, Triggers, Bare
<1>3. \A mode, flags : /\ leaf(mode, flags).nested = <<>> /\ leaf(mode, flags).flags = flags
                       /\ leaf(mode, flags).positionals = <<>> /\ leaf(mode, flags).mode = mode
  BY DEF Leaf
<1>a. \A token : EffectCases(sub, token)
  BY EffectIs
<1> SUFFICES \E mode, flags : /\ entry = leaf(mode, flags) /\ flags \subseteq Options
                              /\ mode = IF sub = "plan" THEN "read_only" ELSE "mutating"
                              /\ TriggersAreHarmless(sub, flags)
  BY <1>1, <1>2, <1>3 DEF IsLeafFor, Rejected
<1> HIDE DEF leaf
<1>4. CASE sub = "plan"
  <2>1. entry = leaf("read_only", Preview \cup {"-p", "--monitoring"})
    BY <1>4 DEF Subcommands, leaf
  <2>2. Preview \cup {"-p", "--monitoring"} \subseteq Options
    BY DEF Preview, Options, Valued, Triggers, Bare
  <2>3. TriggersAreHarmless(sub, Preview \cup {"-p", "--monitoring"})
    BY <1>4, <1>a DEF TriggersAreHarmless, EffectCases, Preview, Triggers, GlobalFlags
  <2> QED
    BY <2>1, <2>2, <2>3, <1>4
<1>5. CASE sub = "standup"
  <2> DEFINE F == Preview \cup {"-p", "--stack", "--parallel", "--monitoring", "--no-monitoring"}
  <2>1. entry = leaf("mutating", F)
    BY <1>5 DEF Subcommands, leaf
  <2>2. F \subseteq Options
    BY DEF Preview, Options, Valued, Triggers, Bare
  <2>3. TriggersAreHarmless(sub, F)
    BY <1>5, <1>a DEF TriggersAreHarmless, EffectCases, Preview, Triggers, GlobalFlags
  <2> QED
    BY <2>1, <2>2, <2>3, <1>5
<1>6. CASE sub = "smoketest"
  <2> DEFINE F == Preview \cup {"-p", "--stack", "--parallel"}
  <2>1. entry = leaf("mutating", F)
    BY <1>6 DEF Subcommands, leaf
  <2>2. F \subseteq Options
    BY DEF Preview, Options, Valued, Triggers, Bare
  <2>3. TriggersAreHarmless(sub, F)
    BY <1>6, <1>a DEF TriggersAreHarmless, EffectCases, Preview, Triggers, GlobalFlags
  <2> QED
    BY <2>1, <2>2, <2>3, <1>6
<1>7. CASE sub = "run"
  <2> DEFINE F == Preview \cup {"-p", "-l", "-w", "-r", "-e", "--stack", "-c", "-x", "--wait-timeout", "-d",
                                "--monitoring", "--generate-config", "-z", "--list-endpoints"}
  <2>1. entry = leaf("mutating", F)
    BY <1>7 DEF Subcommands, leaf
  <2>2. F \subseteq Options
    BY DEF Preview, Options, Valued, Triggers, Bare
  <2>3. TriggersAreHarmless(sub, F)
    BY <1>7, <1>a DEF TriggersAreHarmless, EffectCases, Preview, Triggers, GlobalFlags
  <2> QED
    BY <2>1, <2>2, <2>3, <1>7
<1>8. CASE sub = "teardown"
  <2> DEFINE F == Preview \cup {"-p", "--stack"}
  <2>1. entry = leaf("mutating", F)
    BY <1>8 DEF Subcommands, leaf
  <2>2. F \subseteq Options
    BY DEF Preview, Options, Valued, Triggers, Bare
  <2>3. TriggersAreHarmless(sub, F)
    BY <1>8, <1>a DEF TriggersAreHarmless, EffectCases, Preview, Triggers, GlobalFlags
  <2> QED
    BY <2>1, <2>2, <2>3, <1>8
<1>9. CASE sub = "experiment"
  <2> DEFINE F == Preview \cup {"-p", "-l", "-w", "-r", "-e", "--parallel", "-x", "--wait-timeout", "-d",
                                "--monitoring", "--stop-on-error"}
  <2>1. entry = leaf("mutating", F)
    BY <1>9 DEF Subcommands, leaf
  <2>2. F \subseteq Options
    BY DEF Preview, Options, Valued, Triggers, Bare
  <2>3. TriggersAreHarmless(sub, F)
    BY <1>9, <1>a DEF TriggersAreHarmless, EffectCases, Preview, Triggers, GlobalFlags
  <2> QED
    BY <2>1, <2>2, <2>3, <1>9
<1> QED
  BY <1>4, <1>5, <1>6, <1>7, <1>8, <1>9 DEF Lines

\* A group, whose flags are those of its own entry: none.
LEMMA GroupIs ==
  ASSUME NEW nested
  PROVE  /\ Group(nested).nested = nested /\ Group(nested).flags = {}
         /\ GlobalFlags = Group(nested).flags \cup GlobalFlags
BY GlobalFlagsAre DEF Group

\* Where the groups of the policy's entry are, and that no subcommand is an option.
LEMMA GroupsAreNamed ==
  /\ Subcommands # <<>> /\ StoreCommands # <<>> /\ Remotes # <<>>
  /\ Subcommands["results"] = Group(StoreCommands) /\ "results" \in DOMAIN Subcommands
  /\ StoreCommands["remote"] = Group(Remotes) /\ "remote" \in DOMAIN StoreCommands
  /\ "results" \notin Options /\ DOMAIN StoreCommands \cap Options = {}
  /\ DOMAIN Subcommands = Lines \cup {"results"}
<1> DEFINE none == <<>>
<1>0. DOMAIN none = {}
  OBVIOUS
<1>1. "results" \in DOMAIN Subcommands /\ "remote" \in DOMAIN StoreCommands /\ "add" \in DOMAIN Remotes
  BY DEF Subcommands, StoreCommands, Remotes
<1> HIDE DEF none
<1>2. Subcommands # none /\ StoreCommands # none /\ Remotes # none
  BY <1>0, <1>1
<1>3. Subcommands["results"] = Group(StoreCommands)
  BY DEF Subcommands
<1>4. StoreCommands["remote"] = Group(Remotes)
  BY DEF StoreCommands
<1>5. "results" \notin Options /\ DOMAIN StoreCommands \cap Options = {}
  BY DEF Options, Valued, Triggers, Bare, StoreCommands
<1>6. DOMAIN Subcommands = Lines \cup {"results"}
  BY DEF Subcommands, Lines
<1> QED
  BY <1>1, <1>2, <1>3, <1>4, <1>5, <1>6 DEF none

\* Lists of positionals are what a walk starts from.
LEMMA PlacesAre ==
  ASSUME NEW x \in Places, NEW y \in Places
  PROVE  <<>> \in Seq(Places) /\ <<x>> \in Seq(Places) /\ <<x, y>> \in Seq(Places)
OBVIOUS

\* The entry of a store command.
IsStoreLeaf(entry, reads) ==
  /\ IsLeafFor(entry, "results") /\ entry.positionals \in Seq(Places)
  /\ entry.mode = IF reads THEN "read_only" ELSE "mutating"

\* An entry of the store with no option of its own, or with one that is no trigger.
LEMMA StoreLeaf ==
  ASSUME NEW flags, flags \in {{}, {"--run-uid"}}, NEW positionals \in Seq(Places), NEW reads \in BOOLEAN, NEW mode,
         mode = IF reads THEN "read_only" ELSE "mutating"
  PROVE  IsStoreLeaf(Leaf(mode, flags, positionals), reads)
<1> DEFINE entry == Leaf(mode, flags, positionals)
<1>1. entry.nested = <<>> /\ entry.flags = flags /\ entry.positionals = positionals /\ entry.mode = mode
  BY DEF Leaf
<1>2. \A token : EffectCases("results", token)
  BY EffectIs
<1>3. TriggersAreHarmless("results", flags)
  BY <1>2 DEF TriggersAreHarmless, EffectCases, Triggers, GlobalFlags
<1>4. flags \subseteq Options
  BY DEF Options, Valued
<1>5. mode # "open" /\ mode # Rejected
  BY DEF Rejected
<1> SUFFICES IsStoreLeaf(entry, reads)
  OBVIOUS
<1> HIDE DEF entry
<1> QED
  BY <1>1, <1>3, <1>4, <1>5 DEF IsStoreLeaf, IsLeafFor

Reading == {"init", "status", "ls"}

\* Every command of the store that is no group only reads exactly if it lists.
LEMMA StoreLeavesAre ==
  /\ \A command \in DOMAIN StoreCommands \ {"remote"} : IsStoreLeaf(StoreCommands[command], command \in Reading)
  /\ \A action \in DOMAIN Remotes : IsStoreLeaf(Remotes[action], action = "ls")
<1> DEFINE one == Positional(FALSE, FALSE)
           many == Positional(FALSE, TRUE)
           some == Positional(TRUE, FALSE)
           any == Positional(TRUE, TRUE)
           leaf(mode, flags, positionals) == Leaf(mode, flags, positionals)
<1>1. one \in Places /\ many \in Places /\ some \in Places /\ any \in Places
  BY DEF Places, Positional
<1>2. Required = one
  BY DEF Required
<1> HIDE DEF one, many, some, any
<1>3. /\ <<>> \in Seq(Places) /\ <<one>> \in Seq(Places) /\ <<one, one>> \in Seq(Places)
      /\ <<many>> \in Seq(Places) /\ <<some, some>> \in Seq(Places) /\ <<any>> \in Seq(Places)
  BY <1>1, PlacesAre
<1> DEFINE good(mode, flags, positionals, reads) == IsStoreLeaf(leaf(mode, flags, positionals), reads)
<1>4. \A positionals \in Seq(Places), flags \in {{}, {"--run-uid"}} :
        /\ good("read_only", flags, positionals, TRUE)
        /\ good("mutating", flags, positionals, FALSE)
  BY StoreLeaf
<1> HIDE DEF leaf
<1>5. ASSUME NEW command \in DOMAIN StoreCommands \ {"remote"}
      PROVE  IsStoreLeaf(StoreCommands[command], command \in Reading)
  <2>0. command \in {"init", "status", "ls", "add", "rm", "push", "pull"}
    BY DEF StoreCommands
  <2>1. CASE command \in {"init", "status"}
    <3>1. StoreCommands[command] = leaf("read_only", {}, <<>>)
      BY <2>1 DEF StoreCommands, leaf
    <3>2. good("read_only", {}, <<>>, TRUE)
      BY <1>3, <1>4
    <3> QED
      BY <3>1, <3>2, <2>1 DEF Reading
  <2>2. CASE command = "ls"
    <3>1. StoreCommands[command] = leaf("read_only", {}, <<one>>)
      BY <2>2, <1>2 DEF StoreCommands, leaf
    <3>2. good("read_only", {}, <<one>>, TRUE)
      BY <1>3, <1>4
    <3> QED
      BY <3>1, <3>2, <2>2 DEF Reading
  <2>3. CASE command \in {"add", "rm"}
    <3>1. StoreCommands[command] = leaf("mutating", {}, <<many>>)
      BY <2>3 DEF StoreCommands, leaf, many
    <3>2. good("mutating", {}, <<many>>, FALSE)
      BY <1>3, <1>4
    <3>3. (command \in Reading) = FALSE
      BY <2>3 DEF Reading
    <3> QED
      BY <3>1, <3>2, <3>3, Zenon DEF good
  <2>4. CASE command = "push"
    <3>1. StoreCommands[command] = leaf("mutating", {}, <<some, some>>)
      BY <2>4 DEF StoreCommands, leaf, some
    <3>2. good("mutating", {}, <<some, some>>, FALSE)
      BY <1>3, <1>4
    <3>3. (command \in Reading) = FALSE
      BY <2>4 DEF Reading
    <3> QED
      BY <3>1, <3>2, <3>3, Zenon DEF good
  <2>5. CASE command = "pull"
    <3>1. StoreCommands[command] = leaf("mutating", {"--run-uid"}, <<any>>)
      BY <2>5 DEF StoreCommands, leaf, any
    <3>2. good("mutating", {"--run-uid"}, <<any>>, FALSE)
      BY <1>3, <1>4
    <3>3. (command \in Reading) = FALSE
      BY <2>5 DEF Reading
    <3> QED
      BY <3>1, <3>2, <3>3, Zenon DEF good
  <2> QED
    BY <2>0, <2>1, <2>2, <2>3, <2>4, <2>5
<1>6. ASSUME NEW action \in DOMAIN Remotes
      PROVE  IsStoreLeaf(Remotes[action], action = "ls")
  <2>0. action \in {"add", "rm", "ls"}
    BY DEF Remotes
  <2>1. CASE action = "add"
    <3>1. Remotes[action] = leaf("mutating", {}, <<one, one>>)
      BY <2>1, <1>2 DEF Remotes, leaf
    <3>2. good("mutating", {}, <<one, one>>, FALSE)
      BY <1>3, <1>4
    <3> QED
      BY <3>1, <3>2, <2>1
  <2>2. CASE action = "rm"
    <3>1. Remotes[action] = leaf("mutating", {}, <<one>>)
      BY <2>2, <1>2 DEF Remotes, leaf
    <3>2. good("mutating", {}, <<one>>, FALSE)
      BY <1>3, <1>4
    <3> QED
      BY <3>1, <3>2, <2>2
  <2>3. CASE action = "ls"
    <3>1. Remotes[action] = leaf("read_only", {}, <<>>)
      BY <2>3 DEF Remotes, leaf
    <3>2. good("read_only", {}, <<>>, TRUE)
      BY <1>3, <1>4
    <3> QED
      BY <3>1, <3>2, <2>3
  <2> QED
    BY <2>0, <2>1, <2>2, <2>3
<1> QED
  BY <1>5, <1>6

-----------------------------------------------------------------------------
(* The verdict of a command line. *)

\* Whatever stood before without a trigger, the descent comes to a verdict within a bound.
Regions(T) == [tokens : Seq(T), flags : SUBSET Options]
Settled(entry, tokens, verdict, bound, T, catalog) ==
  \A regions \in Seq(Regions(T)) :
    Quiet(regions) => \E k \in 0..bound : Ends(Level(entry, tokens, GlobalFlags, regions, "open"), verdict, k, catalog)

LeafVerdict(entry, tokens, catalog) ==
  Walk(tokens, entry.flags \cup GlobalFlags, entry.positionals, entry.mode, FALSE, catalog)
Opening(before, T) == before \in Seq(T) /\ Heads(before, GlobalFlags) /\ ~HasTrigger(before, GlobalFlags)
IfFits(before, verdict, catalog) == IF Fitting(before, GlobalFlags, catalog) THEN verdict ELSE Rejected

\* The last level is settled by its walk.
LEMMA LeafSettled ==
  ASSUME NEW T, NEW entry, NEW tokens, NEW catalog, entry.nested = <<>>, entry.mode # "open"
  PROVE  Settled(entry, tokens, LeafVerdict(entry, tokens, catalog), 1, T, catalog)
<1> SUFFICES ASSUME NEW regions \in Seq(Regions(T)), Quiet(regions)
             PROVE  \E k \in 0..1 : Ends(Level(entry, tokens, GlobalFlags, regions, "open"),
                                         LeafVerdict(entry, tokens, catalog), k, catalog)
  BY DEF Settled
<1>1. Ends(Level(entry, tokens, GlobalFlags, regions, "open"), LeafVerdict(entry, tokens, catalog), 1, catalog)
  BY EndsLeaf DEF LeafVerdict
<1> QED
  BY <1>1

\* A group is settled by what stands before its subcommand and by the subcommand.
LEMMA GroupSettled ==
  ASSUME NEW T, NEW before, Opening(before, T), NEW word \in T, NEW after \in Seq(T), NEW nested, nested # <<>>,
         word \notin Options, word \in DOMAIN nested, NEW verdict, NEW bound \in Nat, NEW catalog,
         Settled(nested[word], after, verdict, bound, T, catalog)
  PROVE  Settled(Group(nested), Parts3(before, word, after), IfFits(before, verdict, catalog), bound + 1, T, catalog)
<1> DEFINE g == Group(nested)
           f == GlobalFlags
           r == [tokens |-> before, flags |-> f]
<1>1. g.nested = nested /\ f = g.flags \cup f
  BY GroupIs
<1>2. r \in Regions(T) /\ f \subseteq Options
  BY GlobalFlagsAre DEF Regions, Opening
<1> SUFFICES ASSUME NEW regions \in Seq(Regions(T)), Quiet(regions)
             PROVE  \E k \in 0..(bound + 1) :
                      Ends(Level(g, Parts3(before, word, after), f, regions, "open"),
                           IfFits(before, verdict, catalog), k, catalog)
  BY DEF Settled
<1>3. Append(regions, r) \in Seq(Regions(T)) /\ Quiet(Append(regions, r))
  BY <1>2, QuietMore DEF Opening
<1>4. PICK k \in 0..bound : Ends(Level(nested[word], after, f, Append(regions, r), "open"), verdict, k, catalog)
  BY <1>3 DEF Settled
<1> HIDE DEF g, f
<1>5. Ends(Level(g.nested[word], after, f, Append(regions, [tokens |-> before, flags |-> f]), "open"), verdict, k, catalog)
  BY <1>1, <1>4
<1>6. Heads(before, f) /\ before \in Seq(T)
  BY DEF Opening, f
<1>7. k \in Nat /\ g.nested # <<>> /\ word \in DOMAIN g.nested
  BY <1>1
<1>8. Ends(Level(g, Parts3(before, word, after), f, regions, "open"),
           IF Fitting(before, f, catalog) THEN verdict ELSE Rejected,
           IF Fitting(before, f, catalog) THEN k + 1 ELSE 1, catalog)
  BY <1>1, <1>5, <1>6, <1>7, GroupStep
<1>9. k + 1 \in 0..(bound + 1) /\ 1 \in 0..(bound + 1)
  OBVIOUS
<1>10. (IF Fitting(before, f, catalog) THEN k + 1 ELSE 1) \in 0..(bound + 1)
  BY <1>9
<1> QED
  BY <1>8, <1>10 DEF IfFits, f

\* A command line is judged as its descent is settled.
LEMMA ValidateSettled ==
  ASSUME NEW T, NEW before, Opening(before, T), NEW word \in T, NEW after \in Seq(T), word \notin Options,
         NEW argv, Tail(argv) = Parts3(before, word, after), NEW catalog, NEW verdict, NEW bound \in Nat,
         Settled(Group(Subcommands), Parts3(before, word, after), verdict, bound, T, catalog),
         bound <= Len(after) + 2
  PROVE  Validate(argv, catalog) = verdict
<1> DEFINE none == <<>>
<1>1. none \in Seq(Regions(T)) /\ Quiet(none)
  BY DEF Quiet
<1>2. PICK k \in 0..bound : Ends(Level(Group(Subcommands), Parts3(before, word, after), GlobalFlags, none, "open"),
                                 verdict, k, catalog)
  <2> HIDE DEF none
  <2> QED
    BY <1>1 DEF Settled
<1>3. k \in Nat /\ k <= Len(before) + Len(after) + 2
  <2>1. Len(before) \in Nat /\ Len(after) \in Nat
    BY DEF Opening
  <2> QED
    BY <2>1
<1>4. Heads(before, GlobalFlags) /\ before \in Seq(T)
  BY DEF Opening
<1> QED
  BY <1>2, <1>3, <1>4, ValidateWalks

\* Nothing before a subcommand.
LEMMA NothingBefore ==
  ASSUME NEW T
  PROVE  /\ Opening(<<>>, T)
         /\ \A verdict, catalog : IfFits(<<>>, verdict, catalog) = verdict
<1> DEFINE none == <<>>
<1>1. none \in Seq(T) /\ DOMAIN none = {}
  OBVIOUS
<1> SUFFICES Opening(none, T) /\ \A verdict, catalog : IfFits(none, verdict, catalog) = verdict
  OBVIOUS
<1> HIDE DEF none
<1> QED
  BY <1>1, GlobalFlagsAre DEF Opening, Heads, Paired, HasTrigger, IfFits, Fitting

\* A command of the six is judged by one walk.
LEMMA LineJudged ==
  ASSUME NEW T, NEW before, Opening(before, T), NEW sub \in Lines, sub \in T, NEW after \in Seq(T),
         NEW argv, Tail(argv) = Parts3(before, sub, after), NEW catalog
  PROVE  Validate(argv, catalog) = IfFits(before, LeafVerdict(Subcommands[sub], after, catalog), catalog)
<1> DEFINE entry == Subcommands[sub]
<1>1. sub \notin Options /\ sub \in DOMAIN Subcommands /\ entry.nested = <<>> /\ entry.mode # "open"
  BY LinesAre DEF IsLeafFor
<1> HIDE DEF entry
<1>2. Settled(entry, after, LeafVerdict(entry, after, catalog), 1, T, catalog)
  BY <1>1, LeafSettled
<1>3. Settled(Group(Subcommands), Parts3(before, sub, after),
              IfFits(before, LeafVerdict(entry, after, catalog), catalog), 1 + 1, T, catalog)
  BY <1>1, <1>2, GroupSettled, GroupsAreNamed DEF entry
<1>4. 1 + 1 \in Nat /\ 1 + 1 <= Len(after) + 2
  <2>1. Len(after) \in Nat
    OBVIOUS
  <2> QED
    BY <2>1
<1> QED
  BY <1>1, <1>3, <1>4, ValidateSettled DEF entry

\* Parts with nothing before them.
LEMMA PartsAfterNothing ==
  ASSUME NEW T, NEW word \in T, NEW rest \in Seq(T)
  PROVE  /\ Parts3(<<>>, word, rest) \in Seq(T)
         /\ Len(rest) \in Nat /\ Len(Parts3(<<>>, word, rest)) = Len(rest) + 1
<1> DEFINE none == <<>>
           after == Parts3(none, word, rest)
<1>1. none \in Seq(T) /\ Len(none) = 0
  OBVIOUS
<1> SUFFICES after \in Seq(T) /\ Len(rest) \in Nat /\ Len(after) = Len(rest) + 1
  OBVIOUS
<1> HIDE DEF none
<1>2. AreParts(after, T, none, word, rest)
  BY <1>1, PartsAre
<1> HIDE DEF after
<1> QED
  BY <1>1, <1>2 DEF AreParts

\* A command of the store, which stands after `results`.
IsForStore(argv, before, command, rest) ==
  Tail(argv) = Parts3(before, "results", Parts3(<<>>, command, rest))

\* A command of the store is judged as its entry is settled.
LEMMA StoreSettles ==
  ASSUME NEW T, NEW before, Opening(before, T), "results" \in T, NEW command \in DOMAIN StoreCommands,
         command \in T, NEW rest \in Seq(T),
         NEW argv, Tail(argv) = Parts3(before, "results", Parts3(<<>>, command, rest)), NEW catalog,
         NEW verdict, NEW bound \in Nat, bound <= Len(rest) + 1,
         Settled(StoreCommands[command], rest, verdict, bound, T, catalog)
  PROVE  Validate(argv, catalog) = IfFits(before, verdict, catalog)
<1> DEFINE none == <<>>
           after == Parts3(none, command, rest)
           word == "results"
           says == IfFits(before, verdict, catalog)
           more == bound + 1
<1>1. command \notin Options
  BY GroupsAreNamed
<1>2. after \in Seq(T) /\ Len(rest) \in Nat /\ Len(after) = Len(rest) + 1
  BY PartsAfterNothing
<1>3. Opening(none, T) /\ IfFits(none, verdict, catalog) = verdict
  BY NothingBefore
<1>4. /\ word \in T /\ word \notin Options /\ word \in DOMAIN Subcommands /\ Subcommands # <<>>
      /\ Subcommands[word] = Group(StoreCommands) /\ StoreCommands # <<>>
  BY GroupsAreNamed
<1>5. Tail(argv) = Parts3(before, word, after)
  OBVIOUS
<1> HIDE DEF none, word
<1>6. Settled(Group(StoreCommands), after, verdict, more, T, catalog)
  <2>1. Settled(Group(StoreCommands), after, IfFits(none, verdict, catalog), bound + 1, T, catalog)
    BY <1>1, <1>3, <1>4, GroupSettled
  <2> QED
    BY <2>1, <1>3
<1>7. more \in Nat /\ more + 1 \in Nat /\ more + 1 <= Len(after) + 2
  BY <1>2
<1> HIDE DEF after, more
<1>8. Settled(Group(Subcommands), Parts3(before, word, after), says, more + 1, T, catalog)
  BY <1>2, <1>4, <1>6, <1>7, GroupSettled
<1> HIDE DEF says
<1>9. Validate(argv, catalog) = says
  BY <1>2, <1>4, <1>5, <1>7, <1>8, ValidateSettled
<1> QED
  BY <1>9 DEF says

\* A command of the store that is no group.
LEMMA StoreJudged ==
  ASSUME NEW T, NEW before, Opening(before, T), "results" \in T, NEW command \in T,
         command \in DOMAIN StoreCommands, command # "remote", NEW rest \in Seq(T),
         NEW argv, IsForStore(argv, before, command, rest), NEW catalog
  PROVE  Validate(argv, catalog) = IfFits(before, LeafVerdict(StoreCommands[command], rest, catalog), catalog)
<1> DEFINE entry == StoreCommands[command]
           verdict == LeafVerdict(entry, rest, catalog)
<1>1. entry.nested = <<>> /\ entry.mode # "open"
  BY StoreLeavesAre DEF IsStoreLeaf, IsLeafFor
<1> HIDE DEF entry
<1>2. Settled(entry, rest, verdict, 1, T, catalog)
  BY <1>1, LeafSettled
<1>3. 1 \in Nat /\ 1 <= Len(rest) + 1
  <2>1. Len(rest) \in Nat
    OBVIOUS
  <2> QED
    BY <2>1
<1> HIDE DEF verdict
<1>4. Validate(argv, catalog) = IfFits(before, verdict, catalog)
  BY <1>2, <1>3, StoreSettles DEF entry, IsForStore
<1> QED
  BY <1>4 DEF verdict, entry

\* The commands about remotes, which are another group.
RemoteVerdict(action, rest, catalog) ==
  IF action \in DOMAIN Remotes THEN LeafVerdict(Remotes[action], rest, catalog) ELSE Rejected

\* A command about remotes is judged by its action's walk, and refused if there is none.
LEMMA RemoteJudged ==
  ASSUME NEW T, NEW before, Opening(before, T), "results" \in T, "remote" \in T, NEW action \in T, action \notin Options,
         NEW last \in Seq(T), NEW argv, NEW catalog,
         Tail(argv) = Parts3(before, "results", Parts3(<<>>, "remote", Parts3(<<>>, action, last)))
  PROVE  Validate(argv, catalog) = IfFits(before, RemoteVerdict(action, last, catalog), catalog)
<1> DEFINE none == <<>>
           rest == Parts3(none, action, last)
           verdict == RemoteVerdict(action, last, catalog)
           command == "remote"
           two == 1 + 1
<1>1. rest \in Seq(T) /\ Len(last) \in Nat /\ Len(rest) = Len(last) + 1
  BY PartsAfterNothing
<1>2. Opening(none, T) /\ \A v, c : IfFits(none, v, c) = v
  BY NothingBefore
<1>3. command \in DOMAIN StoreCommands /\ command \in T /\ StoreCommands[command] = Group(Remotes) /\ Remotes # <<>>
  BY GroupsAreNamed
<1>4. Tail(argv) = Parts3(before, "results", Parts3(<<>>, command, rest))
  OBVIOUS
<1> HIDE DEF none, command
<1>5. Settled(Group(Remotes), rest, verdict, two, T, catalog)
  <2>1. CASE action \in DOMAIN Remotes
    <3> DEFINE entry == Remotes[action]
    <3>1. entry.nested = <<>> /\ entry.mode # "open"
      BY <2>1, StoreLeavesAre DEF IsStoreLeaf, IsLeafFor
    <3> HIDE DEF entry
    <3>2. Settled(entry, last, LeafVerdict(entry, last, catalog), 1, T, catalog)
      BY <3>1, LeafSettled
    <3>3. Settled(entry, last, verdict, 1, T, catalog)
      BY <2>1, <3>2 DEF RemoteVerdict, entry
    <3> HIDE DEF verdict
    <3>4. Settled(Group(Remotes), rest, IfFits(none, verdict, catalog), 1 + 1, T, catalog)
      BY <1>2, <1>3, <2>1, <3>3, GroupSettled DEF entry
    <3> QED
      BY <1>2, <3>4
  <2>2. CASE action \notin DOMAIN Remotes
    <3>1. verdict = Rejected
      BY <2>2 DEF RemoteVerdict
    <3> DEFINE g == Group(Remotes)
               f == GlobalFlags
    <3>2. g.nested = Remotes /\ f = g.flags \cup f
      BY GroupIs
    <3>3. Heads(none, g.flags \cup f) /\ none \in Seq(T)
      BY <1>2, <3>2 DEF Opening
    <3> HIDE DEF g
    <3>4. ASSUME NEW regions
          PROVE  Ends(Level(g, rest, f, regions, "open"), Rejected, 1, catalog)
      <4> HIDE DEF f
      <4> QED
        BY <1>3, <2>2, <3>2, <3>3, UnnamedIsRefused
    <3>5. 1 \in 0..two
      OBVIOUS
    <3> HIDE DEF rest, verdict, two
    <3> QED
      BY <3>1, <3>4, <3>5 DEF Settled, g
  <2> QED
    BY <2>1, <2>2
<1>6. two \in Nat /\ two <= Len(rest) + 1
  BY <1>1
<1> HIDE DEF rest, verdict, two
<1>7. Validate(argv, catalog) = IfFits(before, verdict, catalog)
  BY <1>1, <1>3, <1>4, <1>5, <1>6, StoreSettles
<1> QED
  BY <1>7 DEF verdict

\* What fits still fits after an option that is not known.
LEMMA FitsShifted ==
  ASSUME NEW T, NEW s \in Seq(T), Paired(s), NEW x \in T, NEW flags, x \notin flags, NEW catalog
  PROVE  /\ Fitting(<<x>> \o s, flags, catalog) <=> Fitting(s, flags, catalog)
         /\ HasTrigger(<<x>> \o s, flags) <=> HasTrigger(s, flags)
         /\ \A n \in DOMAIN (<<x>> \o s) : (<<x>> \o s)[n] = x \/ \E m \in DOMAIN s : (<<x>> \o s)[n] = s[m]
<1> DEFINE one == <<x>>
           u == one \o s
           N == Len(s)
<1>1. one \in Seq(T) /\ Len(one) = 1 /\ one[1] = x
  OBVIOUS
<1>2. IsConcat(u, one, s, T)
  BY <1>1, ConcatIs
<1> HIDE DEF one, u
<1>3. /\ N \in Nat /\ DOMAIN u = 1..(1 + N) /\ DOMAIN s = 1..N /\ u[1] = x
      /\ \A n \in 1..N : u[1 + n] = s[n]
  BY <1>1, <1>2 DEF IsConcat
<1> HIDE DEF N
<1>4. \A n \in DOMAIN u : n = 1 \/ (n - 1 \in 1..N /\ u[n] = s[n - 1] /\ 1 + (n - 1) = n)
  BY <1>3
<1>5. FitsAt(u, 1, flags, catalog)
  BY <1>3 DEF FitsAt
<1>6. ASSUME NEW n \in 1..N PROVE FitsAt(u, 1 + n, flags, catalog) <=> FitsAt(s, n, flags, catalog)
  <2>1. s[n] \in Valued => n + 1 \in 1..N
    BY <1>3 DEF Paired
  <2>2. s[n] \in Valued => u[(1 + n) + 1] = s[n + 1]
    <3>1. 1 + (n + 1) = (1 + n) + 1
      OBVIOUS
    <3> QED
      BY <2>1, <3>1, <1>3
  <2> QED
    BY <1>3, <2>2 DEF FitsAt
<1>7. Fitting(u, flags, catalog) <=> Fitting(s, flags, catalog)
  <2>1. ASSUME Fitting(u, flags, catalog), NEW n \in DOMAIN s PROVE FitsAt(s, n, flags, catalog)
    <3>1. n \in 1..N /\ 1 + n \in DOMAIN u
      BY <1>3
    <3> QED
      BY <1>6, <2>1, <3>1 DEF Fitting
  <2>2. ASSUME Fitting(s, flags, catalog), NEW n \in DOMAIN u PROVE FitsAt(u, n, flags, catalog)
    <3>1. CASE n = 1
      BY <1>5, <3>1
    <3>2. CASE n # 1
      <4>1. n - 1 \in 1..N /\ 1 + (n - 1) = n
        BY <1>4, <3>2
      <4>2. FitsAt(s, n - 1, flags, catalog)
        BY <1>3, <2>2, <4>1 DEF Fitting
      <4>3. FitsAt(u, 1 + (n - 1), flags, catalog)
        BY <1>6, <4>1, <4>2
      <4> QED
        BY <4>1, <4>3
    <3> QED
      BY <3>1, <3>2
  <2> QED
    BY <2>1, <2>2 DEF Fitting
<1>8. HasTrigger(u, flags) <=> HasTrigger(s, flags)
  <2>1. \A n \in DOMAIN s : 1 + n \in DOMAIN u /\ u[1 + n] = s[n]
    BY <1>3
  <2>2. \A n \in DOMAIN u : u[n] \in flags => n - 1 \in DOMAIN s /\ u[n] = s[n - 1]
    BY <1>3, <1>4
  <2> QED
    BY <2>1, <2>2, Zenon DEF HasTrigger
<1>9. \A n \in DOMAIN u : u[n] = x \/ \E m \in DOMAIN s : u[n] = s[m]
  BY <1>3, <1>4
<1> QED
  BY <1>7, <1>8, <1>9 DEF u, one

\* What opens a composed command, also with a preview option before it.
LEMMA OpeningIs ==
  ASSUME NEW q, NEW T, Speaks(T, q), Names(q)
  PROVE  /\ Opening(Before(q), T) /\ Opening(<<"-n">> \o Before(q), T)
         /\ \A verdict, catalog : IfFits(<<"-n">> \o Before(q), verdict, catalog) = IfFits(Before(q), verdict, catalog)
<1> DEFINE s == Before(q)
           x == "-n"
           u == <<x>> \o s
<1>1. Composed(s, q, T) /\ ToSet(s) \subseteq {"--spec", q.spec, "--workspace", "here"}
  BY BeforeIs
<1>2. x \in T /\ x \in Options \ Valued /\ x \notin GlobalFlags
  BY GlobalFlagsAre DEF Speaks, Options, Valued, Triggers
<1>3. q.spec \notin Options /\ "here" \notin Options /\ {"--spec", "--workspace"} \subseteq GlobalFlags \ Triggers
  BY DEF Names, Options, Valued, Triggers, Bare, GlobalFlags
<1>4. GlobalFlags \subseteq Options /\ Valued \subseteq Options
  BY GlobalFlagsAre, OptionsAre
<1> HIDE DEF x
<1>5. Composed(u, q, T)
  BY <1>1, <1>2, OneComposed, ComposedBoth
<1> HIDE DEF s
<1>6. /\ \A c : Fitting(u, GlobalFlags, c) <=> Fitting(s, GlobalFlags, c)
      /\ HasTrigger(u, GlobalFlags) <=> HasTrigger(s, GlobalFlags)
      /\ \A n \in DOMAIN u : u[n] = x \/ \E m \in DOMAIN s : u[n] = s[m]
  BY <1>1, <1>2, FitsShifted DEF Composed
<1>7. \A n \in DOMAIN s : s[n] \in {"--spec", q.spec, "--workspace", "here"}
  BY <1>1 DEF ToSet
<1>8. \A n \in DOMAIN s : s[n] \in Options => s[n] \in GlobalFlags \ Triggers
  BY <1>3, <1>7
<1>9. Opening(s, T)
  BY <1>1, <1>4, <1>8 DEF Composed, Opening, Heads, HasTrigger
<1>10. Opening(u, T)
  BY <1>2, <1>4, <1>5, <1>6, <1>8, <1>9 DEF Composed, Opening, Heads
<1> HIDE DEF u
<1>11. \A v, c : IfFits(u, v, c) = IfFits(s, v, c)
  BY <1>6 DEF IfFits
<1> QED
  BY <1>9, <1>10, <1>11 DEF u, s, x

\* The mode of a region in which every option is seen, of a command of the CLI.
ModeFollows(mode, tokens, sub, base) ==
  mode # Rejected => mode = IF \E n \in DOMAIN tokens : Effect(sub, tokens[n]) \in Harmless THEN "read_only" ELSE base

\* Whatever is passed through, a leaf's verdict follows from what the CLI makes of it.
LEMMA LeafFollows ==
  ASSUME NEW T, NEW tokens \in Seq(T), NoneForValue(tokens), NEW entry, NEW sub, IsLeafFor(entry, sub),
         entry.positionals \in Seq(Places), NEW catalog
  PROVE  ModeFollows(LeafVerdict(entry, tokens, catalog), tokens, sub, entry.mode)
<1> DEFINE flags == entry.flags \cup GlobalFlags
           no == FALSE
           mode == LeafVerdict(entry, tokens, catalog)
<1>1. flags \subseteq Options
  BY GlobalFlagsAre DEF IsLeafFor
<1>2. HasTrigger(tokens, flags) <=> \E n \in DOMAIN tokens : Effect(sub, tokens[n]) \in Harmless
  BY DEF HasTrigger, IsLeafFor, TriggersAreHarmless
<1>3. no \in BOOLEAN /\ ~no
  OBVIOUS
<1>4. mode = Walk(tokens, flags, entry.positionals, entry.mode, no, catalog)
  BY DEF LeafVerdict
<1> HIDE DEF no, flags, mode
<1>5. AnyMode(mode, tokens, flags, entry.mode, no)
  BY <1>1, <1>3, <1>4, AnyWalk
<1> QED
  BY <1>2, <1>3, <1>5 DEF AnyMode, ModeFollows, mode

-----------------------------------------------------------------------------
(* The tokens of a command line. *)

\* The tokens of a piece.
LEMMA PieceTokens ==
  ASSUME NEW x, NEW y, NEW condition
  PROVE  /\ ToSet(<<x>>) = {x} /\ ToSet(<<x, y>>) = {x, y} /\ ToSet(<<>>) = {}
         /\ ToSet(On(condition, <<x>>)) = IF condition THEN {x} ELSE {}
         /\ ToSet(On(condition, <<x, y>>)) = IF condition THEN {x, y} ELSE {}
         /\ ToSet(Given(x, y)) \subseteq {x, y}
<1>1. ToSet(<<x>>) = {x} /\ ToSet(<<x, y>>) = {x, y} /\ ToSet(<<>>) = {}
  BY DEF ToSet
<1>2. On(condition, <<x>>) = IF condition THEN <<x>> ELSE <<>>
  BY DEF On
<1>3. On(condition, <<x, y>>) = IF condition THEN <<x, y>> ELSE <<>>
  BY DEF On
<1>4. Given(x, y) = <<x, y>> \/ Given(x, y) = <<>>
  BY DEF Given
<1>5. ToSet(On(condition, <<x>>)) = IF condition THEN {x} ELSE {}
  <2>1. CASE condition
    BY <1>1, <1>2, <2>1
  <2>2. CASE ~condition
    BY <1>1, <1>2, <2>2
  <2> QED
    BY <2>1, <2>2
<1>6. ToSet(On(condition, <<x, y>>)) = IF condition THEN {x, y} ELSE {}
  <2>1. CASE condition
    BY <1>1, <1>3, <2>1
  <2>2. CASE ~condition
    BY <1>1, <1>3, <2>2
  <2> QED
    BY <2>1, <2>2
<1>7. ToSet(Given(x, y)) \subseteq {x, y}
  BY <1>1, <1>4
<1> QED
  BY <1>1, <1>5, <1>6, <1>7

\* A piece without a token.
Lacks(s, x) == x \notin ToSet(s)
Has(s, x) == x \in ToSet(s)

\* A piece without a token: the token stands in none of its shapes.
LEMMA PieceLacks ==
  ASSUME NEW d, NEW x, NEW y, NEW condition, d # x
  PROVE  /\ Lacks(On(condition, <<x>>), d)
         /\ d # y => Lacks(On(condition, <<x, y>>), d) /\ Lacks(<<x, y>>, d) /\ Lacks(Given(x, y), d)
<1>0. /\ ToSet(<<x, y>>) = {x, y}
      /\ ToSet(On(condition, <<x>>)) = IF condition THEN {x} ELSE {}
      /\ ToSet(On(condition, <<x, y>>)) = IF condition THEN {x, y} ELSE {}
      /\ ToSet(Given(x, y)) \subseteq {x, y}
  BY PieceTokens
<1> DEFINE p == On(condition, <<x>>)
           r == On(condition, <<x, y>>)
           t == <<x, y>>
           v == Given(x, y)
<1> HIDE DEF p, r, t, v
<1>1. Lacks(p, d)
  BY <1>0 DEF Lacks, p
<1>2. ASSUME d # y PROVE Lacks(r, d) /\ Lacks(t, d) /\ Lacks(v, d)
  BY <1>0, <1>2 DEF Lacks, r, t, v
<1> QED
  BY <1>1, <1>2 DEF p, r, t, v

\* The same of all pieces.
LEMMA PiecesLack ==
  ASSUME NEW d
  PROVE  \A x, y, condition : d # x =>
           /\ Lacks(On(condition, <<x>>), d)
           /\ d # y => Lacks(On(condition, <<x, y>>), d) /\ Lacks(<<x, y>>, d) /\ Lacks(Given(x, y), d)
BY PieceLacks

\* A flag that is on is emitted.
LEMMA PieceHas ==
  ASSUME NEW x, NEW condition
  PROVE  condition => Has(On(condition, <<x>>), x)
BY PieceTokens DEF Has

\* The tokens of two pieces.
Chained(s, t, T) == s \o t \in Seq(T) /\ ToSet(s \o t) = ToSet(s) \cup ToSet(t)

\* Two pieces, one after the other.
LEMMA Chain ==
  ASSUME NEW T, NEW s \in Seq(T), NEW t \in Seq(T)
  PROVE  Chained(s, t, T)
<1>1. s \o t \in Seq(T)
  OBVIOUS
<1>2. ToSet(s \o t) = ToSet(s) \cup ToSet(t)
  BY ToSetOfBoth
<1> QED
  BY <1>1, <1>2 DEF Chained

\* The tokens of a command line.
LEMMA LineTokens ==
  ASSUME NEW T, NEW e \in T, NEW before \in Seq(T), NEW word \in T, NEW after \in Seq(T)
  PROVE  ToSet(CommandLine(e, before, word, after)) = {e, word} \cup ToSet(before) \cup ToSet(after)
<1> DEFINE a == <<e>>
           b == <<word>>
<1>1. a \in Seq(T) /\ b \in Seq(T) /\ ToSet(a) = {e} /\ ToSet(b) = {word}
  <2>1. \A x : ToSet(<<x>>) = {x}
    BY PieceTokens
  <2> QED
    BY <2>1
<1>2. CommandLine(e, before, word, after) = ((a \o before) \o b) \o after
  BY DEF CommandLine
<1> HIDE DEF a, b
<1>3. Chained(a, before, T)
  BY <1>1, Chain
<1>4. Chained(a \o before, b, T)
  <2>1. a \o before \in Seq(T)
    BY <1>1, <1>3 DEF Chained
  <2> QED
    BY <1>1, <1>3, <2>1, Chain
<1>5. Chained((a \o before) \o b, after, T)
  <2>1. (a \o before) \o b \in Seq(T)
    BY <1>4 DEF Chained
  <2> QED
    BY <1>4, <2>1, Chain
<1> QED
  BY <1>1, <1>2, <1>3, <1>4, <1>5 DEF Chained

\* A deep teardown is only asked for where its option means something else.
LEMMA DebugTokens ==
  ASSUME NEW T, Options \cup Literals \subseteq T, NEW sub, NEW flags, sub \notin {"run", "experiment"}
  PROVE  "-d" \notin ToSet(SubcommandFlags(sub, flags))
<1> DEFINE given(key, subs, tokens) == On(key \in flags /\ sub \in subs, tokens)
           a == given("stack", {"standup", "smoketest", "run", "teardown"}, <<"--stack", "pool">>)
           b == given("parallel", {"standup", "smoketest", "experiment"}, <<"--parallel", "2">>)
           c == given("dataset", {"run", "experiment"}, <<"-x", "url">>)
           d == given("generate_config", {"run"}, <<"--generate-config">>)
           e == given("run_config", {"run"}, <<"-c", "file">>)
           f == given("debug", {"run", "experiment"}, <<"-d">>)
<1>1. SubcommandFlags(sub, flags) = ((((a \o b) \o c) \o d) \o e) \o f
  BY DEF SubcommandFlags
<1>2. a \in Seq(T) /\ b \in Seq(T) /\ c \in Seq(T) /\ d \in Seq(T) /\ e \in Seq(T) /\ f \in Seq(T)
  BY DEF On, Options, Valued, Bare, Literals
<1>3. Lacks(a, "-d") /\ Lacks(b, "-d") /\ Lacks(c, "-d")
  <2>0. \A x, y, condition : "-d" # x =>
           /\ Lacks(On(condition, <<x>>), "-d")
           /\ "-d" # y => Lacks(On(condition, <<x, y>>), "-d") /\ Lacks(<<x, y>>, "-d") /\ Lacks(Given(x, y), "-d")
    BY PiecesLack
  <2>1. Lacks(a, "-d")
    BY <2>0
  <2>2. Lacks(b, "-d")
    BY <2>0
  <2>3. Lacks(c, "-d")
    BY <2>0
  <2> QED
    BY <2>1, <2>2, <2>3
<1>4. Lacks(d, "-d") /\ Lacks(e, "-d") /\ Lacks(f, "-d")
  <2>0. \A x, y, condition : "-d" # x =>
           /\ Lacks(On(condition, <<x>>), "-d")
           /\ "-d" # y => Lacks(On(condition, <<x, y>>), "-d") /\ Lacks(<<x, y>>, "-d") /\ Lacks(Given(x, y), "-d")
    BY PiecesLack
  <2>1. Lacks(d, "-d")
    BY <2>0
  <2>2. Lacks(e, "-d")
    BY <2>0
  <2>3. f = <<>>
    BY DEF On
  <2>4. Lacks(f, "-d")
    BY <2>3, PieceTokens DEF Lacks
  <2> QED
    BY <2>1, <2>2, <2>4
<1> HIDE DEF a, b, c, d, e, f
<1>5. Chained(a, b, T)
  BY <1>2, Chain
<1>6. Chained(a \o b, c, T)
  <2>1. a \o b \in Seq(T)
    BY <1>2, <1>5 DEF Chained
  <2> QED
    BY <1>2, <1>5, <2>1, Chain
<1>7. Chained((a \o b) \o c, d, T)
  <2>1. (a \o b) \o c \in Seq(T)
    BY <1>2, <1>6 DEF Chained
  <2> QED
    BY <1>2, <1>6, <2>1, Chain
<1>8. Chained(((a \o b) \o c) \o d, e, T)
  <2>1. ((a \o b) \o c) \o d \in Seq(T)
    BY <1>2, <1>7 DEF Chained
  <2> QED
    BY <1>2, <1>7, <2>1, Chain
<1>9. Chained((((a \o b) \o c) \o d) \o e, f, T)
  <2>1. (((a \o b) \o c) \o d) \o e \in Seq(T)
    BY <1>2, <1>8 DEF Chained
  <2> QED
    BY <1>2, <1>8, <2>1, Chain
<1> QED
  BY <1>1, <1>3, <1>4, <1>5, <1>6, <1>7, <1>8, <1>9 DEF Chained, Lacks, Has

\* What is asked for is emitted.
LEMMA ToggleTokens ==
  ASSUME NEW T, Options \cup Literals \subseteq T, NEW sub, NEW flags
  PROVE  /\ "dry_run" \in flags => "--dry-run" \in ToSet(Toggles(sub, flags))
         /\ "list_endpoints" \in flags => "--list-endpoints" \in ToSet(Toggles(sub, flags))
         /\ "-d" \notin ToSet(Toggles(sub, flags))
<1> DEFINE a == On("stop_on_error" \in flags, <<"--stop-on-error">>)
           b == On("monitoring" \in flags, <<"--monitoring">>)
           c == On("no_monitoring" \in flags /\ sub = "standup", <<"--no-monitoring">>)
           d == On("wait_timeout" \in flags /\ sub \in {"run", "experiment"}, <<"--wait-timeout", "2">>)
           e == On("list_endpoints" \in flags, <<"--list-endpoints">>)
           f == On("skip" \in flags, <<"-z">>)
           g == On("dry_run" \in flags, <<"--dry-run">>)
<1>1. Toggles(sub, flags) = (((((a \o b) \o c) \o d) \o e) \o f) \o g
  BY DEF Toggles
<1>2. a \in Seq(T) /\ b \in Seq(T) /\ c \in Seq(T) /\ d \in Seq(T) /\ e \in Seq(T) /\ f \in Seq(T) /\ g \in Seq(T)
  BY DEF On, Options, Valued, Bare, Triggers, Literals
<1>3. Lacks(a, "-d") /\ Lacks(b, "-d") /\ Lacks(c, "-d") /\ Lacks(d, "-d")
  <2>0. \A x, y, condition : "-d" # x =>
           /\ Lacks(On(condition, <<x>>), "-d")
           /\ "-d" # y => Lacks(On(condition, <<x, y>>), "-d") /\ Lacks(<<x, y>>, "-d") /\ Lacks(Given(x, y), "-d")
    BY PiecesLack
  <2>1. Lacks(a, "-d")
    BY <2>0
  <2>2. Lacks(b, "-d")
    BY <2>0
  <2>3. Lacks(c, "-d")
    BY <2>0
  <2>4. Lacks(d, "-d")
    BY <2>0
  <2> QED
    BY <2>1, <2>2, <2>3, <2>4
<1>4. Lacks(e, "-d") /\ Lacks(f, "-d") /\ Lacks(g, "-d")
  <2>0. \A x, y, condition : "-d" # x =>
           /\ Lacks(On(condition, <<x>>), "-d")
           /\ "-d" # y => Lacks(On(condition, <<x, y>>), "-d") /\ Lacks(<<x, y>>, "-d") /\ Lacks(Given(x, y), "-d")
    BY PiecesLack
  <2>1. Lacks(e, "-d")
    BY <2>0
  <2>2. Lacks(f, "-d")
    BY <2>0
  <2>3. Lacks(g, "-d")
    BY <2>0
  <2> QED
    BY <2>1, <2>2, <2>3
<1>a. "list_endpoints" \in flags => Has(e, "--list-endpoints")
  BY PieceHas
<1>b. "dry_run" \in flags => Has(g, "--dry-run")
  BY PieceHas
<1> HIDE DEF a, b, c, d, e, f, g
<1>5. Chained(a, b, T)
  BY <1>2, Chain
<1>6. Chained(a \o b, c, T)
  <2>1. a \o b \in Seq(T)
    BY <1>2, <1>5 DEF Chained
  <2> QED
    BY <1>2, <1>5, <2>1, Chain
<1>7. Chained((a \o b) \o c, d, T)
  <2>1. (a \o b) \o c \in Seq(T)
    BY <1>2, <1>6 DEF Chained
  <2> QED
    BY <1>2, <1>6, <2>1, Chain
<1>8. Chained(((a \o b) \o c) \o d, e, T)
  <2>1. ((a \o b) \o c) \o d \in Seq(T)
    BY <1>2, <1>7 DEF Chained
  <2> QED
    BY <1>2, <1>7, <2>1, Chain
<1>9. Chained((((a \o b) \o c) \o d) \o e, f, T)
  <2>1. (((a \o b) \o c) \o d) \o e \in Seq(T)
    BY <1>2, <1>8 DEF Chained
  <2> QED
    BY <1>2, <1>8, <2>1, Chain
<1>10. Chained(((((a \o b) \o c) \o d) \o e) \o f, g, T)
  <2>1. ((((a \o b) \o c) \o d) \o e) \o f \in Seq(T)
    BY <1>2, <1>9 DEF Chained
  <2> QED
    BY <1>2, <1>9, <2>1, Chain
<1> QED
  BY <1>1, <1>3, <1>4, <1>a, <1>b, <1>5, <1>6, <1>7, <1>8, <1>9, <1>10 DEF Chained, Lacks, Has

\* What is asked for is emitted, and a debug option only where it means that.
LEMMA MiddleTokens ==
  ASSUME NEW q, NEW T, Speaks(T, q), Names(q)
  PROVE  /\ q.sub \notin {"run", "experiment"} => "-d" \notin ToSet(Middle(q))
         /\ "dry_run" \in Anchored(q) => "--dry-run" \in ToSet(Middle(q))
         /\ "list_endpoints" \in Anchored(q) => "--list-endpoints" \in ToSet(Middle(q))
<1> DEFINE flags == Anchored(q)
           a == <<"-p", "ns">>
           b == Given("-l", q.harness)
           c == Given("-w", q.workload)
           d == On("output" \in flags, <<"-r", "local">>)
           e == On("experiments" \in flags, <<"-e", "file">>)
           f == SubcommandFlags(q.sub, flags)
           g == Toggles(q.sub, flags)
<1>1. Middle(q) = (((((a \o b) \o c) \o d) \o e) \o f) \o g
  BY DEF Middle
<1>0. Options \cup Literals \subseteq T
  BY DEF Speaks
<1>2. b \in Seq(T) /\ c \in Seq(T)
  BY GivenFor DEF Composed
<1>3. a \in Seq(T) /\ d \in Seq(T) /\ e \in Seq(T)
  BY <1>0 DEF On, Literals, Options, Valued
<1>4. f \in Seq(T) /\ g \in Seq(T)
  BY <1>0, SubcommandFlagsComposed, TogglesComposed DEF Composed
<1>5. q.harness # "-d" /\ q.workload # "-d"
  BY DEF Names, Options, Bare
<1>6. Lacks(a, "-d") /\ Lacks(b, "-d") /\ Lacks(c, "-d")
  <2>0. \A x, y, condition : "-d" # x =>
           /\ Lacks(On(condition, <<x>>), "-d")
           /\ "-d" # y => Lacks(On(condition, <<x, y>>), "-d") /\ Lacks(<<x, y>>, "-d") /\ Lacks(Given(x, y), "-d")
    BY PiecesLack
  <2>1. Lacks(a, "-d")
    BY <2>0, <1>5
  <2>2. Lacks(b, "-d")
    BY <2>0, <1>5
  <2>3. Lacks(c, "-d")
    BY <2>0, <1>5
  <2> QED
    BY <2>1, <2>2, <2>3
<1>7. Lacks(d, "-d") /\ Lacks(e, "-d")
  <2>0. \A x, y, condition : "-d" # x =>
           /\ Lacks(On(condition, <<x>>), "-d")
           /\ "-d" # y => Lacks(On(condition, <<x, y>>), "-d") /\ Lacks(<<x, y>>, "-d") /\ Lacks(Given(x, y), "-d")
    BY PiecesLack
  <2>1. Lacks(d, "-d")
    BY <2>0
  <2>2. Lacks(e, "-d")
    BY <2>0
  <2> QED
    BY <2>1, <2>2
<1>8. q.sub \notin {"run", "experiment"} => Lacks(f, "-d")
  BY <1>0, DebugTokens DEF Lacks
<1>9. /\ Lacks(g, "-d")
      /\ "dry_run" \in Anchored(q) => Has(g, "--dry-run")
      /\ "list_endpoints" \in Anchored(q) => Has(g, "--list-endpoints")
  BY <1>0, ToggleTokens DEF Lacks, Has
<1> HIDE DEF a, b, c, d, e, f, g
<1>10. Chained(a, b, T)
  BY <1>2, <1>3, Chain
<1>11. Chained(a \o b, c, T)
  <2>1. a \o b \in Seq(T)
    BY <1>2, <1>10 DEF Chained
  <2> QED
    BY <1>2, <1>10, <2>1, Chain
<1>12. Chained((a \o b) \o c, d, T)
  <2>1. (a \o b) \o c \in Seq(T)
    BY <1>3, <1>11 DEF Chained
  <2> QED
    BY <1>3, <1>11, <2>1, Chain
<1>13. Chained(((a \o b) \o c) \o d, e, T)
  <2>1. ((a \o b) \o c) \o d \in Seq(T)
    BY <1>3, <1>12 DEF Chained
  <2> QED
    BY <1>3, <1>12, <2>1, Chain
<1>14. Chained((((a \o b) \o c) \o d) \o e, f, T)
  <2>1. (((a \o b) \o c) \o d) \o e \in Seq(T)
    BY <1>4, <1>13 DEF Chained
  <2> QED
    BY <1>4, <1>13, <2>1, Chain
<1>15. Chained(((((a \o b) \o c) \o d) \o e) \o f, g, T)
  <2>1. ((((a \o b) \o c) \o d) \o e) \o f \in Seq(T)
    BY <1>4, <1>14 DEF Chained
  <2> QED
    BY <1>4, <1>14, <2>1, Chain
<1> QED
  BY <1>1, <1>6, <1>7, <1>8, <1>9, <1>10, <1>11, <1>12, <1>13, <1>14, <1>15 DEF Chained, Lacks, Has

\* What a plan that is valid names is what the catalog lists.
LEMMA PlanFits ==
  ASSUME NEW q, NEW T, NEW s, Composed(s, q, T), NEW catalog, IsCatalog(catalog), ValidatePlan(q, catalog), NEW flags
  PROVE  Fitting(s, flags, catalog)
<1>1. q.spec \in catalog.specs /\ q.harness \in catalog.harnesses
  BY DEF IsCatalog, ValidatePlan
<1>2. q.workload \in catalog.workloads
  <2>1. CASE q.harness \in DOMAIN catalog.byHarness
    BY <2>1 DEF IsCatalog, ValidatePlan
  <2>2. CASE q.harness \notin DOMAIN catalog.byHarness
    BY <2>2 DEF IsCatalog, ValidatePlan
  <2> QED
    BY <2>1, <2>2
<1> SUFFICES ASSUME NEW n \in DOMAIN s PROVE Fits(s[n + 1], Allowed(s[n], catalog))
  BY DEF Fitting, FitsAt
<1>3. /\ s[n] = "--spec" => s[n + 1] = q.spec
      /\ s[n] = "-l" => s[n + 1] = q.harness
      /\ s[n] = "-w" => s[n + 1] = q.workload
  BY DEF Composed, AsRequested
<1>4. CASE s[n] = "--spec"
  BY <1>1, <1>3, <1>4 DEF Fits, Allowed
<1>5. CASE s[n] = "-l"
  BY <1>1, <1>3, <1>5 DEF Fits, Allowed
<1>6. CASE s[n] = "-w"
  BY <1>2, <1>3, <1>6 DEF Fits, Allowed
<1>7. CASE s[n] \notin {"--spec", "-l", "-w"}
  BY <1>7 DEF Fits, Allowed
<1> QED
  BY <1>4, <1>5, <1>6, <1>7

After(q) == Middle(q) \o q.extra
Line(q) == CommandLine("llmdbenchmark", Before(q), q.sub, After(q))
LineMode(q, catalog) == IfFits(Before(q), LeafVerdict(Subcommands[q.sub], After(q), catalog), catalog)

\* The tokens of a composed command and how it is judged.
LEMMA LineIs ==
  ASSUME NEW q, q.sub \in Lines, NEW T, Speaks(T, q), Names(q), NoneForValue(q.extra), NEW catalog
  PROVE  /\ After(q) \in Seq(T) /\ NoneForValue(After(q))
         /\ ToSet(After(q)) = ToSet(Middle(q)) \cup ToSet(q.extra)
         /\ ToSet(Line(q)) = {"llmdbenchmark", q.sub} \cup ToSet(Before(q)) \cup ToSet(After(q))
         /\ Validate(Line(q), catalog) = LineMode(q, catalog)
         /\ Validate(InsertAt(Line(q), 2, "-n"), catalog) = LineMode(q, catalog)
<1> DEFINE m == Middle(q)
           x == q.extra
           b == Before(q)
           a == After(q)
           e == "llmdbenchmark"
           n == "-n"
           verdict == LeafVerdict(Subcommands[q.sub], a, catalog)
<1>1. m \in Seq(T) /\ Closed(m, T)
  BY MiddleIs, PairedIsClosed DEF Composed
<1>2. x \in Seq(T)
  BY DEF Speaks
<1>3. b \in Seq(T)
  BY BeforeIs DEF Composed
<1>4. e \in T /\ q.sub \in T /\ n \in T
  BY DEF Speaks, Options, Triggers
<1>5. a = m \o x
  BY DEF After
<1>6. Opening(b, T) /\ Opening(<<n>> \o b, T) /\ \A v, c : IfFits(<<n>> \o b, v, c) = IfFits(b, v, c)
  BY OpeningIs
<1> HIDE DEF m, x, b, a, e, n
<1>7. a \in Seq(T) /\ NoneForValue(a)
  BY <1>1, <1>2, <1>5, ClosedBoth DEF x
<1>8. ToSet(a) = ToSet(m) \cup ToSet(x)
  <2>1. Chained(m, x, T)
    BY <1>1, <1>2, Chain
  <2> QED
    BY <1>5, <2>1 DEF Chained
<1> DEFINE line == CommandLine(e, b, q.sub, a)
<1>9. ToSet(line) = {e, q.sub} \cup ToSet(b) \cup ToSet(a)
  BY <1>3, <1>4, <1>7, LineTokens
<1>10. /\ Tail(line) = Parts3(b, q.sub, a)
       /\ Tail(InsertAt(line, 2, n)) = Parts3(<<n>> \o b, q.sub, a)
  <2>1. HasShape(line, b, q.sub, a, n)
    BY <1>3, <1>4, <1>7, LineShapes
  <2> HIDE DEF line
  <2> QED
    BY <2>1 DEF HasShape
<1> HIDE DEF line
<1>11. Validate(line, catalog) = IfFits(b, verdict, catalog)
  BY <1>4, <1>6, <1>7, <1>10, LineJudged
<1>12. Validate(InsertAt(line, 2, n), catalog) = IfFits(b, verdict, catalog)
  <2> DEFINE other == InsertAt(line, 2, n)
             front == <<n>> \o b
  <2>1. Opening(front, T) /\ Tail(other) = Parts3(front, q.sub, a) /\ IfFits(front, verdict, catalog) = IfFits(b, verdict, catalog)
    BY <1>6, <1>10
  <2> HIDE DEF other, front
  <2>2. Validate(other, catalog) = IfFits(front, verdict, catalog)
    BY <1>4, <1>7, <2>1, LineJudged
  <2> QED
    BY <2>1, <2>2 DEF other
<1>13. line = Line(q)
  BY DEF line, Line, e, b, a
<1> QED
  BY <1>7, <1>8, <1>9, <1>11, <1>12, <1>13 DEF LineMode, m, x, b, a, e, n

\* Only what follows the subcommand can make a command harmless.
LineReads(q) == \E token \in ToSet(After(q)) : Effect(q.sub, token) \in Harmless

\* Only what follows the subcommand has an effect, and only what is passed through a deep one.
LEMMA LineEffects ==
  ASSUME NEW q, q.sub \in Lines, NEW T, Speaks(T, q), Names(q), NoneForValue(q.extra)
  PROVE  /\ \A token \in ToSet(Line(q)) : Effect(q.sub, token) \in Harmless => token \in ToSet(After(q))
         /\ ToSet(After(q)) \subseteq ToSet(Line(q))
         /\ \A token \in ToSet(Line(q)) : Effect(q.sub, token) = "deep" => token \in ToSet(q.extra)
<1>1. /\ ToSet(After(q)) = ToSet(Middle(q)) \cup ToSet(q.extra)
      /\ ToSet(Line(q)) = {"llmdbenchmark", q.sub} \cup ToSet(Before(q)) \cup ToSet(After(q))
  BY LineIs
<1>2. ToSet(Before(q)) \subseteq {"--spec", q.spec, "--workspace", "here"}
  BY BeforeIs
<1>3. q.spec \notin Options /\ q.sub \notin Options /\ "-d" \in Options /\ Triggers \subseteq Options
  <2>1. q.sub \notin Options
    BY LinesAre
  <2> QED
    BY <2>1, OptionsAre DEF Names, Options, Bare
<1>4. \A token : EffectCases(q.sub, token)
  BY EffectIs
<1>5. ASSUME NEW token \in {"llmdbenchmark", q.sub} \cup ToSet(Before(q))
      PROVE  Effect(q.sub, token) \notin Harmless /\ Effect(q.sub, token) # "deep"
  <2>1. token \in {"llmdbenchmark", q.sub, "--spec", q.spec, "--workspace", "here"}
    BY <1>2
  <2>2. token \notin Triggers \cup {"-d"}
    BY <1>3, <2>1 DEF Triggers
  <2>3. EffectCases(q.sub, token)
    BY <1>4
  <2> QED
    BY <2>2, <2>3 DEF EffectCases, Triggers
<1>6. ASSUME NEW token \in ToSet(After(q)), Effect(q.sub, token) = "deep" PROVE token \in ToSet(q.extra)
  <2>1. token = "-d" /\ q.sub = "teardown"
    BY <1>4, <1>6 DEF EffectCases
  <2>2. "-d" \notin ToSet(Middle(q))
    BY <2>1, MiddleTokens
  <2> QED
    BY <1>1, <2>1, <2>2
<1> QED
  BY <1>1, <1>5, <1>6

\* What a command of the six is let through as.
LEMMA LineModes ==
  ASSUME NEW q, q.sub \in Lines, NEW T, Speaks(T, q), Names(q), NoneForValue(q.extra), NEW catalog,
         LineMode(q, catalog) # Rejected
  PROVE  /\ LineMode(q, catalog) = "read_only" <=> q.sub = "plan" \/ LineReads(q)
         /\ LineMode(q, catalog) \in {"read_only", "mutating"}
<1> DEFINE entry == Subcommands[q.sub]
           verdict == LeafVerdict(entry, After(q), catalog)
<1>1. /\ IsLeafFor(entry, q.sub) /\ entry.positionals = <<>>
      /\ entry.mode = IF q.sub = "plan" THEN "read_only" ELSE "mutating"
  BY LinesAre
<1>2. After(q) \in Seq(T) /\ NoneForValue(After(q))
  BY LineIs
<1>3. entry.positionals \in Seq(Places)
  <2>1. <<>> \in Seq(Places)
    OBVIOUS
  <2> QED
    BY <1>1, <2>1
<1>4. LineMode(q, catalog) = verdict /\ verdict # Rejected
  BY DEF LineMode, IfFits
<1> HIDE DEF entry
<1>5. ModeFollows(verdict, After(q), q.sub, entry.mode)
  BY <1>1, <1>2, <1>3, LeafFollows
<1>6. (\E n \in DOMAIN After(q) : Effect(q.sub, After(q)[n]) \in Harmless) <=> LineReads(q)
  BY DEF LineReads, ToSet
<1> HIDE DEF verdict
<1>7. verdict = IF LineReads(q) THEN "read_only" ELSE entry.mode
  BY <1>4, <1>5, <1>6 DEF ModeFollows
<1> QED
  BY <1>1, <1>4, <1>7

\* A valid plan is let through.
LEMMA PlanIsLetThrough ==
  ASSUME NEW q, q.sub \in Lines, NEW T, Speaks(T, q), Names(q), q.extra = <<>>, NEW catalog, IsCatalog(catalog),
         ValidatePlan(q, catalog)
  PROVE  LineMode(q, catalog) # Rejected
<1> DEFINE entry == Subcommands[q.sub]
           flags == entry.flags \cup GlobalFlags
           m == Middle(q)
           no == FALSE
<1>1. IsLeafFor(entry, q.sub) /\ entry.positionals = <<>>
  BY LinesAre
<1>2. Composed(Before(q), q, T) /\ Composed(m, q, T)
  BY BeforeIs, MiddleIs
<1>3. After(q) = m
  <2>1. m \in Seq(T)
    BY <1>2 DEF Composed
  <2> HIDE DEF m
  <2>2. m \o <<>> = m
    BY <2>1
  <2> QED
    BY <2>2 DEF After, m
<1>4. Fitting(Before(q), GlobalFlags, catalog) /\ Fitting(m, flags, catalog)
  <2> HIDE DEF flags
  <2> QED
    BY <1>2, PlanFits
<1>5. flags \subseteq Options
  BY <1>1, GlobalFlagsAre DEF IsLeafFor
<1>6. Paired(m) /\ m \in Seq(T) /\ no \in BOOLEAN
  BY <1>2 DEF Composed
<1>7. entry.mode # Rejected /\ "read_only" # Rejected
  BY <1>1 DEF IsLeafFor, Rejected
<1> HIDE DEF flags, m, no
<1>8. Walk(m, flags, <<>>, entry.mode, no, catalog) = PairedMode(m, flags, entry.mode, no, catalog)
  BY <1>5, <1>6, PairedWalk
<1>9. LeafVerdict(entry, m, catalog) = PairedMode(m, flags, entry.mode, no, catalog)
  BY <1>1, <1>8 DEF LeafVerdict, flags, no
<1>10. LeafVerdict(entry, m, catalog) # Rejected
  BY <1>4, <1>7, <1>9 DEF PairedMode
<1> QED
  BY <1>3, <1>4, <1>10 DEF LineMode, IfFits

\* What is anchored is more than what was given.
LEMMA AnchoredIs ==
  ASSUME NEW q
  PROVE  /\ "dry_run" \in q.flags => "dry_run" \in Anchored(q)
         /\ "list_endpoints" \in q.flags => "list_endpoints" \in Anchored(q)
         /\ q.sub = "run" /\ q.flags \cap {"list_endpoints", "dry_run"} = {} => ResultLocation(q, <<>>) # <<>>
         /\ q.sub = "experiment" /\ "dry_run" \notin q.flags => ResultLocation(q, <<>>) # <<>>
<1>1. <<"results">> # <<>> /\ <<"experiment">> # <<>>
  OBVIOUS
<1>2. "run" # "experiment"
  OBVIOUS
<1>3. ASSUME q.sub = "run", q.flags \cap {"list_endpoints", "dry_run"} = {} PROVE ResultLocation(q, <<>>) # <<>>
  <2>1. "output" \in Anchored(q)
    BY <1>3 DEF Anchored
  <2> QED
    BY <1>1, <1>2, <1>3, <2>1 DEF ResultLocation, On
<1>4. ASSUME q.sub = "experiment", "dry_run" \notin q.flags PROVE ResultLocation(q, <<>>) # <<>>
  <2>1. "workspace" \in Anchored(q)
    BY <1>4 DEF Anchored
  <2> QED
    BY <1>1, <1>4, <2>1 DEF ResultLocation, On
<1> QED
  BY <1>3, <1>4 DEF Anchored

-----------------------------------------------------------------------------
(* The six subcommands. *)

\* The six subcommands.
LEMMA LineGate ==
  ASSUME NEW q, q.sub \in Lines, NEW T, Speaks(T, q), Names(q), NoneForValue(q.extra), NEW catalog, IsCatalog(catalog)
  PROVE  GateMatchesEffect(q, catalog)
<1> DEFINE argv == Line(q)
           mode == LineMode(q, catalog)
           effects == {Effect(q.sub, argv[n]) : n \in DOMAIN argv}
<1>0. q.sub # "results"
  BY LinesAre
<1>1. BuildArgv(q) = {argv}
  BY <1>0, ComposedLine DEF Line, After
<1>2. Validate(argv, catalog) = mode /\ Validate(InsertAt(argv, 2, "-n"), catalog) = mode
  BY LineIs
<1>3. effects = {Effect(q.sub, token) : token \in ToSet(argv)}
  BY DEF ToSet
<1>4. /\ \A token \in ToSet(argv) : Effect(q.sub, token) \in Harmless => token \in ToSet(After(q))
      /\ ToSet(After(q)) \subseteq ToSet(argv)
      /\ \A token \in ToSet(argv) : Effect(q.sub, token) = "deep" => token \in ToSet(q.extra)
  BY LineEffects
<1> HIDE DEF argv, effects
<1>5. effects \cap Harmless # {} <=> LineReads(q)
  BY <1>3, <1>4, Zenon DEF LineReads
<1>6. \A token : EffectCases(q.sub, token)
  BY EffectIs
<1>7. "deep" \in effects => "-d" \in ToSet(q.extra)
  <2>1. ASSUME NEW token \in ToSet(argv), Effect(q.sub, token) = "deep" PROVE "-d" \in ToSet(q.extra)
    BY <1>4, <1>6, <2>1 DEF EffectCases
  <2> QED
    BY <1>3, <2>1
<1>8. ToSet(Middle(q)) \subseteq ToSet(argv)
  <2>1. ToSet(After(q)) = ToSet(Middle(q)) \cup ToSet(q.extra)
    BY LineIs
  <2> QED
    BY <1>4, <2>1
<1>9. "dry_run" \in q.flags => "preview" \in effects
  <2>1. ASSUME "dry_run" \in q.flags PROVE "preview" \in effects
    <3>1. "--dry-run" \in ToSet(argv)
      BY <1>8, <2>1, AnchoredIs, MiddleTokens
    <3>2. Effect(q.sub, "--dry-run") = "preview"
      BY <1>0, <1>6 DEF EffectCases
    <3> QED
      BY <1>3, <3>1, <3>2
  <2> QED
    BY <2>1
<1>10. q.sub = "run" /\ "list_endpoints" \in q.flags => effects \cap Harmless # {}
  <2>1. ASSUME q.sub = "run", "list_endpoints" \in q.flags PROVE effects \cap Harmless # {}
    <3>1. "--list-endpoints" \in ToSet(argv)
      BY <1>8, <2>1, AnchoredIs, MiddleTokens
    <3>2. Effect(q.sub, "--list-endpoints") \in Harmless
      BY <1>6, <2>1 DEF EffectCases
    <3> QED
      BY <1>3, <3>1, <3>2
  <2> QED
    BY <2>1
<1>11. mode # Rejected => (mode = "read_only" <=> q.sub = "plan" \/ effects \cap Harmless # {})
  <2>1. ASSUME mode # Rejected PROVE mode = "read_only" <=> q.sub = "plan" \/ LineReads(q)
    BY <2>1, LineModes
  <2> QED
    BY <1>5, <2>1
<1>12. "preview" \in Harmless
  BY DEF Harmless
<1>13. q.sub \in {"run", "experiment"} /\ mode = "mutating" => ResultLocation(q, <<>>) # <<>>
  <2>1. ASSUME q.sub \in {"run", "experiment"}, mode = "mutating" PROVE ResultLocation(q, <<>>) # <<>>
    <3>1. mode # Rejected /\ mode # "read_only" /\ q.sub # "plan"
      BY <2>1 DEF Rejected
    <3>2. effects \cap Harmless = {}
      BY <1>11, <3>1
    <3>3. "dry_run" \notin q.flags
      BY <1>9, <1>12, <3>2
    <3>4. q.sub = "run" => "list_endpoints" \notin q.flags
      BY <1>10, <3>2
    <3>5. q.sub = "run" => q.flags \cap {"list_endpoints", "dry_run"} = {}
      BY <3>3, <3>4
    <3> QED
      BY <2>1, <3>3, <3>5, AnchoredIs
  <2> QED
    BY <2>1
<1>14. ValidatePlan(q, catalog) /\ q.extra = <<>> => mode # Rejected
  BY PlanIsLetThrough
<1> HIDE DEF mode
<1>15. Judged(q, catalog, argv)
  BY <1>0, <1>2, <1>7, <1>9, <1>11, <1>13, <1>14 DEF Judged, effects
<1> QED
  BY <1>1, <1>15 DEF GateMatchesEffect

-----------------------------------------------------------------------------
(* Requests for the store. *)

\* The set of tokens in which a request for the store can be written.
SpeaksStore(T, q) ==
  LET store == q.store
  IN  /\ Speaks(T, q) /\ {"results", "staging", store.command} \subseteq T
      /\ {store.action, store.name, store.uri, store.remote, store.uid, store.path} \cup Range(store.paths) \subseteq T

AreWords(s, T) == s \in Seq(T) /\ \A n \in DOMAIN s : s[n] \notin Options

\* Two lists of words.
LEMMA WordsBoth ==
  ASSUME NEW T, NEW s, NEW t, AreWords(s, T), AreWords(t, T)
  PROVE  AreWords(s \o t, T)
<1>1. Neighbours(s \o t, s, t)
  BY ConcatNeighbours DEF AreWords
<1>2. s \o t \in Seq(T)
  BY DEF AreWords
<1> DEFINE u == s \o t
<1> HIDE DEF u
<1>3. ASSUME NEW n \in DOMAIN u PROVE u[n] \notin Options
  <2>1. (n \in DOMAIN s /\ u[n] = s[n]) \/ \E m \in DOMAIN t : u[n] = t[m]
    BY <1>1, <1>3 DEF Neighbours, u
  <2> QED
    BY <2>1 DEF AreWords
<1> QED
  BY <1>2, <1>3 DEF AreWords, u

\* One or two words, or a name that may not be given.
LEMMA FewWords ==
  ASSUME NEW T, NEW x \in T, NEW y \in T, x \notin Options, y \notin Options
  PROVE  /\ AreWords(<<>>, T) /\ AreWords(<<x>>, T) /\ AreWords(<<x, y>>, T)
         /\ AreWords(Named(x), T)
<1>1. AreWords(<<>>, T) /\ AreWords(<<x>>, T) /\ AreWords(<<x, y>>, T)
  BY DEF AreWords
<1>2. Named(x) = <<x>> \/ Named(x) = <<>>
  BY DEF Named, On
<1> QED
  BY <1>1, <1>2

\* The names and places of a request for the store are words.
LEMMA StoreNames ==
  ASSUME NEW q, NEW T, SpeaksStore(T, q), IsStoreRequest(q.store)
  PROVE  /\ \A x \in {q.store.action, q.store.name, q.store.uri, q.store.remote, q.store.uid, q.store.path, "staging"} :
              x \in T /\ x \notin Options
         /\ AreWords(q.store.paths, T)
<1>1. "staging" \notin Options
  BY DEF Options, Valued, Triggers, Bare
<1>2. \A x \in {q.store.action, q.store.name, q.store.uri, q.store.remote, q.store.uid, q.store.path, "staging"} :
              x \in T /\ x \notin Options
  BY <1>1 DEF SpeaksStore, IsStoreRequest
<1>3. AreWords(q.store.paths, T)
  <2> DEFINE p == q.store.paths
  <2>1. p \in Seq(Range(p)) /\ Range(p) \subseteq T /\ Range(p) \cap Options = {}
    BY DEF SpeaksStore, IsStoreRequest
  <2>2. \A n \in DOMAIN p : p[n] \in Range(p)
    BY DEF Range
  <2> HIDE DEF p
  <2>3. p \in Seq(T)
    BY <2>1
  <2> QED
    BY <2>1, <2>2, <2>3 DEF AreWords, p
<1> QED
  BY <1>2, <1>3

\* The fields that a command of the store needs.
LEMMA NeededAreWords ==
  ASSUME NEW q, NEW T, SpeaksStore(T, q), IsStoreRequest(q.store)
  PROVE  AreWords(Needed(q.store), T)
<1> DEFINE name == q.store.name
           uri == q.store.uri
           remote == q.store.remote
           uid == q.store.uid
<1>1. /\ name \in T /\ uri \in T /\ remote \in T /\ uid \in T
      /\ name \notin Options /\ uri \notin Options /\ remote \notin Options /\ uid \notin Options
  BY StoreNames
<1>2. Needed(q.store) \in {<<name, uri>>, <<name>>, <<remote>>, <<uid>>, <<>>}
  <2>1. CASE q.store.command = "remote" /\ q.store.action = "add"
    BY <2>1 DEF Needed
  <2>2. CASE q.store.command = "remote" /\ q.store.action = "rm"
    BY <2>2 DEF Needed
  <2>3. CASE q.store.command = "ls"
    BY <2>3 DEF Needed
  <2>4. CASE q.store.command = "pull"
    BY <2>4 DEF Needed
  <2>5. CASE /\ ~(q.store.command = "remote" /\ q.store.action = "add") /\ ~(q.store.command = "remote" /\ q.store.action = "rm")
             /\ q.store.command # "ls" /\ q.store.command # "pull"
    BY <2>5 DEF Needed
  <2> QED
    BY <2>1, <2>2, <2>3, <2>4, <2>5
<1> HIDE DEF name, uri, remote, uid
<1>3. AreWords(<<name, uri>>, T) /\ AreWords(<<name>>, T) /\ AreWords(<<remote>>, T) /\ AreWords(<<uid>>, T) /\ AreWords(<<>>, T)
  <2>1. \A x, y \in T : x \notin Options /\ y \notin Options =>
          AreWords(<<>>, T) /\ AreWords(<<x>>, T) /\ AreWords(<<x, y>>, T)
    BY FewWords
  <2> QED
    BY <1>1, <2>1
<1> QED
  BY <1>2, <1>3

\* What a command of the store that is no group is followed by waits for no value and
\* has no trigger.
LEMMA StoreWordsAre ==
  ASSUME NEW q, NEW T, SpeaksStore(T, q), IsStoreRequest(q.store), q.store.command # "remote"
  PROVE  Closed(StoreWords(q.store), T) /\ ToSet(StoreWords(q.store)) \cap Triggers = {}
<1> DEFINE store == q.store
           command == q.store.command
           words == StoreWords(q.store)
           wordy(s) == AreWords(s, T) => Closed(s, T) /\ ToSet(s) \cap Triggers = {}
<1>1. \A s : wordy(s)
  <2> SUFFICES ASSUME NEW s, AreWords(s, T) PROVE Closed(s, T) /\ ToSet(s) \cap Triggers = {}
    OBVIOUS
  <2>1. Closed(s, T)
    BY WordsAreClosed DEF AreWords
  <2>2. ToSet(s) \cap Options = {}
    BY DEF AreWords, ToSet
  <2> QED
    BY <2>1, <2>2, OptionsAre
<1>2. \A x \in {q.store.remote, q.store.path} : AreWords(Named(x), T)
  <2>1. \A x \in T : x \notin Options => AreWords(Named(x), T)
    BY FewWords
  <2> QED
    BY <2>1, StoreNames
<1>3. CASE command \in {"add", "rm"}
  <2>1. words = store.paths
    BY <1>3 DEF StoreWords
  <2>2. AreWords(words, T)
    BY <2>1, StoreNames
  <2> QED
    BY <1>1, <2>2
<1>4. CASE command = "push"
  <2> DEFINE first == IF store.remote = "" /\ store.path # "" THEN <<"staging">> ELSE Named(store.remote)
             second == Named(store.path)
  <2>1. words = first \o second
    BY <1>4 DEF StoreWords
  <2>2. AreWords(<<"staging">>, T)
    <3>1. "staging" \in T /\ "staging" \notin Options
      BY StoreNames
    <3> QED
      BY <3>1, FewWords
  <2>3. AreWords(first, T) /\ AreWords(second, T)
    BY <1>2, <2>2
  <2> HIDE DEF first, second
  <2>4. AreWords(words, T)
    BY <2>1, <2>3, WordsBoth
  <2> QED
    BY <1>1, <2>4
<1>5. CASE command = "pull"
  <2> DEFINE first == Named(store.remote)
             x == "--run-uid"
             uid == store.uid
             second == <<x, uid>>
  <2>1. words = first \o second
    BY <1>5 DEF StoreWords
  <2>2. AreWords(first, T)
    BY <1>2
  <2>3. x \in T /\ x \in Valued /\ x \notin {"--spec", "-l", "-w"} /\ uid \in T /\ uid \notin Options /\ x \notin Triggers
    BY StoreNames DEF SpeaksStore, Speaks, Options, Valued, Triggers
  <2> HIDE DEF x, uid
  <2>4. Composed(second, q, T)
    BY <2>3, PairComposed
  <2>5. second \in Seq(T) /\ Closed(second, T)
    BY <2>4, PairedIsClosed DEF Composed
  <2>6. ToSet(second) = {x, uid}
    BY PieceTokens
  <2>7. Closed(first, T) /\ ToSet(first) \cap Triggers = {}
    BY <1>1, <2>2
  <2> HIDE DEF first, second
  <2>8. Closed(first \o second, T)
    BY <2>5, <2>7, ClosedBoth DEF Closed
  <2>9. ToSet(first \o second) = ToSet(first) \cup ToSet(second)
    <3>1. first \in Seq(T)
      BY <2>7 DEF Closed
    <3>2. Chained(first, second, T)
      BY <2>5, <3>1, Chain
    <3> QED
      BY <3>2 DEF Chained
  <2> QED
    BY <2>1, <2>3, <2>6, <2>7, <2>8, <2>9, OptionsAre
<1>6. CASE command \notin {"add", "rm", "push", "pull"}
  <2>1. words = Needed(store)
    BY <1>6 DEF StoreWords
  <2>2. AreWords(words, T)
    BY <2>1, NeededAreWords
  <2> QED
    BY <1>1, <2>2
<1> QED
  BY <1>3, <1>4, <1>5, <1>6

\* What follows the word `results`.
StoreAfter(q) == Parts3(<<>>, q.store.command, StoreWords(q.store) \o q.extra)
StoreLine(q) == CommandLine("llmdbenchmark", Before(q), "results", StoreAfter(q))

\* A word, and what follows it.
LEMMA NothingParts ==
  ASSUME NEW T, NEW word \in T, NEW rest \in Seq(T)
  PROVE  Parts3(<<>>, word, rest) = <<word>> \o rest
<1> DEFINE none == <<>>
           one == <<word>>
<1>1. none \o one = one
  OBVIOUS
<1> QED
  BY <1>1 DEF Parts3

\* The words of a request for the store, whichever its command.
LEMMA StoreWordsSeq ==
  ASSUME NEW q, NEW T, SpeaksStore(T, q), IsStoreRequest(q.store)
  PROVE  StoreWords(q.store) \in Seq(T)
<1>1. CASE q.store.command # "remote"
  BY <1>1, StoreWordsAre DEF Closed
<1>2. CASE q.store.command = "remote"
  <2> DEFINE a == <<q.store.action>>
             n == Needed(q.store)
  <2>1. StoreWords(q.store) = a \o n
    BY <1>2 DEF StoreWords
  <2>2. n \in Seq(T)
    BY NeededAreWords DEF AreWords
  <2>3. q.store.action \in T
    BY StoreNames
  <2>4. a \in Seq(T)
    BY <2>3
  <2> HIDE DEF a, n
  <2> QED
    BY <2>1, <2>2, <2>4
<1> QED
  BY <1>1, <1>2

\* The one command, at most, that is composed for a request for the store.
LEMMA StoreComposed ==
  ASSUME NEW q, q.sub = "results", NEW T, SpeaksStore(T, q), Names(q), IsStoreRequest(q.store)
  PROVE  BuildArgv(q) \subseteq {StoreLine(q)}
<1> DEFINE flags == Anchored(q)
           exe == <<"llmdbenchmark">>
           s == Given("--spec", q.spec)
           w == On("workspace" \in flags, <<"--workspace", "here">>)
           sub == <<"results">>
           h == ((exe \o s) \o w) \o sub
           c == <<q.store.command>>
           t == StoreWords(q.store)
           x == q.extra
<1>1. BuildArgv(q) = {(h \o words) \o x : words \in StoreArgv(q.store)}
  BY DEF BuildArgv
<1>2. StoreArgv(q.store) \subseteq {c \o t}
  BY DEF StoreArgv
<1>3. Speaks(T, q) /\ q.store.command \in T /\ "results" \in T /\ "llmdbenchmark" \in T
  BY DEF SpeaksStore, Speaks
<1>4. s \in Seq(T)
  BY <1>3, GivenFor DEF Composed
<1>5. w \in Seq(T)
  BY <1>3 DEF On, Speaks, Literals, Options, Valued
<1>6. x \in Seq(T) /\ exe \in Seq(T) /\ sub \in Seq(T) /\ c \in Seq(T)
  BY <1>3 DEF Speaks
<1>7. t \in Seq(T)
  BY StoreWordsSeq
<1>8. Before(q) = s \o w
  BY DEF Before
<1> DEFINE after == StoreAfter(q)
<1>9. after = c \o (t \o x)
  <2> DEFINE rest == t \o x
  <2>1. rest \in Seq(T)
    BY <1>6, <1>7
  <2> HIDE DEF rest
  <2>2. Parts3(<<>>, q.store.command, rest) = <<q.store.command>> \o rest
    BY <1>3, <2>1, NothingParts
  <2> QED
    BY <2>2 DEF StoreAfter, rest
<1> HIDE DEF s, w, sub, exe, c, t, x, after
<1>10. h \in Seq(T) /\ Reassociates(exe, s, w)
  BY <1>4, <1>5, <1>6, ConcatTwice
<1>11. h = (exe \o Before(q)) \o sub
  BY <1>8, <1>10 DEF Reassociates
<1> HIDE DEF h
<1> DEFINE ct == c \o t
<1>12. ct \in Seq(T) /\ Reassociates(c, t, x)
  BY <1>6, <1>7, ConcatTwice
<1>13. after = ct \o x
  BY <1>9, <1>12 DEF Reassociates
<1> HIDE DEF ct
<1>14. Reassociates(h, ct, x)
  BY <1>6, <1>10, <1>12, ConcatTwice
<1>15. (h \o ct) \o x = h \o after
  BY <1>13, <1>14 DEF Reassociates
<1>16. h \o after = StoreLine(q)
  BY <1>11 DEF StoreLine, CommandLine, exe, sub, after
<1>17. BuildArgv(q) \subseteq {(h \o ct) \o x}
  BY <1>1, <1>2 DEF ct
<1> QED
  BY <1>15, <1>16, <1>17

\* How it is judged, with or without a preview option before it.
StoreVerdict(q, catalog) ==
  LET rest == StoreWords(q.store) \o q.extra
  IN  IF q.store.command = "remote" THEN RemoteVerdict(q.store.action, Needed(q.store) \o q.extra, catalog)
      ELSE LeafVerdict(StoreCommands[q.store.command], rest, catalog)

\* Its verdict, whatever opens it.
LEMMA StoreIsJudged ==
  ASSUME NEW q, NEW T, SpeaksStore(T, q), IsStoreRequest(q.store), NEW before, Opening(before, T),
         NEW argv, Tail(argv) = Parts3(before, "results", StoreAfter(q)), NEW catalog
  PROVE  Validate(argv, catalog) = IfFits(before, StoreVerdict(q, catalog), catalog)
<1> DEFINE command == q.store.command
           x == q.extra
           rest == StoreWords(q.store) \o x
<1>1. command \in DOMAIN StoreCommands /\ command \in T /\ "results" \in T /\ x \in Seq(T)
  BY DEF IsStoreRequest, SpeaksStore, Speaks
<1>2. rest \in Seq(T)
  BY <1>1, StoreWordsSeq
<1>3. Tail(argv) = Parts3(before, "results", Parts3(<<>>, command, rest))
  BY DEF StoreAfter
<1>4. CASE command # "remote"
  <2>0. IsForStore(argv, before, command, rest)
    BY <1>3 DEF IsForStore
  <2> HIDE DEF rest, command
  <2>1. Validate(argv, catalog) = IfFits(before, LeafVerdict(StoreCommands[command], rest, catalog), catalog)
    BY <1>1, <1>2, <2>0, <1>4, StoreJudged
  <2> QED
    BY <1>4, <2>1 DEF StoreVerdict, rest, command
<1>5. CASE command = "remote"
  <2> DEFINE action == q.store.action
             n == Needed(q.store)
             last == n \o x
             a == <<action>>
  <2>1. n \in Seq(T) /\ action \in T /\ action \notin Options
    BY NeededAreWords, StoreNames DEF AreWords
  <2>2. StoreWords(q.store) = a \o n
    BY <1>5 DEF StoreWords
  <2>3. a \in Seq(T)
    BY <2>1
  <2> HIDE DEF n, x, a
  <2>4. last \in Seq(T) /\ Reassociates(a, n, x)
    BY <1>1, <2>1, <2>3, ConcatTwice
  <2> HIDE DEF last
  <2>5. rest = a \o last
    BY <2>2, <2>4 DEF Reassociates, last
  <2>6. Parts3(<<>>, action, last) = a \o last
    BY <2>1, <2>4, NothingParts DEF a
  <2> HIDE DEF rest, action
  <2>7. Tail(argv) = Parts3(before, "results", Parts3(<<>>, "remote", Parts3(<<>>, action, last)))
    BY <1>3, <1>5, <2>5, <2>6
  <2>8. "remote" \in T
    BY <1>1, <1>5
  <2>9. Validate(argv, catalog) = IfFits(before, RemoteVerdict(action, last, catalog), catalog)
    BY <1>1, <2>1, <2>4, <2>7, <2>8, RemoteJudged
  <2> QED
    BY <1>5, <2>9 DEF StoreVerdict, last, n, x, action
<1> QED
  BY <1>4, <1>5

\* The only option that makes a command of the store harmless.
AsksVersion(tokens) == "--version" \in ToSet(tokens)

\* Nothing that is composed for the store asks for the version.
LEMMA StoreTokens ==
  ASSUME NEW q, NEW T, SpeaksStore(T, q), Names(q), IsStoreRequest(q.store)
  PROVE  /\ \A token \in ToSet(StoreLine(q)) : token = "--version" => AsksVersion(q.extra)
         /\ ToSet(q.extra) \subseteq ToSet(StoreLine(q))
<1> DEFINE e == "llmdbenchmark"
           r == "results"
           v == "--version"
           b == Before(q)
           a == StoreAfter(q)
           c == q.store.command
           t == StoreWords(q.store)
           x == q.extra
           rest == t \o x
<1>1. c \in T /\ e \in T /\ r \in T /\ x \in Seq(T)
  BY DEF SpeaksStore, Speaks
<1>2. t \in Seq(T)
  BY StoreWordsSeq
<1>3. b \in Seq(T) /\ ToSet(b) \subseteq {"--spec", q.spec, "--workspace", "here"}
  BY BeforeIs DEF SpeaksStore, Composed
<1>4. q.spec \notin Options /\ c \notin Options /\ v \in Options /\ v \in Triggers
  BY GroupsAreNamed DEF Names, IsStoreRequest, Options, Triggers
<1>5. v # e /\ v # r /\ v \notin ToSet(b)
  BY <1>3, <1>4
<1>6. v \notin ToSet(t)
  <2>1. CASE c # "remote"
    BY <1>4, <2>1, StoreWordsAre
  <2>2. CASE c = "remote"
    <3> DEFINE action == q.store.action
               n == Needed(q.store)
               one == <<action>>
    <3>1. AreWords(n, T)
      BY NeededAreWords
    <3>2. action \in T /\ action \notin Options
      BY StoreNames
    <3>3. t = one \o n
      BY <2>2 DEF StoreWords
    <3>4. AreWords(one, T)
      BY <3>2, FewWords
    <3> HIDE DEF one, n
    <3>5. AreWords(one \o n, T)
      BY <3>1, <3>4, WordsBoth
    <3> QED
      BY <1>4, <3>3, <3>5 DEF AreWords, ToSet
  <2> QED
    BY <2>1, <2>2
<1>7. Chained(t, x, T)
  BY <1>1, <1>2, Chain
<1>8. a = <<c>> \o rest
  <2>1. rest \in Seq(T)
    BY <1>7 DEF Chained
  <2> HIDE DEF rest, c
  <2>2. Parts3(<<>>, c, rest) = <<c>> \o rest
    BY <1>1, <2>1, NothingParts
  <2> QED
    BY <2>2 DEF StoreAfter, rest, c
<1> DEFINE one == <<c>>
<1>9. one \in Seq(T) /\ ToSet(one) = {c}
  <2>1. \A y : ToSet(<<y>>) = {y}
    BY PieceTokens
  <2> QED
    BY <1>1, <2>1
<1>10. rest \in Seq(T) /\ ToSet(rest) = ToSet(t) \cup ToSet(x)
  BY <1>7 DEF Chained
<1> HIDE DEF rest, one, a, t, x, b
<1>11. Chained(one, rest, T)
  BY <1>9, <1>10, Chain
<1>12. a \in Seq(T) /\ ToSet(a) = {c} \cup ToSet(t) \cup ToSet(x)
  BY <1>8, <1>9, <1>10, <1>11 DEF Chained, one
<1> HIDE DEF e, r, v
<1>13. ToSet(CommandLine(e, b, r, a)) = {e, r} \cup ToSet(b) \cup ToSet(a)
  BY <1>1, <1>3, <1>12, LineTokens
<1>14. CommandLine(e, b, r, a) = StoreLine(q)
  BY DEF StoreLine, e, b, r, a
<1> QED
  BY <1>4, <1>5, <1>6, <1>12, <1>13, <1>14 DEF AsksVersion, v, x

\* What the region that is walked says of the mode.
LEMMA StoreRegion ==
  ASSUME NEW T, NEW words, Closed(words, T), ToSet(words) \cap Triggers = {}, NEW x \in Seq(T), NoneForValue(x),
         NEW entry, NEW reading \in BOOLEAN, IsStoreLeaf(entry, reading), NEW catalog,
         LeafVerdict(entry, words \o x, catalog) # Rejected
  PROVE  LeafVerdict(entry, words \o x, catalog) = "read_only" <=> AsksVersion(x) \/ reading
<1> DEFINE u == words \o x
           verdict == LeafVerdict(entry, u, catalog)
           harmless == \E n \in DOMAIN u : Effect("results", u[n]) \in Harmless
<1>1. u \in Seq(T) /\ NoneForValue(u)
  BY ClosedBoth
<1>2. ToSet(u) = ToSet(words) \cup ToSet(x)
  <2>1. Chained(words, x, T)
    BY Chain DEF Closed
  <2> QED
    BY <2>1 DEF Chained
<1> HIDE DEF u
<1>3. harmless <=> "--version" \in ToSet(u)
  <2>1. \A token : Effect("results", token) \in Harmless <=> token = "--version"
    <3>1. \A token : EffectCases("results", token)
      BY EffectIs
    <3> QED
      BY <3>1 DEF EffectCases
  <2> QED
    BY <2>1 DEF ToSet
<1>4. harmless <=> AsksVersion(x)
  BY <1>2, <1>3 DEF AsksVersion, Triggers
<1>5. /\ IsLeafFor(entry, "results") /\ entry.positionals \in Seq(Places)
      /\ entry.mode = IF reading THEN "read_only" ELSE "mutating"
  BY DEF IsStoreLeaf
<1>6. ModeFollows(verdict, u, "results", entry.mode)
  BY <1>1, <1>5, LeafFollows
<1>7. verdict # Rejected
  BY DEF u
<1> HIDE DEF verdict
<1>8. verdict = IF harmless THEN "read_only" ELSE entry.mode
  BY <1>6, <1>7 DEF ModeFollows
<1> HIDE DEF harmless
<1>9. verdict = "read_only" <=> AsksVersion(x) \/ reading
  <2>1. CASE harmless
    BY <1>4, <1>8, <2>1
  <2>2. CASE ~harmless /\ reading
    BY <1>5, <1>8, <2>2
  <2>3. CASE ~harmless /\ ~reading
    BY <1>4, <1>5, <1>8, <2>3
  <2> QED
    BY <2>1, <2>2, <2>3
<1> QED
  BY <1>9 DEF verdict, u

\* What a command of the store is let through as.
OnlyLists(store) == store.command \in Reading \/ (store.command = "remote" /\ store.action = "ls")

\* A command of the store only reads exactly if it lists or only says its version.
LEMMA StoreModes ==
  ASSUME NEW q, NEW T, SpeaksStore(T, q), IsStoreRequest(q.store), NoneForValue(q.extra), NEW catalog,
         StoreVerdict(q, catalog) # Rejected
  PROVE  StoreVerdict(q, catalog) = "read_only" <=> AsksVersion(q.extra) \/ OnlyLists(q.store)
<1> DEFINE c == q.store.command
           x == q.extra
<1>1. c \in DOMAIN StoreCommands /\ x \in Seq(T) /\ NoneForValue(x)
  BY DEF IsStoreRequest, SpeaksStore, Speaks
<1>2. CASE c # "remote"
  <2> DEFINE words == StoreWords(q.store)
             entry == StoreCommands[c]
             reading == c \in Reading
             verdict == LeafVerdict(entry, words \o x, catalog)
  <2>1. Closed(words, T) /\ ToSet(words) \cap Triggers = {}
    BY <1>2, StoreWordsAre
  <2>2. IsStoreLeaf(entry, reading) /\ reading \in BOOLEAN
    BY <1>1, <1>2, StoreLeavesAre
  <2>3. StoreVerdict(q, catalog) = verdict
    BY <1>2 DEF StoreVerdict
  <2>4. OnlyLists(q.store) <=> reading
    BY <1>2 DEF OnlyLists
  <2>5. verdict # Rejected
    BY <2>3
  <2> HIDE DEF words, entry, reading, x
  <2>6. verdict = "read_only" <=> AsksVersion(x) \/ reading
    BY <1>1, <2>1, <2>2, <2>5, StoreRegion
  <2> QED
    BY <2>3, <2>4, <2>6 DEF x
<1>3. CASE c = "remote"
  <2> DEFINE action == q.store.action
             words == Needed(q.store)
             entry == Remotes[action]
             reading == action = "ls"
             verdict == LeafVerdict(entry, words \o x, catalog)
  <2>1. AreWords(words, T)
    BY NeededAreWords
  <2> HIDE DEF words
  <2>2. Closed(words, T) /\ ToSet(words) \cap Triggers = {}
    <3>1. Closed(words, T)
      BY <2>1, WordsAreClosed DEF AreWords
    <3> QED
      BY <2>1, <3>1, OptionsAre DEF AreWords, ToSet
  <2>3. action \in DOMAIN Remotes /\ StoreVerdict(q, catalog) = verdict
    BY <1>3 DEF StoreVerdict, RemoteVerdict, words
  <2>4. IsStoreLeaf(entry, reading) /\ reading \in BOOLEAN
    BY <2>3, StoreLeavesAre
  <2>5. OnlyLists(q.store) <=> reading
    BY <1>3 DEF OnlyLists, Reading
  <2>6. verdict # Rejected
    BY <2>3
  <2> HIDE DEF entry, reading, x
  <2>7. verdict = "read_only" <=> AsksVersion(x) \/ reading
    BY <1>1, <2>2, <2>4, <2>6, StoreRegion
  <2> QED
    BY <2>3, <2>5, <2>7 DEF x
<1> QED
  BY <1>2, <1>3

\* A path to push stands where the command expects it.
PushesTo(line, path) == \E n \in DOMAIN line : line[n] = "push" /\ line[n + 2] = path

TakesAt(line, n, c, path) == n \in DOMAIN line /\ line[n] = c /\ line[n + 2] = path

\* The place of the second of two words.
LEMMA PathIsSecond ==
  ASSUME NEW T, NEW h \in Seq(T), NEW c \in T, NEW x \in T, NEW path \in T, NEW t \in Seq(T)
  PROVE  TakesAt(h \o (<<c>> \o ((<<x>> \o <<path>>) \o t)), Len(h) + 1, c, path)
<1> DEFINE one == <<c>>
           two == <<x>> \o <<path>>
           rest == two \o t
           after == one \o rest
           line == h \o after
<1>1. one \in Seq(T) /\ Len(one) = 1 /\ one[1] = c
  OBVIOUS
<1>2. two \in Seq(T) /\ Len(two) = 2 /\ two[2] = path
  OBVIOUS
<1> HIDE DEF one, two
<1>3. IsConcat(rest, two, t, T)
  BY <1>2, ConcatIs
<1> HIDE DEF rest
<1>4. rest \in Seq(T) /\ Len(rest) = 2 + Len(t) /\ Len(t) \in Nat /\ rest[2] = path
  BY <1>2, <1>3 DEF IsConcat
<1>5. IsConcat(after, one, rest, T)
  BY <1>1, <1>4, ConcatIs
<1> HIDE DEF after
<1>6. after \in Seq(T) /\ Len(after) = 1 + Len(rest) /\ after[1] = c /\ after[3] = path
  <2>1. after[1 + 2] = rest[2] /\ after[1] = one[1]
    BY <1>1, <1>4, <1>5 DEF IsConcat
  <2>2. 1 + 2 = 3
    OBVIOUS
  <2> QED
    BY <1>1, <1>4, <1>5, <2>1, <2>2 DEF IsConcat
<1>7. IsConcat(line, h, after, T)
  BY <1>6, ConcatIs
<1> HIDE DEF line
<1>8. /\ Len(h) \in Nat /\ DOMAIN line = 1..(Len(h) + Len(after))
      /\ line[Len(h) + 1] = after[1] /\ line[Len(h) + 3] = after[3]
  BY <1>4, <1>6, <1>7 DEF IsConcat
<1>9. (Len(h) + 1) + 2 = Len(h) + 3 /\ Len(h) + 1 \in 1..(Len(h) + Len(after))
  BY <1>4, <1>6, <1>8
<1> QED
  BY <1>6, <1>8, <1>9 DEF TakesAt, line, after, rest, one, two

\* Lists of tokens are closed under appending.
LEMMA StillLists ==
  ASSUME NEW T
  PROVE  /\ \A x \in T : <<x>> \in Seq(T)
         /\ \A s, t \in Seq(T) : s \o t \in Seq(T)
OBVIOUS

\* A path to push is the second word, after the name of a remote that is given or not.
LEMMA PathIsHeld ==
  ASSUME NEW q, NEW T, SpeaksStore(T, q), Names(q), IsStoreRequest(q.store),
         q.store.command = "push", q.store.path # ""
  PROVE  PushesTo(StoreLine(q), q.store.path)
<1> DEFINE path == q.store.path
           x == IF q.store.remote = "" THEN "staging" ELSE q.store.remote
           c == "push"
           t == q.extra
           two == <<x>> \o <<path>>
           h == (<<"llmdbenchmark">> \o Before(q)) \o <<"results">>
           line == h \o (<<c>> \o (two \o t))
<1>1. StoreWords(q.store) = two
  BY DEF StoreWords, Named, On
<1>2. path \in T /\ x \in T /\ c \in T /\ t \in Seq(T)
  BY StoreNames DEF SpeaksStore, Speaks
<1>a. (\A y \in T : <<y>> \in Seq(T)) /\ (\A s, u \in Seq(T) : s \o u \in Seq(T))
  BY StillLists
<1>3. h \in Seq(T)
  <2>1. Before(q) \in Seq(T)
    BY BeforeIs DEF SpeaksStore, Composed
  <2>2. "llmdbenchmark" \in T /\ "results" \in T
    BY DEF SpeaksStore, Speaks
  <2> QED
    BY <1>a, <2>1, <2>2, Zenon
<1>4. StoreLine(q) = line
  <2> DEFINE rest == two \o t
  <2>1. rest \in Seq(T)
    <3> HIDE DEF x, path, t
    <3>1. two \in Seq(T)
      BY <1>2, <1>a
    <3> HIDE DEF two
    <3> QED
      BY <1>2, <1>a, <3>1
  <2> HIDE DEF rest, c
  <2>2. Parts3(<<>>, c, rest) = <<c>> \o rest
    BY <1>2, <2>1, NothingParts
  <2>3. StoreAfter(q) = Parts3(<<>>, c, rest)
    BY <1>1 DEF StoreAfter, c, rest
  <2> QED
    BY <2>2, <2>3 DEF StoreLine, CommandLine, rest
<1> HIDE DEF h, x, path, t, c
<1>5. TakesAt(line, Len(h) + 1, c, path)
  BY <1>2, <1>3, PathIsSecond
<1> HIDE DEF line
<1> QED
  BY <1>4, <1>5 DEF TakesAt, PushesTo, c, path

\* The store's commands.
LEMMA StoreGate ==
  ASSUME NEW q, q.sub = "results", NEW T, SpeaksStore(T, q), Names(q), IsStoreRequest(q.store), NoneForValue(q.extra),
         NEW catalog
  PROVE  GateMatchesEffect(q, catalog)
<1> DEFINE argv == StoreLine(q)
           mode == IfFits(Before(q), StoreVerdict(q, catalog), catalog)
           effects == {Effect(q.sub, argv[n]) : n \in DOMAIN argv}
           after == StoreAfter(q)
           b == Before(q)
           n == "-n"
           e == "llmdbenchmark"
           r == "results"
<1>0. Speaks(T, q)
  BY DEF SpeaksStore
<1>1. BuildArgv(q) \subseteq {argv}
  BY StoreComposed
<1>2. HasShape(argv, b, r, after, n)
  <2>1. b \in Seq(T) /\ e \in T /\ r \in T /\ n \in T
    BY <1>0, BeforeIs DEF Composed, SpeaksStore, Speaks, Options, Triggers
  <2>2. after \in Seq(T)
    <3> DEFINE c == q.store.command
               rest == StoreWords(q.store) \o q.extra
    <3>1. c \in T /\ rest \in Seq(T)
      BY StoreWordsSeq DEF SpeaksStore, Speaks
    <3> HIDE DEF c, rest
    <3>2. Parts3(<<>>, c, rest) \in Seq(T)
      BY <3>1, PartsAfterNothing
    <3> QED
      BY <3>2 DEF StoreAfter, c, rest
  <2> HIDE DEF b, e, r, n, after
  <2>3. HasShape(CommandLine(e, b, r, after), b, r, after, n)
    BY <2>1, <2>2, LineShapes
  <2> QED
    BY <2>3 DEF StoreLine, b, e, r, after
<1>3. Opening(b, T) /\ Opening(<<n>> \o b, T) /\ \A v, k : IfFits(<<n>> \o b, v, k) = IfFits(b, v, k)
  BY <1>0, OpeningIs
<1>4. Validate(argv, catalog) = mode
  BY <1>2, <1>3, StoreIsJudged DEF HasShape
<1>5. Validate(InsertAt(argv, 2, n), catalog) = mode
  <2> DEFINE other == InsertAt(argv, 2, n)
             front == <<n>> \o b
  <2>1. Tail(other) = Parts3(front, "results", StoreAfter(q))
    BY <1>2 DEF HasShape
  <2>2. Opening(front, T)
    BY <1>3
  <2> HIDE DEF other, front, argv
  <2>3. Validate(other, catalog) = IfFits(front, StoreVerdict(q, catalog), catalog)
    BY <2>1, <2>2, StoreIsJudged
  <2> QED
    BY <1>3, <2>3 DEF other, front, b
<1>6. \A token : EffectCases("results", token)
  BY EffectIs
<1>7. "deep" \notin effects
  BY <1>6 DEF EffectCases
<1>8. effects \cap Harmless # {} <=> AsksVersion(argv)
  <2>1. \A token : Effect(q.sub, token) \in Harmless <=> token = "--version"
    BY <1>6 DEF EffectCases
  <2> HIDE DEF argv
  <2> QED
    BY <2>1 DEF AsksVersion, ToSet
<1>9. AsksVersion(argv) <=> AsksVersion(q.extra)
  <2>1. AsksVersion(argv) => AsksVersion(q.extra)
    BY StoreTokens DEF AsksVersion
  <2>2. ToSet(q.extra) \subseteq ToSet(argv)
    BY StoreTokens
  <2> QED
    BY <2>1, <2>2 DEF AsksVersion
<1>10. mode # Rejected => (mode = "read_only" <=> effects \cap Harmless # {} \/ OnlyLists(q.store))
  <2>1. ASSUME mode # Rejected PROVE mode = "read_only" <=> AsksVersion(q.extra) \/ OnlyLists(q.store)
    <3>1. mode = StoreVerdict(q, catalog)
      BY <2>1 DEF IfFits
    <3> QED
      BY <2>1, <3>1, StoreModes
  <2> QED
    BY <1>8, <1>9, <2>1
<1>11. q.store.command = "push" /\ q.store.path # "" => PushesTo(argv, q.store.path)
  BY PathIsHeld
<1> HIDE DEF argv, mode
<1>12. Judged(q, catalog, argv)
  BY <1>4, <1>5, <1>7, <1>10, <1>11 DEF Judged, effects, PushesTo, OnlyLists, Reading
<1> QED
  BY <1>1, <1>12 DEF GateMatchesEffect

\* Every request.
LEMMA GateIsTrue ==
  ASSUME NEW q, IsRequest(q), NEW catalog, IsCatalog(catalog)
  PROVE  GateMatchesEffect(q, catalog)
<1> DEFINE store == q.store
           spoken == Options \cup Literals \cup {"llmdbenchmark", q.sub, q.spec, q.harness, q.workload} \cup Range(q.extra)
           stored == {"results", "staging", store.command, store.action, store.name, store.uri, store.remote, store.uid,
                      store.path} \cup Range(store.paths)
           T == spoken \cup stored
<1>1. q.extra \in Seq(Range(q.extra)) /\ Range(q.extra) \subseteq T /\ NoneForValue(q.extra)
  BY DEF IsRequest
<1>2. q.extra \in Seq(T)
  <2> HIDE DEF T
  <2> QED
    BY <1>1
<1>3. Speaks(T, q)
  BY <1>2 DEF Speaks
<1>4. Names(q)
  BY DEF IsRequest, Names
<1>5. CASE q.sub = "results"
  <2>1. IsStoreRequest(q.store)
    BY <1>5 DEF IsRequest
  <2>2. SpeaksStore(T, q)
    <3>1. stored \subseteq T
      OBVIOUS
    <3> HIDE DEF T
    <3> QED
      BY <1>3, <3>1 DEF SpeaksStore
  <2> HIDE DEF T
  <2> QED
    BY <1>1, <1>4, <1>5, <2>1, <2>2, StoreGate
<1>6. CASE q.sub # "results"
  <2>1. q.sub \in Lines
    BY <1>6, GroupsAreNamed DEF IsRequest
  <2> HIDE DEF T
  <2> QED
    BY <1>1, <1>3, <1>4, <2>1, LineGate
<1> QED
  BY <1>5, <1>6

\* A command runs without an approval exactly if it changes nothing, whichever options a
\* request gives or passes through, on whichever subcommand.
THEOREM ApprovalIsTrue == VerdictSpec => []ApprovalMatchesEffect
<1>1. Told => ApprovalMatchesEffect
  <2>1. ASSUME Told, Answered("command") PROVE GateMatchesEffect(question.request, question.catalog)
    <3>1. question \in Asked("command")
      BY <2>1 DEF Told, Asked, Answered
    <3>2. IsRequest(question.request) /\ IsCatalog(question.catalog)
      BY <3>1, QuestionsAssumption
    <3> QED
      BY <3>2, GateIsTrue
  <2> QED
    BY <2>1 DEF ApprovalMatchesEffect
<1> HIDE DEF Told, ApprovalMatchesEffect
<1> QED
  BY <1>1, ToldAlways, PTL
=============================================================================
