----------------------------- MODULE GrammarProofs -----------------------------
(***************************************************************************)
(* That rahunasd reads a configuration file as its grammar says, for any   *)
(* file, characters and size of the buffer.                                *)
(***************************************************************************)
EXTENDS Grammar, ConfigFileProofs

(* Functions with recursive definitions: h gives a value from the values   *)
(* of smaller arguments only.                                              *)
Same(f, g, S) == \A y \in S : f[y] = g[y]
Below(D, m, n) == {y \in D : m[y] < n}
UsesSmaller(D, V, m, h) ==
    \A x \in D, f, g \in [D -> V] :
        Same(f, g, Below(D, m, m[x])) => h[<<x, f>>] = h[<<x, g>>]
Solution(D, h, f) == \A x \in D : f[x] = h[<<x, f>>]

LEMMA SolutionExists ==
    ASSUME NEW D, NEW V, V # {}, NEW m \in [D -> Nat],
           NEW h \in [D \X [D -> V] -> V], UsesSmaller(D, V, m, h)
    PROVE  \E f \in [D -> V] : Solution(D, h, f)
<1> DEFINE Solves1(g, n) == \A x \in D : m[x] < n => g[x] = h[<<x, g>>]
           P(g, n) == g \in [D -> V] /\ Solves1(g, n)
<1>1. ASSUME NEW x \in D, NEW f \in [D -> V], NEW g \in [D -> V],
             \A y \in D : m[y] < m[x] => f[y] = g[y]
      PROVE  h[<<x, f>>] = h[<<x, g>>]
  BY <1>1 DEF UsesSmaller, Same, Below
<1>2. ASSUME NEW n1 \in Nat, NEW n2 \in Nat, NEW f, NEW g, P(f, n1), P(g, n2)
      PROVE  \A x \in D : m[x] < n1 /\ m[x] < n2 => f[x] = g[x]
  <2> DEFINE Bad == {k \in Nat : \E x \in D : /\ m[x] = k /\ k < n1 /\ k < n2
                                              /\ f[x] # g[x]}
  <2>1. SUFFICES ASSUME Bad # {} PROVE FALSE
    <3>1. ASSUME NEW x \in D, m[x] < n1, m[x] < n2, f[x] # g[x]
          PROVE  m[x] \in Bad
      BY <3>1
    <3>2. QED
      BY <3>1
  <2>2. PICK k \in Bad : \A j \in Bad : k <= j
    BY <2>1, MinExists
  <2>3. PICK x \in D : m[x] = k /\ k < n1 /\ k < n2 /\ f[x] # g[x]
    BY <2>2
  <2>4. ASSUME NEW y \in D, m[y] < m[x]
        PROVE  f[y] = g[y]
    <3>1. m[y] \in Nat /\ k \in Nat /\ ~(k <= m[y])
      BY <2>3, <2>4
    <3>2. m[y] \notin Bad
      BY <2>2, <3>1
    <3>3. m[y] < n1 /\ m[y] < n2
      BY <2>3, <2>4, <3>1
    <3>4. QED
      BY <3>1, <3>2, <3>3
  <2>5. h[<<x, f>>] = h[<<x, g>>]
    BY <1>1, <1>2, <2>4
  <2>6. f[x] = h[<<x, f>>] /\ g[x] = h[<<x, g>>]
    BY <1>2, <2>3
  <2>7. QED
    BY <2>3, <2>5, <2>6
<1>3. \A n \in Nat : \E g : P(g, n)
  <2> DEFINE Bad == {n \in Nat : ~\E g : P(g, n)}
  <2>1. SUFFICES ASSUME Bad # {} PROVE FALSE
    OBVIOUS
  <2>2. PICK n \in Bad : \A j \in Bad : n <= j
    BY <2>1, MinExists
  <2>3. n \in Nat /\ ~\E g : P(g, n)
    BY <2>2
  <2>4. CASE n = 0
    <3>1. PICK v \in V : TRUE
      OBVIOUS
    <3>2. P([x \in D |-> v], n)
      BY <2>4, <3>1
    <3>3. QED
      BY <2>3, <3>2
  <2>5. CASE n # 0
    <3>1. PICK k \in Nat : k = n - 1
      BY <2>3, <2>5
    <3>2. k \notin Bad
      <4> HIDE DEF Bad
      <4>1. ~(n <= k)
        BY <2>3, <3>1
      <4>2. QED
        BY <2>2, <4>1
    <3>3. PICK g : P(g, k)
      BY <3>2
    <3> DEFINE e == [x \in D |-> IF m[x] < k THEN g[x] ELSE h[<<x, g>>]]
    <3>4. e \in [D -> V]
      BY <3>3
    <3>5. \A x \in D : m[x] < k => e[x] = g[x]
      OBVIOUS
    <3>6. \A x \in D : ~(m[x] < k) => e[x] = h[<<x, g>>]
      OBVIOUS
    <3> HIDE DEF e
    <3>7. ASSUME NEW x \in D, m[x] < n
          PROVE  e[x] = h[<<x, e>>]
      <4>1. \A y \in D : m[y] < m[x] => m[y] < k
        BY <3>1, <3>7, <2>3
      <4>2. \A y \in D : m[y] < m[x] => e[y] = g[y]
        BY <4>1, <3>5
      <4>3. h[<<x, e>>] = h[<<x, g>>]
        BY <1>1, <3>3, <3>4, <4>2
      <4>4. g[x] = h[<<x, g>>] \/ ~(m[x] < k)
        BY <3>3
      <4>5. QED
        BY <3>5, <3>6, <4>3, <4>4
    <3>8. P(e, n)
      BY <3>4, <3>7
    <3>9. QED
      BY <2>3, <3>8
  <2>6. QED
    BY <2>4, <2>5
<1> DEFINE G(n) == CHOOSE g : P(g, n)
           F == [x \in D |-> G(m[x] + 1)[x]]
<1>4. \A n \in Nat : P(G(n), n)
  BY <1>3
<1> HIDE DEF G
<1>5. F \in [D -> V]
  BY <1>4
<1>6. ASSUME NEW x \in D
      PROVE  F[x] = h[<<x, F>>]
  <2>1. PICK n \in Nat : n = m[x] + 1
    OBVIOUS
  <2>2. P(G(n), n)
    BY <1>4
  <2>3. G(n)[x] = h[<<x, G(n)>>]
    <3>1. m[x] \in Nat
      OBVIOUS
    <3>2. m[x] < n
      BY <2>1, <3>1
    <3>3. PICK g : g = G(n)
      OBVIOUS
    <3>4. Solves1(g, n)
      BY <2>2, <3>3, Zenon
    <3>5. g[x] = h[<<x, g>>]
      BY <3>2, <3>4, Zenon
    <3>6. QED
      BY <3>3, <3>5, Zenon
  <2>4. ASSUME NEW y \in D, m[y] < m[x]
        PROVE  F[y] = G(n)[y]
    <3>1. PICK j \in Nat : j = m[y] + 1
      OBVIOUS
    <3>2. P(G(j), j) /\ m[y] < j /\ m[y] < n
      <4>1. m[y] \in Nat /\ m[x] \in Nat
        OBVIOUS
      <4>2. m[y] < j /\ m[y] < n
        BY <4>1, <2>1, <2>4, <3>1
      <4> HIDE DEF P
      <4>3. QED
        BY <1>4, <4>2
    <3>3. F[y] = G(j)[y]
      BY <3>1
    <3> HIDE DEF P
    <3>4. \A z \in D : m[z] < j /\ m[z] < n => G(j)[z] = G(n)[z]
      BY <1>2, <2>2, <3>2
    <3>5. QED
      BY <3>2, <3>3, <3>4
  <2>5. F[x] = G(n)[x]
    BY <2>1
  <2>6. h[<<x, F>>] = h[<<x, G(n)>>]
    <3> HIDE DEF F
    <3>1. QED
      BY <1>1, <1>5, <2>2, <2>4
  <2>7. QED
    BY <2>3, <2>5, <2>6
<1>7. QED
  BY <1>5, <1>6 DEF Solution

(* Induction over a measure.                                               *)
Inductive(D, m, S) == \A x \in D : Below(D, m, m[x]) \subseteq S => x \in S

LEMMA MeasureInduction ==
    ASSUME NEW D, NEW m \in [D -> Nat], NEW S, Inductive(D, m, S)
    PROVE  \A x \in D : x \in S
<1> DEFINE Bad == {n \in Nat : \E x \in D : m[x] = n /\ x \notin S}
<1>1. SUFFICES ASSUME Bad # {} PROVE FALSE
  <2>1. ASSUME NEW x \in D, x \notin S
        PROVE  m[x] \in Bad
    BY <2>1
  <2>2. QED
    BY <2>1
<1>2. PICK n \in Bad : \A k \in Bad : n <= k
  BY <1>1, MinExists
<1>3. PICK x \in D : m[x] = n /\ x \notin S
  BY <1>2
<1>4. ASSUME NEW y \in Below(D, m, m[x])
      PROVE  y \in S
  <2>1. y \in D /\ m[y] \in Nat /\ ~(n <= m[y])
    BY <1>3 DEF Below
  <2>2. QED
    BY <1>2, <2>1
<1>5. QED
  BY <1>3, <1>4 DEF Inductive

-----------------------------------------------------------------------------
(* The functions of the grammar are what their definitions say.            *)

Size(x) == IF x[2] > x[3] THEN 0
           ELSE 2 * (x[3] - x[2] + 1) + (IF x[1] = "value" THEN 0 ELSE 1)
Sizes(t) == [x \in Spans(t) |-> Size(x)]

LEMMA SizesNat == ASSUME NEW t, Len(t) \in Nat PROVE Sizes(t) \in [Spans(t) -> Nat]
<1>1. \A x \in Spans(t) : x[2] \in Nat /\ x[3] \in Nat
  BY DEF Spans
<1>2. \A x \in Spans(t) : Size(x) \in Nat
  BY <1>1 DEF Size
<1>3. QED
  BY <1>2 DEF Sizes

(* The spans a rule looks at are smaller than its own.                     *)
LEMMA SmallerSpans ==
    ASSUME NEW t, Len(t) \in Nat, NEW i \in 1 .. Len(t), NEW j \in i .. Len(t),
           NEW kind \in {"settings", "items", "value"}
    PROVE  LET small == Below(Spans(t), Sizes(t), Size(<<kind, i, j>>)) IN
           /\ <<kind, i, j>> \in Spans(t)
           /\ kind # "value" =>
                /\ \A k \in i .. j : <<"value", i, k>> \in small
                /\ \A k \in i + 2 .. j : <<"value", i + 2, k>> \in small
                /\ \A k \in i .. j : /\ <<"settings", k + 1, j>> \in small
                                     /\ <<"items", k + 1, j>> \in small
           /\ i < j => /\ <<"settings", i + 1, j - 1>> \in small
                       /\ <<"items", i + 1, j - 1>> \in small
<1> DEFINE n == Size(<<kind, i, j>>)
<1>1. n = 2 * (j - i + 1) + (IF kind = "value" THEN 0 ELSE 1)
  BY DEF Size
<1>2. ASSUME NEW k2 \in {"settings", "items", "value"}, NEW a \in 1 .. Len(t) + 1,
             NEW b \in 0 .. Len(t), Size(<<k2, a, b>>) < n
      PROVE  <<k2, a, b>> \in Below(Spans(t), Sizes(t), n)
  BY <1>2 DEF Below, Spans, Sizes
<1> HIDE DEF n
<1>3. ASSUME NEW k \in i .. j, kind # "value"
      PROVE  <<"value", i, k>> \in Below(Spans(t), Sizes(t), n)
  <2>1. Size(<<"value", i, k>>) = 2 * (k - i + 1)
    BY DEF Size
  <2>2. k \in 0 .. Len(t) /\ 2 * (k - i + 1) < n /\ i \in 1 .. Len(t) + 1
    BY <1>1, <1>3
  <2>3. QED
    BY <1>2, <2>1, <2>2
<1>4. ASSUME NEW k \in i + 2 .. j, kind # "value"
      PROVE  <<"value", i + 2, k>> \in Below(Spans(t), Sizes(t), n)
  <2>1. Size(<<"value", i + 2, k>>) = 2 * (k - (i + 2) + 1)
    BY DEF Size
  <2>2. k \in 0 .. Len(t) /\ 2 * (k - (i + 2) + 1) < n /\ i + 2 \in 1 .. Len(t) + 1
    BY <1>1, <1>4
  <2>3. QED
    BY <1>2, <2>1, <2>2
<1>5. ASSUME NEW k \in i .. j, kind # "value", NEW k2 \in {"settings", "items"}
      PROVE  <<k2, k + 1, j>> \in Below(Spans(t), Sizes(t), n)
  <2>1. Size(<<k2, k + 1, j>>) = IF k + 1 > j THEN 0 ELSE 2 * (j - (k + 1) + 1) + 1
    BY DEF Size
  <2>2. j \in 0 .. Len(t) /\ 2 * (j - (k + 1) + 1) + 1 < n /\ 0 < n
        /\ k + 1 \in 1 .. Len(t) + 1
    BY <1>1, <1>5
  <2>3. QED
    BY <1>2, <2>1, <2>2
<1>6. ASSUME NEW k2 \in {"settings", "items"}, i < j
      PROVE  <<k2, i + 1, j - 1>> \in Below(Spans(t), Sizes(t), n)
  <2>1. Size(<<k2, i + 1, j - 1>>) =
            IF i + 1 > j - 1 THEN 0 ELSE 2 * (j - 1 - (i + 1) + 1) + 1
    BY DEF Size
  <2>2. j - 1 \in 0 .. Len(t) /\ 2 * (j - 1 - (i + 1) + 1) + 1 < n /\ 0 < n
        /\ i + 1 \in 1 .. Len(t) + 1
    BY <1>1, <1>6
  <2>3. QED
    BY <1>2, <2>1, <2>2
<1>7. <<kind, i, j>> \in Spans(t)
  BY DEF Spans
<1>8. QED
  BY <1>3, <1>4, <1>5, <1>6, <1>7 DEF n

LEMMA SameRule ==
    ASSUME NEW t, Len(t) \in Nat, NEW x \in Spans(t), NEW f, NEW g,
           Same(f, g, Below(Spans(t), Sizes(t), Sizes(t)[x]))
    PROVE  Rule(t, f, x[1], x[2], x[3]) = Rule(t, g, x[1], x[2], x[3])
<1>1. PICK kind \in {"settings", "items", "value"}, i \in 1 .. Len(t) + 1,
           j \in 0 .. Len(t) : x = <<kind, i, j>>
  BY DEF Spans
<1>2. CASE i > j
  <2>1. ~(i < j) /\ ~(i = j)
    BY <1>2
  <2>2. SettingsRule(t, f, i, j) = SettingsRule(t, g, i, j)
    BY <1>2 DEF SettingsRule
  <2>3. ItemsRule(t, f, i, j) = ItemsRule(t, g, i, j)
    BY <1>2 DEF ItemsRule
  <2>4. ValueRule(t, f, i, j) = ValueRule(t, g, i, j)
    BY <2>1 DEF ValueRule
  <2>5. QED
    BY <1>1, <2>2, <2>3, <2>4 DEF Rule
<1>3. CASE i <= j
  <2>1. i \in 1 .. Len(t) /\ j \in i .. Len(t) /\ Sizes(t)[x] = Size(<<kind, i, j>>)
    BY <1>1, <1>3 DEF Sizes
  <2> DEFINE small == Below(Spans(t), Sizes(t), Size(<<kind, i, j>>))
  <2>2. \A y \in small : f[y] = g[y]
    BY <2>1 DEF Same
  <2>3. /\ kind # "value" =>
             /\ \A k \in i .. j : <<"value", i, k>> \in small
             /\ \A k \in i + 2 .. j : <<"value", i + 2, k>> \in small
             /\ \A k \in i .. j : /\ <<"settings", k + 1, j>> \in small
                                  /\ <<"items", k + 1, j>> \in small
        /\ i < j => /\ <<"settings", i + 1, j - 1>> \in small
                    /\ <<"items", i + 1, j - 1>> \in small
    BY <2>1, SmallerSpans
  <2> HIDE DEF small
  <2>4. CASE kind = "settings"
    <3>1. \A k \in i + 2 .. j : /\ f[<<"value", i + 2, k>>] = g[<<"value", i + 2, k>>]
                                /\ f[<<"settings", k + 1, j>>] = g[<<"settings", k + 1, j>>]
      <4>1. ASSUME NEW k \in i + 2 .. j
            PROVE  k \in i .. j
        BY <2>1
      <4>2. QED
        BY <4>1, <2>2, <2>3, <2>4
    <3>2. SettingsRule(t, f, i, j) = SettingsRule(t, g, i, j)
      BY <3>1 DEF SettingsRule
    <3>3. QED
      BY <1>1, <2>4, <3>2 DEF Rule
  <2>5. CASE kind = "items"
    <3>1. \A k \in i .. j : /\ f[<<"value", i, k>>] = g[<<"value", i, k>>]
                            /\ f[<<"items", k + 1, j>>] = g[<<"items", k + 1, j>>]
      BY <2>1, <2>2, <2>3, <2>5
    <3>2. f[<<"items", i + 1, j>>] = g[<<"items", i + 1, j>>]
      <4>1. i \in i .. j
        BY <2>1
      <4>2. QED
        BY <4>1, <3>1
    <3>3. ItemsRule(t, f, i, j) = ItemsRule(t, g, i, j)
      BY <3>1, <3>2 DEF ItemsRule
    <3>4. QED
      BY <1>1, <2>5, <3>3 DEF Rule
  <2>6. CASE kind = "value"
    <3>1. i < j => /\ f[<<"items", i + 1, j - 1>>] = g[<<"items", i + 1, j - 1>>]
                   /\ f[<<"settings", i + 1, j - 1>>] = g[<<"settings", i + 1, j - 1>>]
      BY <2>2, <2>3
    <3>2. ValueRule(t, f, i, j) = ValueRule(t, g, i, j)
      BY <3>1 DEF ValueRule
    <3>3. QED
      BY <1>1, <2>6, <3>2 DEF Rule
  <2>7. QED
    BY <2>4, <2>5, <2>6
<1>4. QED
  BY <1>2, <1>3

LEMMA RuleBoolean ==
    \A t, D : \A x \in Spans(t) : Rule(t, D, x[1], x[2], x[3]) \in BOOLEAN
<1>1. SUFFICES ASSUME NEW t, NEW D, NEW x \in Spans(t)
               PROVE  Rule(t, D, x[1], x[2], x[3]) \in BOOLEAN
  OBVIOUS
<1>2. PICK kind, i, j : kind \in {"settings", "items", "value"} /\ x = <<kind, i, j>>
  BY DEF Spans
<1>3. SettingsRule(t, D, i, j) \in BOOLEAN
  BY Zenon DEF SettingsRule
<1>4. ItemsRule(t, D, i, j) \in BOOLEAN
  BY Zenon DEF ItemsRule
<1>5. ValueRule(t, D, i, j) \in BOOLEAN
  BY Zenon DEF ValueRule
<1>6. QED
  BY <1>2, <1>3, <1>4, <1>5 DEF Rule

LEMMA DerivesIs ==
    ASSUME NEW t, Len(t) \in Nat
    PROVE  /\ Derives(t) \in [Spans(t) -> BOOLEAN]
           /\ \A x \in Spans(t) :
                Derives(t)[x] = Rule(t, Derives(t), x[1], x[2], x[3])
<1> DEFINE D == Spans(t)
           h == [y \in D \X [D -> BOOLEAN] |->
                    Rule(t, y[2], y[1][1], y[1][2], y[1][3])]
<1>1. \A x \in D, f \in [D -> BOOLEAN] :
        h[<<x, f>>] = Rule(t, f, x[1], x[2], x[3])
  OBVIOUS
<1>2. h \in [D \X [D -> BOOLEAN] -> BOOLEAN]
  BY RuleBoolean
<1>3. UsesSmaller(D, BOOLEAN, Sizes(t), h)
  <2> HIDE DEF h
  <2>1. QED
    BY <1>1, SameRule DEF UsesSmaller
<1>4. Sizes(t) \in [D -> Nat]
  BY SizesNat
<1> HIDE DEF h, D
<1>5. PICK f \in [D -> BOOLEAN] : Solution(D, h, f)
  BY <1>2, <1>3, <1>4, SolutionExists
<1>6. f = [x \in D |-> Rule(t, f, x[1], x[2], x[3])]
  BY <1>1, <1>5 DEF Solution
<1>7. Derives(t) = CHOOSE g : g = [x \in D |-> Rule(t, g, x[1], x[2], x[3])]
  BY DEF Derives, D
<1>8. Derives(t) = [x \in D |-> Rule(t, Derives(t), x[1], x[2], x[3])]
  BY <1>6, <1>7
<1>9. \A x \in D : Derives(t)[x] \in BOOLEAN
  <2>1. \A x \in D : Derives(t)[x] = Rule(t, Derives(t), x[1], x[2], x[3])
    BY <1>8
  <2>2. QED
    BY <2>1, RuleBoolean DEF D
<1>10. QED
  BY <1>8, <1>9 DEF D

LEMMA GrammarRules ==
    ASSUME NEW t, Len(t) \in Nat, NEW i \in 1 .. Len(t) + 1, NEW j \in 0 .. Len(t)
    PROVE  /\ IsSettings(t, i, j) <=> SettingsRule(t, Derives(t), i, j)
           /\ IsItems(t, i, j) <=> ItemsRule(t, Derives(t), i, j)
           /\ IsValue(t, i, j) <=> ValueRule(t, Derives(t), i, j)
<1>1. \A kind \in {"settings", "items", "value"} : <<kind, i, j>> \in Spans(t)
  BY DEF Spans
<1>2. \A kind \in {"settings", "items", "value"} :
        Derives(t)[<<kind, i, j>>] = Rule(t, Derives(t), kind, i, j)
  <2>1. ASSUME NEW kind \in {"settings", "items", "value"}
        PROVE  Derives(t)[<<kind, i, j>>] = Rule(t, Derives(t), kind, i, j)
    <3>1. PICK x \in Spans(t) : x = <<kind, i, j>>
      BY <1>1
    <3>2. x[1] = kind /\ x[2] = i /\ x[3] = j
      BY <3>1
    <3>3. Derives(t)[x] = Rule(t, Derives(t), x[1], x[2], x[3])
      BY DerivesIs
    <3>4. QED
      BY <3>1, <3>2, <3>3
  <2>2. QED
    BY <2>1
<1>3. \A kind \in {"settings", "items", "value"} : Derives(t)[<<kind, i, j>>] \in BOOLEAN
  BY <1>1, DerivesIs
<1>4. Derives(t)[<<"settings", i, j>>] = SettingsRule(t, Derives(t), i, j)
  BY <1>2 DEF Rule
<1>5. Derives(t)[<<"items", i, j>>] = ItemsRule(t, Derives(t), i, j)
  BY <1>2 DEF Rule
<1>6. Derives(t)[<<"value", i, j>>] = ValueRule(t, Derives(t), i, j)
  BY <1>2 DEF Rule
<1>7. QED
  BY <1>3, <1>4, <1>5, <1>6 DEF IsSettings, IsItems, IsValue

-----------------------------------------------------------------------------
(* What the parser still expects.  Of an element in state s the tokens i   *)
(* to k are left; of a list or a map its last token closes it.             *)
Inside(s, k) == IF s \in {"in_map", "in_list"} THEN k - 1 ELSE k

Remains(t, s, i, k) ==
    \/ s = "top_level" /\ k = Len(t) /\ i <= k + 1 /\ IsSettings(t, i, k)
    \/ s = "exp_equals" /\ i < k /\ t[i].type = "=" /\ IsValue(t, i + 1, k)
    \/ s = "exp_value" /\ i <= k /\ IsValue(t, i, k)
    \/ s = "in_map" /\ i <= k /\ t[k].type = "}" /\ IsSettings(t, i, k - 1)
    \/ s = "in_list" /\ i <= k /\ t[k].type = "]" /\ IsItems(t, i, k - 1)

(* A value begins with its own token, and does not end before.             *)
LEMMA ValueBegins ==
    ASSUME NEW t, Len(t) \in Nat, NEW i \in 1 .. Len(t) + 1, NEW k \in 0 .. Len(t),
           IsValue(t, i, k)
    PROVE  i <= k /\ t[i].type \in {"T_STRING", "[", "{"}
<1>1. ValueRule(t, Derives(t), i, k)
  BY GrammarRules
<1>2. i = k \/ i < k
  BY <1>1, Zenon DEF ValueRule
<1>3. t[i].type \in {"T_STRING", "[", "{"}
  BY <1>1, Zenon DEF ValueRule
<1>4. i <= k
  BY <1>2
<1>5. QED
  BY <1>3, <1>4

(* The element that NamesSetting and ListsMore add ends here.              *)
Opened(t, i, s, k) ==
    IF s = "in_list" THEN EndOf(t, "items", i, k - 1)
    ELSE EndOf(t, "settings", i + 2, Inside(s, k))

OpensAt(t, i, s, e) ==
    /\ \A k \in 0 .. Len(t) : Remains(t, s, i, k) =>
         LET m == Opened(t, i, s, k) IN
         m \in 0 .. Len(t) /\ Remains(t, e, i + 1, m) /\ Remains(t, s, m + 1, k)
    /\ \A k, m \in 0 .. Len(t) :
         Remains(t, e, i + 1, m) /\ Remains(t, s, m + 1, k) => Remains(t, s, i, k)

(* The settings that remain end before the closing token of a map.         *)
LEMMA InsideRemains ==
    ASSUME NEW t, Len(t) \in Nat, NEW k \in 0 .. Len(t), NEW a \in Nat,
           NEW s \in {"top_level", "in_map"}
    PROVE  LET j == Inside(s, k) IN
           Remains(t, s, a, k) <=> /\ a <= j + 1 /\ IsSettings(t, a, j)
                                   /\ s = "top_level" => k = Len(t)
                                   /\ s = "in_map" => t[k].type = "}"
<1> DEFINE j == Inside(s, k)
<1>1. /\ s = "top_level" => j = k
      /\ s = "in_map" => j = k - 1
  BY DEF Inside
<1>2. Remains(t, s, a, k) <=> /\ a <= j + 1 /\ IsSettings(t, a, j)
                              /\ s = "top_level" => k = Len(t)
                              /\ s = "in_map" => t[k].type = "}"
  <2>1. CASE s = "top_level"
    BY <1>1, <2>1 DEF Remains
  <2>2. CASE s = "in_map"
    <3>1. a <= k <=> a <= k - 1 + 1
      OBVIOUS
    <3>2. QED
      BY <1>1, <2>2, <3>1 DEF Remains
  <2>3. QED
    BY <2>1, <2>2
<1>3. QED
  BY <1>2

(* InMap: a name, and its value.                                           *)
LEMMA NameRemains ==
    ASSUME NEW t, Len(t) \in Nat, NEW i \in 1 .. Len(t),
           NEW s \in {"top_level", "in_map"}, t[i].type = "T_IDENTIFIER"
    PROVE  OpensAt(t, i, s, "exp_equals")
<1>1. SUFFICES ASSUME NEW k \in 0 .. Len(t)
               PROVE  /\ Remains(t, s, i, k) =>
                            LET m == EndOf(t, "settings", i + 2, Inside(s, k)) IN
                            /\ m \in 0 .. Len(t)
                            /\ Remains(t, "exp_equals", i + 1, m)
                            /\ Remains(t, s, m + 1, k)
                      /\ \A m \in 0 .. Len(t) :
                            Remains(t, "exp_equals", i + 1, m) /\ Remains(t, s, m + 1, k)
                                => Remains(t, s, i, k)
  <2>1. \A k : Opened(t, i, s, k) = EndOf(t, "settings", i + 2, Inside(s, k))
    BY DEF Opened
  <2>2. QED
    BY <2>1 DEF OpensAt
<1> DEFINE j == Inside(s, k)
<1>2. /\ s = "top_level" => j = k
      /\ s = "in_map" => j = k - 1
  BY DEF Inside
<1>3. ASSUME NEW a \in Nat
      PROVE  Remains(t, s, a, k) <=> /\ a <= j + 1 /\ IsSettings(t, a, j)
                                     /\ s = "top_level" => k = Len(t)
                                     /\ s = "in_map" => t[k].type = "}"
  BY InsideRemains
<1>4. Remains(t, s, i, k) => j \in 0 .. Len(t) /\ i <= j + 1
  <2>1. i \in Nat
    OBVIOUS
  <2>2. Remains(t, s, i, k) => i <= j + 1 /\ (s = "top_level" => k = Len(t))
    BY <1>3, <2>1
  <2>3. s = "in_map" /\ i <= k - 1 + 1 => k - 1 \in 0 .. Len(t)
    OBVIOUS
  <2>4. QED
    BY <1>2, <2>2, <2>3
<1>5. i \in Nat /\ i \in 1 .. Len(t) + 1
  OBVIOUS
<1> HIDE DEF j
<1>6. t[i].type = "T_IDENTIFIER"
  OBVIOUS
<1>7. ASSUME Remains(t, s, i, k)
      PROVE  LET m == EndOf(t, "settings", i + 2, j) IN
             /\ m \in 0 .. Len(t)
             /\ Remains(t, "exp_equals", i + 1, m) /\ Remains(t, s, m + 1, k)
  <2>1. i # k \/ s = "top_level"
    BY <1>3, <1>6, <1>5, <1>7
  <2>2. i <= j
    <3>1. i <= j + 1 /\ j \in 0 .. Len(t)
      BY <1>4, <1>7
    <3>2. s = "top_level" => i <= j
      <4>1. s = "top_level" => j = Len(t)
        BY <1>2, <1>3, <1>5, <1>7
      <4>2. QED
        BY <4>1
    <3>3. s = "in_map" => i <= j
      BY <1>2, <2>1, <3>1
    <3>4. QED
      BY <3>2, <3>3
  <2>3. SettingsRule(t, Derives(t), i, j)
    BY <1>3, <1>4, <1>5, <1>7, GrammarRules
  <2>4. /\ i + 2 <= j /\ t[i + 1].type = "="
        /\ \E m \in i + 2 .. j : IsValue(t, i + 2, m) /\ IsSettings(t, m + 1, j)
    <3>1. ~(i > j)
      BY <1>4, <1>7, <2>2
    <3>2. QED
      BY <2>3, <3>1, Zenon DEF SettingsRule, IsValue, IsSettings
  <2>5. PICK m : m = EndOf(t, "settings", i + 2, j)
    OBVIOUS
  <2>6. m \in i + 2 .. j /\ IsValue(t, i + 2, m) /\ IsSettings(t, m + 1, j)
    BY <2>4, <2>5 DEF EndOf, IsSettings
  <2>7. m \in 0 .. Len(t) /\ i + 1 < m /\ i + 1 + 1 = i + 2 /\ m + 1 <= j + 1 /\ m + 1 \in Nat
    BY <1>4, <1>7, <2>4, <2>6, SMTT(20)
  <2>8. Remains(t, "exp_equals", i + 1, m)
    BY <2>4, <2>6, <2>7 DEF Remains
  <2>9. Remains(t, s, m + 1, k)
    <3>1. /\ s = "top_level" => k = Len(t)
          /\ s = "in_map" => t[k].type = "}"
      BY <1>3, <1>5, <1>7
    <3>2. QED
      BY <1>3, <2>6, <2>7, <3>1
  <2>10. QED
    BY <2>5, <2>7, <2>8, <2>9
<1>8. ASSUME NEW m \in 0 .. Len(t), Remains(t, "exp_equals", i + 1, m),
             Remains(t, s, m + 1, k)
      PROVE  Remains(t, s, i, k)
  <2>1. i + 1 < m /\ t[i + 1].type = "=" /\ IsValue(t, i + 1 + 1, m)
    BY <1>8 DEF Remains
  <2>2. i + 1 + 1 = i + 2
    OBVIOUS
  <2>3. /\ m + 1 <= j + 1 /\ IsSettings(t, m + 1, j)
    <3>1. m + 1 \in Nat
      OBVIOUS
    <3>2. QED
      BY <1>3, <1>8, <3>1
  <2>4. j \in 0 .. Len(t) /\ m \in i + 2 .. j /\ i <= j + 1 /\ i + 2 <= j
    BY <1>2, <2>1, <2>3
  <2>5. SettingsRule(t, Derives(t), i, j)
    BY <1>6, <2>1, <2>2, <2>3, <2>4 DEF SettingsRule, IsValue, IsSettings
  <2>6. IsSettings(t, i, j)
    BY <2>4, <2>5, GrammarRules
  <2>7. /\ s = "top_level" => k = Len(t)
        /\ s = "in_map" => t[k].type = "}"
    <3>1. m + 1 \in Nat
      OBVIOUS
    <3>2. QED
      BY <1>3, <1>8, <3>1
  <2>8. QED
    BY <1>3, <1>5, <2>4, <2>6, <2>7
<1>9. QED
  BY <1>7, <1>8 DEF j

(* InMap, for the other tokens.                                            *)
LEMMA SettingsRemain ==
    ASSUME NEW t, Len(t) \in Nat, NEW i \in 1 .. Len(t), NEW k \in 0 .. Len(t),
           NEW s \in {"top_level", "in_map"}, t[i].type # "T_IDENTIFIER"
    PROVE  /\ t[i].type = "}" /\ s = "in_map" => (Remains(t, s, i, k) <=> k = i)
           /\ ~(t[i].type = "}" /\ s = "in_map") => ~Remains(t, s, i, k)
<1> DEFINE j == Inside(s, k)
<1>1. /\ s = "top_level" => j = k
      /\ s = "in_map" => j = k - 1
  BY DEF Inside
<1>2. ASSUME NEW a \in Nat
      PROVE  Remains(t, s, a, k) <=> /\ a <= j + 1 /\ IsSettings(t, a, j)
                                     /\ s = "top_level" => k = Len(t)
                                     /\ s = "in_map" => t[k].type = "}"
  BY InsideRemains
<1>3. Remains(t, s, i, k) => j \in 0 .. Len(t) /\ i <= j + 1
  <2>1. i \in Nat
    OBVIOUS
  <2>2. Remains(t, s, i, k) => i <= j + 1 /\ (s = "top_level" => k = Len(t))
    BY <1>2, <2>1
  <2>3. s = "in_map" /\ i <= k - 1 + 1 => k - 1 \in 0 .. Len(t)
    OBVIOUS
  <2>4. QED
    BY <1>1, <2>2, <2>3
<1>4. i \in Nat /\ i \in 1 .. Len(t) + 1
  OBVIOUS
<1> HIDE DEF j
<1>5. t[i].type # "T_IDENTIFIER"
  OBVIOUS
<1>6. ASSUME Remains(t, s, i, k) PROVE i > j
  <2>1. IsSettings(t, i, j) /\ j \in 0 .. Len(t)
    BY <1>2, <1>3, <1>4, <1>6
  <2>2. SettingsRule(t, Derives(t), i, j)
    BY <1>4, <2>1, GrammarRules
  <2>3. QED
    BY <1>5, <2>2 DEF SettingsRule
<1>7. ASSUME Remains(t, s, i, k) PROVE s = "in_map" /\ k = i /\ t[i].type = "}"
  <2>1. i <= j + 1 /\ i > j /\ j \in 0 .. Len(t)
    BY <1>3, <1>6, <1>7
  <2>2. i = j + 1
    BY <2>1
  <2>3. s = "top_level" => k = Len(t) /\ j = k
    BY <1>1, <1>2, <1>4, <1>7
  <2>4. s = "in_map"
    BY <2>2, <2>3
  <2>5. QED
    <3>1. j = k - 1
      BY <1>1, <2>4
    <3>2. k = i
      BY <2>2, <3>1
    <3>3. t[k].type = "}"
      BY <1>2, <1>4, <1>7, <2>4
    <3>4. QED
      BY <2>4, <3>2, <3>3
<1>8. k = i /\ s = "in_map" /\ t[i].type = "}" => Remains(t, s, i, k)
  <2>1. SUFFICES ASSUME k = i, s = "in_map", t[i].type = "}"
                 PROVE  i <= j + 1 /\ IsSettings(t, i, j)
    <3>1. t[i].type = "}" /\ k = i => t[k].type = "}"
      OBVIOUS
    <3>2. QED
      BY <1>2, <1>4, <3>1
  <2>2. j \in 0 .. Len(t) /\ i > j /\ i <= j + 1
    <3>1. j = i - 1
      BY <1>1, <2>1
    <3>2. QED
      BY <3>1
  <2>3. QED
    BY <2>2, GrammarRules DEF SettingsRule
<1>9. QED
  BY <1>5, <1>7, <1>8

(* ExpEquals and ExpValue.                                                 *)
LEMMA ValueRemains ==
    ASSUME NEW t, Len(t) \in Nat, NEW i \in 1 .. Len(t), NEW k \in 0 .. Len(t)
    PROVE  /\ t[i].type = "T_STRING" => (IsValue(t, i, k) <=> k = i)
           /\ t[i].type = "[" => (IsValue(t, i, k) <=> Remains(t, "in_list", i + 1, k))
           /\ t[i].type = "{" => (IsValue(t, i, k) <=> Remains(t, "in_map", i + 1, k))
           /\ t[i].type \notin {"T_STRING", "[", "{"} => ~IsValue(t, i, k)
<1>1. IsValue(t, i, k) <=>
        \/ i = k /\ t[i].type = "T_STRING"
        \/ i < k /\ t[i].type = "[" /\ t[k].type = "]" /\ IsItems(t, i + 1, k - 1)
        \/ i < k /\ t[i].type = "{" /\ t[k].type = "}" /\ IsSettings(t, i + 1, k - 1)
  <2>1. IsValue(t, i, k) <=> ValueRule(t, Derives(t), i, k)
    BY GrammarRules
  <2>2. QED
    BY <2>1, Zenon DEF ValueRule, IsItems, IsSettings
<1>2. i < k <=> i + 1 <= k
  OBVIOUS
<1>3. Remains(t, "in_list", i + 1, k) <=>
        i + 1 <= k /\ t[k].type = "]" /\ IsItems(t, i + 1, k - 1)
  BY DEF Remains
<1>4. Remains(t, "in_map", i + 1, k) <=>
        i + 1 <= k /\ t[k].type = "}" /\ IsSettings(t, i + 1, k - 1)
  BY DEF Remains
<1>5. QED
  BY <1>1, <1>2, <1>3, <1>4

(* (The arithmetic of the provers does not take the literals of marks.)    *)
Begins(x) == x.type \in {"T_STRING", "[", "{"}

(* A value where an item may be.                                           *)
LEMMA ItemRemains ==
    ASSUME NEW t, Len(t) \in Nat, NEW i \in 1 .. Len(t), NEW k \in 0 .. Len(t),
           Begins(t[i])
    PROVE  /\ Remains(t, "in_list", i, k) =>
                LET m == EndOf(t, "items", i, k - 1) IN
                /\ i <= k - 1 /\ m \in 0 .. Len(t)
                /\ IsValue(t, i, m) /\ Remains(t, "in_list", m + 1, k)
           /\ \A m \in 0 .. Len(t) :
                IsValue(t, i, m) /\ Remains(t, "in_list", m + 1, k)
                    => Remains(t, "in_list", i, k)
<1>1. ASSUME NEW a \in Nat
      PROVE  Remains(t, "in_list", a, k) <=>
                a <= k /\ t[k].type = "]" /\ IsItems(t, a, k - 1)
  BY DEF Remains
<1>2. i \in Nat /\ i \in 1 .. Len(t) + 1
  OBVIOUS
<1>3. ASSUME Remains(t, "in_list", i, k)
      PROVE  LET m == EndOf(t, "items", i, k - 1) IN
             /\ i <= k - 1 /\ m \in 0 .. Len(t)
             /\ IsValue(t, i, m) /\ Remains(t, "in_list", m + 1, k)
  <2>1. i <= k /\ t[k].type = "]" /\ IsItems(t, i, k - 1)
    BY <1>1, <1>2, <1>3
  <2>2. i # k
    BY <2>1, Zenon DEF Begins
  <2>3. i <= k - 1 /\ k - 1 \in 0 .. Len(t) /\ ~(i > k - 1)
    BY <2>1, <2>2
  <2>4. ItemsRule(t, Derives(t), i, k - 1)
    BY <1>2, <2>1, <2>3, GrammarRules
  <2>5. \E m \in i .. k - 1 : IsValue(t, i, m) /\ Derives(t)[<<"items", m + 1, k - 1>>]
    <3>1. t[i].type # ","
      BY Zenon DEF Begins
    <3>2. QED
      BY <2>3, <2>4, <3>1, Zenon DEF ItemsRule, IsValue
  <2>6. PICK m : m = EndOf(t, "items", i, k - 1)
    OBVIOUS
  <2>7. m \in i .. k - 1 /\ IsValue(t, i, m) /\ IsItems(t, m + 1, k - 1)
    BY <2>5, <2>6 DEF EndOf, IsItems
  <2>8. m + 1 \in Nat /\ m + 1 <= k /\ m \in 0 .. Len(t)
    BY <2>3, <2>7
  <2>9. Remains(t, "in_list", m + 1, k)
    BY <1>1, <2>1, <2>7, <2>8
  <2>10. QED
    BY <2>3, <2>6, <2>7, <2>8, <2>9
<1>4. ASSUME NEW m \in 0 .. Len(t), IsValue(t, i, m), Remains(t, "in_list", m + 1, k)
      PROVE  Remains(t, "in_list", i, k)
  <2>1. m + 1 \in Nat
    OBVIOUS
  <2>2. m + 1 <= k /\ t[k].type = "]" /\ IsItems(t, m + 1, k - 1)
    BY <1>1, <1>4, <2>1
  <2>3. i <= m
    BY <1>2, <1>4, ValueBegins
  <2>4. m \in i .. k - 1 /\ k - 1 \in 0 .. Len(t) /\ i <= k
    BY <2>2, <2>3
  <2>5. ItemsRule(t, Derives(t), i, k - 1)
    BY <1>4, <2>2, <2>4, Zenon DEF ItemsRule, IsValue, IsItems
  <2>6. IsItems(t, i, k - 1)
    BY <1>2, <2>4, <2>5, GrammarRules
  <2>7. QED
    BY <1>1, <1>2, <2>2, <2>4, <2>6
<1>5. QED
  BY <1>3, <1>4

(* InList, for the tokens that begin no value.                             *)
LEMMA ListRemains ==
    ASSUME NEW t, Len(t) \in Nat, NEW i \in 1 .. Len(t), NEW k \in 0 .. Len(t),
           ~Begins(t[i])
    PROVE  /\ t[i].type = "," =>
                (Remains(t, "in_list", i, k) <=> Remains(t, "in_list", i + 1, k))
           /\ t[i].type = "]" => (Remains(t, "in_list", i, k) <=> k = i)
           /\ t[i].type \notin {",", "]"} => ~Remains(t, "in_list", i, k)
<1>1. ASSUME NEW a \in Nat
      PROVE  Remains(t, "in_list", a, k) <=>
                a <= k /\ t[k].type = "]" /\ IsItems(t, a, k - 1)
  BY DEF Remains
<1>2. i \in Nat /\ i \in 1 .. Len(t) + 1 /\ i + 1 \in Nat
  OBVIOUS
<1>3. ASSUME i <= k
      PROVE  IsItems(t, i, k - 1) <=>
                \/ i > k - 1
                \/ i <= k - 1 /\ t[i].type = "," /\ IsItems(t, i + 1, k - 1)
  <2>1. k - 1 \in 0 .. Len(t)
    BY <1>3
  <2>2. IsItems(t, i, k - 1) <=> ItemsRule(t, Derives(t), i, k - 1)
    BY <1>2, <2>1, GrammarRules
  <2>3. \A m \in i .. k - 1 : ~IsValue(t, i, m)
    <3>1. \A m \in i .. k - 1 : m \in 0 .. Len(t)
      BY <2>1
    <3>2. QED
      BY <1>2, <3>1, ValueBegins DEF Begins
  <2>4. QED
    BY <2>2, <2>3, Zenon DEF ItemsRule, IsItems, IsValue
<1>4. /\ i <= k /\ k # i => i <= k - 1 /\ i + 1 <= k /\ ~(i > k - 1)
      /\ i + 1 <= k => i <= k /\ i <= k - 1
      /\ i <= k /\ i > k - 1 => k = i
      /\ k = i => i <= k /\ i > k - 1
  OBVIOUS
<1>5. CASE t[i].type = ","
  <2>1. t[k].type = "]" => k # i
    BY <1>5
  <2>2. QED
    BY <1>1, <1>2, <1>3, <1>5, <1>4, <2>1, Zenon
<1>6. CASE t[i].type # ","
  <2>1. Remains(t, "in_list", i, k) => i <= k /\ i > k - 1 /\ t[k].type = "]"
    BY <1>1, <1>2, <1>3, <1>6, Zenon
  <2>2. i <= k /\ i > k - 1 => k = i
    BY <1>4
  <2>3. k = i /\ t[i].type = "]" => Remains(t, "in_list", i, k)
    <3>1. SUFFICES ASSUME k = i, t[i].type = "]" PROVE Remains(t, "in_list", i, k)
      OBVIOUS
    <3>2. i <= k /\ IsItems(t, i, k - 1)
      BY <1>3, <1>4, <3>1
    <3>3. t[k].type = "]"
      BY <3>1
    <3>4. QED
      BY <1>1, <1>2, <3>2, <3>3
  <2>4. QED
    BY <1>6, <2>1, <2>2, <2>3
<1>7. QED
  BY <1>5, <1>6

(* Settings, items and values end with a token the grammar knows.          *)
EndsKnown(t) == {x \in Spans(t) : Derives(t)[x] /\ x[2] <= x[3]
                                    => t[x[3]].type # "no_token"}

LEMMA KnownEnds ==
    ASSUME NEW t, Len(t) \in Nat
    PROVE  \A x \in Spans(t) : x \in EndsKnown(t)
<1>1. ASSUME NEW x \in Spans(t), Below(Spans(t), Sizes(t), Sizes(t)[x]) \subseteq EndsKnown(t)
      PROVE  x \in EndsKnown(t)
  <2>1. PICK kind \in {"settings", "items", "value"}, i \in 1 .. Len(t) + 1,
             j \in 0 .. Len(t) : x = <<kind, i, j>>
    BY DEF Spans
  <2>2. SUFFICES ASSUME Derives(t)[<<kind, i, j>>], i <= j
                 PROVE  t[j].type # "no_token"
    <3>1. x[1] = kind /\ x[2] = i /\ x[3] = j
      BY <2>1
    <3>2. QED
      BY <2>1, <3>1 DEF EndsKnown
  <2>3. /\ i \in 1 .. Len(t) /\ j \in i .. Len(t) /\ Sizes(t)[x] = Size(<<kind, i, j>>)
        /\ ~(i > j)
    BY <2>1, <2>2 DEF Sizes
  <2> DEFINE small == Below(Spans(t), Sizes(t), Size(<<kind, i, j>>))
  <2>4. ASSUME NEW k2, NEW a, NEW b, <<k2, a, b>> \in small, Derives(t)[<<k2, a, b>>], a <= b
        PROVE  t[b].type # "no_token"
    <3>1. <<k2, a, b>> \in EndsKnown(t)
      BY <1>1, <2>3, <2>4
    <3>2. QED
      BY <2>4, <3>1 DEF EndsKnown
  <2>5. /\ kind # "value" =>
             /\ \A k \in i .. j : <<"value", i, k>> \in small
             /\ \A k \in i + 2 .. j : <<"value", i + 2, k>> \in small
             /\ \A k \in i .. j : /\ <<"settings", k + 1, j>> \in small
                                  /\ <<"items", k + 1, j>> \in small
    BY <2>3, SmallerSpans
  <2> HIDE DEF small
  <2>6. ASSUME NEW a \in 1 .. Len(t), a >= i, NEW k \in a .. j,
               <<"value", a, k>> \in small, Derives(t)[<<"value", a, k>>],
               NEW k2 \in {"settings", "items"},
               <<k2, k + 1, j>> \in small, Derives(t)[<<k2, k + 1, j>>]
        PROVE  t[j].type # "no_token"
    <3>1. CASE k = j
      <4>1. a <= j
        BY <2>6
      <4>2. QED
        BY <2>4, <2>6, <3>1, <4>1
    <3>2. CASE k # j
      <4>1. k + 1 <= j
        BY <2>6, <3>2
      <4>2. QED
        BY <2>4, <2>6, <4>1
    <3>3. QED
      BY <3>1, <3>2
  <2>7. CASE kind = "settings"
    <3>1. IsSettings(t, i, j)
      BY <2>2, <2>7 DEF IsSettings
    <3>2. SettingsRule(t, Derives(t), i, j)
      BY <3>1, GrammarRules
    <3>3. PICK k \in i + 2 .. j : /\ Derives(t)[<<"value", i + 2, k>>]
                                  /\ Derives(t)[<<"settings", k + 1, j>>]
      BY <2>3, <3>2, Zenon DEF SettingsRule
    <3>4. k \in i .. j /\ i + 2 \in 1 .. Len(t) /\ i + 2 >= i /\ k \in i + 2 .. j
      BY <2>3
    <3>5. <<"value", i + 2, k>> \in small /\ <<"settings", k + 1, j>> \in small
      BY <2>5, <2>7, <3>4
    <3>6. QED
      BY <2>6, <3>3, <3>4, <3>5
  <2>8. CASE kind = "items"
    <3>1. IsItems(t, i, j)
      BY <2>2, <2>8 DEF IsItems
    <3>2. ItemsRule(t, Derives(t), i, j)
      BY <3>1, GrammarRules
    <3>3. CASE \E k \in i .. j : /\ Derives(t)[<<"value", i, k>>]
                                 /\ Derives(t)[<<"items", k + 1, j>>]
      <4>1. PICK k \in i .. j : /\ Derives(t)[<<"value", i, k>>]
                                /\ Derives(t)[<<"items", k + 1, j>>]
        BY <3>3
      <4>2. i >= i
        OBVIOUS
      <4>3. <<"value", i, k>> \in small /\ <<"items", k + 1, j>> \in small
        BY <2>5, <2>8
      <4>4. QED
        BY <2>3, <2>6, <4>1, <4>2, <4>3
    <3>4. CASE t[i].type = "," /\ Derives(t)[<<"items", i + 1, j>>]
      <4>1. CASE i = j
        BY <3>4, <4>1
      <4>2. CASE i # j
        <5>1. i + 1 <= j /\ i \in i .. j
          BY <2>3, <4>2
        <5>2. <<"items", i + 1, j>> \in small
          BY <2>5, <2>8, <5>1
        <5>3. QED
          BY <2>4, <3>4, <5>1, <5>2
      <4>3. QED
        BY <4>1, <4>2
    <3>5. QED
      BY <2>3, <3>2, <3>3, <3>4, Zenon DEF ItemsRule
  <2>9. CASE kind = "value"
    <3>1. IsValue(t, i, j)
      BY <2>2, <2>9 DEF IsValue
    <3>2. ValueRule(t, Derives(t), i, j)
      BY <3>1, GrammarRules
    <3>3. t[j].type \in {"T_STRING", "]", "}"}
      BY <3>2, Zenon DEF ValueRule
    <3>4. QED
      BY <3>3, Zenon
  <2>10. QED
    BY <2>7, <2>8, <2>9
<1>2. Inductive(Spans(t), Sizes(t), EndsKnown(t))
  BY <1>1 DEF Inductive
<1>3. QED
  BY <1>2, SizesNat, MeasureInduction

LEMMA UnknownLast ==
    ASSUME NEW t, Len(t) \in Nat \ {0}, t[Len(t)] = NoToken
    PROVE  ~WellFormed(t)
<1> DEFINE x == <<"settings", 1, Len(t)>>
<1>1. x \in Spans(t)
  BY DEF Spans
<1>2. Len(t) \in Nat /\ x \in EndsKnown(t)
  BY <1>1, KnownEnds
<1>3. 1 <= Len(t)
  OBVIOUS
<1>4. t[Len(t)].type = "no_token"
  BY DEF NoToken, Mark, Token
<1>5. QED
  BY <1>2, <1>3, <1>4 DEF EndsKnown, WellFormed, IsSettings

-----------------------------------------------------------------------------
(* What is left of the elements of a stack: the tokens from i on are the   *)
(* rest of the last of them up to its end, and so on down.                 *)
From(q, i, l) == IF l = Len(q) THEN i ELSE q[l + 1] + 1

Completes(t, st, i, q) ==
    /\ q \in Seq(0 .. Len(t)) /\ Len(q) = Len(st)
    /\ \A l \in 1 .. Len(st) : Remains(t, st[l].s, From(q, i, l), q[l])

(* The shapes of a turn of lcfg_parser_parse.                              *)
SameBelow(st, st2) ==
    /\ Len(st2) = Len(st)
    /\ \A l \in 1 .. Len(st) - 1 : st2[l].s = st[l].s

LEMMA StayCompletes ==
    ASSUME NEW t, NEW st, NEW st2, NEW q, NEW i, NEW i2,
           Len(st) \in Nat \ {0}, SameBelow(st, st2),
           LET n == Len(st) IN
           Remains(t, st[n].s, i, q[n]) => Remains(t, st2[n].s, i2, q[n]),
           Completes(t, st, i, q)
    PROVE  Completes(t, st2, i2, q)
<1>1. q \in Seq(0 .. Len(t)) /\ Len(q) = Len(st) /\ Len(st2) = Len(st)
  BY DEF Completes, SameBelow
<1>2. ASSUME NEW l \in 1 .. Len(st)
      PROVE  Remains(t, st2[l].s, From(q, i2, l), q[l])
  <2>1. Remains(t, st[l].s, From(q, i, l), q[l])
    BY DEF Completes
  <2>2. CASE l = Len(st)
    BY <1>1, <2>1, <2>2 DEF From
  <2>3. CASE l # Len(st)
    <3>1. st2[l].s = st[l].s
      <4>1. l \in 1 .. Len(st) - 1
        BY <2>3
      <4>2. QED
        BY <4>1 DEF SameBelow
    <3>2. QED
      BY <1>1, <2>1, <2>3, <3>1 DEF From
  <2>4. QED
    BY <2>2, <2>3
<1>3. QED
  BY <1>1, <1>2 DEF Completes

(* One more element at the end, and one less.                              *)
LEMMA LastRemains ==
    ASSUME NEW t, NEW st, NEW i, NEW q, Len(st) \in Nat \ {0}, Completes(t, st, i, q)
    PROVE  /\ Remains(t, st[Len(st)].s, i, q[Len(st)])
           /\ q[Len(st)] \in 0 .. Len(t)
<1>1. q \in Seq(0 .. Len(t)) /\ Len(q) = Len(st)
  BY DEF Completes
<1>2. Len(st) \in 1 .. Len(st)
  OBVIOUS
<1>3. Remains(t, st[Len(st)].s, From(q, i, Len(st)), q[Len(st)])
  BY <1>2 DEF Completes
<1>4. QED
  BY <1>1, <1>2, <1>3 DEF From

LEMMA PopCompletes ==
    ASSUME NEW t, NEW st \in Seq(Elements), NEW i, NEW q, Len(st) >= 2,
           Completes(t, st, i, q)
    PROVE  LET k == q[Len(st)] IN Completes(t, Front(st), k + 1, Front(q))
<1> DEFINE n == Len(st)
           k == q[n]
<1>1. /\ q \in Seq(0 .. Len(t)) /\ Len(q) = n /\ n \in Nat
  BY DEF Completes
<1>2. /\ Front(st) \in Seq(Elements) /\ Len(Front(st)) = n - 1
      /\ \A l \in 1 .. n - 1 : Front(st)[l] = st[l]
  BY <1>1 DEF Front
<1>3. /\ Front(q) \in Seq(0 .. Len(t)) /\ Len(Front(q)) = n - 1
      /\ \A l \in 1 .. n - 1 : Front(q)[l] = q[l]
  BY <1>1 DEF Front
<1>4. ASSUME NEW l \in 1 .. n - 1
      PROVE  Remains(t, Front(st)[l].s, From(Front(q), k + 1, l), Front(q)[l])
  <2>1. l \in 1 .. n /\ l # n
    BY <1>1
  <2>2. Remains(t, st[l].s, q[l + 1] + 1, q[l])
    BY <1>1, <2>1 DEF Completes, From
  <2>3. From(Front(q), k + 1, l) = q[l + 1] + 1
    <3>1. CASE l = n - 1
      BY <1>1, <1>3, <3>1 DEF From
    <3>2. CASE l # n - 1
      <4>1. l + 1 \in 1 .. n - 1
        BY <1>1, <3>2
      <4>2. QED
        BY <1>3, <3>2, <4>1 DEF From
    <3>3. QED
      BY <3>1, <3>2
  <2>4. QED
    BY <1>2, <1>3, <2>2, <2>3
<1>5. QED
  BY <1>1, <1>2, <1>3, <1>4 DEF Completes

LEMMA PushCompletes ==
    ASSUME NEW t, NEW st \in Seq(Elements), NEW e \in Elements, NEW i, NEW q,
           NEW m \in 0 .. Len(t), Len(st) >= 1,
           Completes(t, st, m + 1, q), Remains(t, e.s, i, m)
    PROVE  Completes(t, Append(st, e), i, Append(q, m))
<1> DEFINE n == Len(st)
           sm == Append(st, e)
           qm == Append(q, m)
<1>1. q \in Seq(0 .. Len(t)) /\ Len(q) = n /\ n \in Nat
  BY DEF Completes
<1>2. /\ Len(sm) = n + 1 /\ sm[n + 1] = e
      /\ \A l \in 1 .. n : sm[l] = st[l]
  OBVIOUS
<1>3. /\ qm \in Seq(0 .. Len(t)) /\ Len(qm) = n + 1 /\ qm[n + 1] = m
      /\ \A l \in 1 .. n : qm[l] = q[l]
  BY <1>1
<1> HIDE DEF sm, qm
<1>4. ASSUME NEW l \in 1 .. n + 1
      PROVE  Remains(t, sm[l].s, From(qm, i, l), qm[l])
  <2>1. CASE l = n + 1
    BY <1>2, <1>3, <2>1 DEF From
  <2>2. CASE l # n + 1
    <3>1. l \in 1 .. n
      BY <1>1, <2>2
    <3>2. Remains(t, st[l].s, From(q, m + 1, l), q[l])
      BY <3>1 DEF Completes
    <3>3. From(qm, i, l) = From(q, m + 1, l)
      <4>1. CASE l = n
        BY <1>1, <1>3, <2>2, <4>1 DEF From
      <4>2. CASE l # n
        <5>1. l + 1 \in 1 .. n
          BY <1>1, <3>1, <4>2
        <5>2. QED
          BY <1>1, <1>3, <2>2, <4>2, <5>1 DEF From
      <4>3. QED
        BY <4>1, <4>2
    <3>4. QED
      BY <1>2, <1>3, <3>1, <3>2, <3>3
  <2>3. QED
    BY <2>1, <2>2
<1>5. QED
  BY <1>2, <1>3, <1>4 DEF Completes, sm, qm

-----------------------------------------------------------------------------
(* The turns of lcfg_parser_parse, each with the tokens it is for.         *)
NamesSetting ==
    /\ Top.s \in {"top_level", "in_map"} /\ token.type = "T_IDENTIFIER"
    /\ stack' = Append(stack, Element("exp_equals"))
    /\ path' = PushName(path, token.word) /\ values' = values
Equals ==
    /\ Top.s = "exp_equals" /\ token.type = "="
    /\ stack' = Become("exp_value") /\ UNCHANGED <<path, values>>
IsText ==
    /\ Top.s = "exp_value" /\ token.type = "T_STRING"
    /\ stack' = Front(stack) /\ path' = Pop(path) /\ AddValue(path, token.word)
Enters ==
    /\ Top.s = "exp_value" /\ UNCHANGED <<path, values>>
    /\ \/ token.type = "[" /\ stack' = Become("in_list")
       \/ token.type = "{" /\ stack' = Become("in_map")
Commas ==
    /\ Top.s = "in_list" /\ token.type = ","
    /\ stack' = stack /\ UNCHANGED <<path, values>>
ListsText ==
    /\ Top.s = "in_list" /\ token.type = "T_STRING" /\ stack' = Counted
    /\ LET item == PushInt(path, Top.list_counter) IN
       path' = Pop(item) /\ AddValue(item, token.word)
ListsMore ==
    /\ Top.s = "in_list" /\ values' = values
    /\ path' = PushInt(path, Top.list_counter)
    /\ \/ token.type = "[" /\ stack' = Append(Counted, Element("in_list"))
       \/ token.type = "{" /\ stack' = Append(Counted, Element("in_map"))
Closes ==
    /\ \/ Top.s = "in_map" /\ token.type = "}"
       \/ Top.s = "in_list" /\ token.type = "]"
    /\ stack' = Front(stack) /\ path' = Pop(path) /\ values' = values
Rejects ==
    /\ \/ /\ Top.s \in {"top_level", "in_map"} /\ token.type # "T_IDENTIFIER"
          /\ ~(token.type = "}" /\ Top.s = "in_map")
       \/ Top.s = "exp_equals" /\ token.type # "="
       \/ Top.s = "exp_value" /\ token.type \notin {"T_STRING", "[", "{"}
       \/ Top.s = "in_list" /\ token.type \notin {",", "T_STRING", "[", "{", "]"}
    /\ stack' = Become("invalid") /\ UNCHANGED <<path, values>>

LEMMA Turns ==
    ASSUME Handle, token # Null
    PROVE  \/ NamesSetting \/ Equals \/ IsText \/ Enters \/ Commas
           \/ ListsText \/ ListsMore \/ Closes \/ Rejects
<1>1. CASE InMap
  BY <1>1, Zenon DEF InMap, NamesSetting, Closes, Rejects
<1>2. CASE ExpEquals
  BY <1>2, Zenon DEF ExpEquals, Equals, Rejects
<1>3. CASE ExpValue
  <2>1. CASE token.type = "T_STRING"
    BY <1>3, <2>1, Zenon DEF ExpValue, IsText
  <2>2. CASE token.type = "["
    BY <1>3, <2>2 DEF ExpValue, Enters
  <2>3. CASE token.type = "{"
    BY <1>3, <2>3 DEF ExpValue, Enters
  <2>4. CASE token.type \notin {"T_STRING", "[", "{"}
    BY <1>3, <2>4 DEF ExpValue, Rejects
  <2>5. QED
    BY <2>1, <2>2, <2>3, <2>4, Zenon
<1>4. CASE InList
  <2>1. CASE token.type \in {"[", "{"}
    BY <1>4, <2>1 DEF InList, ListsMore
  <2>2. CASE token.type \notin {"[", "{"}
    BY <1>4, <2>2, Zenon DEF InList, Commas, ListsText, Closes, Rejects
  <2>3. QED
    BY <2>1, <2>2
<1>5. QED
  BY <1>1, <1>2, <1>3, <1>4 DEF Handle

LEMMA StackShapes ==
    ASSUME Automaton
    PROVE  LET n == Len(stack) IN
           /\ n \in Nat \ {0} /\ Top = stack[n] /\ Top \in Elements
           /\ stack \in Seq(Elements)
           /\ Top.s \notin {"top_level", "invalid"} => n >= 2
           /\ \A s : /\ SameBelow(stack, Become(s)) /\ SameBelow(Become(s), stack)
                     /\ Become(s)[n].s = s
                     /\ Become(s)[n].list_counter = Top.list_counter
                     /\ \A l \in 1 .. n - 1 : Become(s)[l] = stack[l]
           /\ SameBelow(stack, Counted) /\ SameBelow(Counted, stack)
           /\ Counted \in Seq(Elements) /\ Counted[n].s = Top.s
           /\ Counted[n].list_counter = Top.list_counter + 1
           /\ \A l \in 1 .. n - 1 : Counted[l] = stack[l]
<1> DEFINE n == Len(stack)
<1>1. n \in Nat \ {0}
  BY DEF Automaton
<1>2. n \in Nat \ {0} /\ stack \in Seq(Elements) /\ stack[1].s \in {"top_level", "invalid"}
  BY DEF Automaton
<1> HIDE DEF n
<1>3. Top = stack[n] /\ Top \in Elements
  BY <1>2 DEF Top, Last, n
<1>4. Top.s \notin {"top_level", "invalid"} => n >= 2
  <2>1. n # 1 => n >= 2
    BY <1>1
  <2>2. QED
    BY <1>2, <1>3, <2>1
<1>5. ASSUME NEW s
      PROVE  /\ SameBelow(stack, Become(s)) /\ SameBelow(Become(s), stack)
             /\ Become(s)[n].s = s /\ Become(s)[n].list_counter = Top.list_counter
             /\ \A l \in 1 .. n - 1 : Become(s)[l] = stack[l]
  <2>1. PICK e : e = [stack[n] EXCEPT !.s = s]
    OBVIOUS
  <2>2. e.s = s /\ e.list_counter = Top.list_counter
    BY <1>3, <2>1 DEF Elements
  <2>3. Become(s) = [stack EXCEPT ![n] = e]
    BY <2>1 DEF Become, n
  <2>4. n \in 1 .. n /\ \A l \in 1 .. n - 1 : l \in 1 .. n /\ l # n
    BY <1>2
  <2>5. /\ Become(s)[n] = e /\ Len(Become(s)) = n
        /\ \A l \in 1 .. n - 1 : Become(s)[l] = stack[l]
    BY <1>2, <2>3, <2>4 DEF n
  <2>6. QED
    BY <1>2, <2>2, <2>5 DEF SameBelow, n
<1>6. /\ SameBelow(stack, Counted) /\ SameBelow(Counted, stack)
      /\ Counted \in Seq(Elements) /\ Counted[n].s = Top.s
      /\ Counted[n].list_counter = Top.list_counter + 1
      /\ \A l \in 1 .. n - 1 : Counted[l] = stack[l]
  <2>1. PICK e : e = [stack[n] EXCEPT !.list_counter = @ + 1]
    OBVIOUS
  <2>2. e \in Elements /\ e.s = Top.s /\ e.list_counter = Top.list_counter + 1
    BY <1>3, <2>1 DEF Elements
  <2>3. Counted = [stack EXCEPT ![n] = e]
    BY <2>1 DEF Counted, n
  <2>4. n \in 1 .. n /\ \A l \in 1 .. n - 1 : l \in 1 .. n /\ l # n
    BY <1>2
  <2>5. /\ Counted[n] = e /\ Len(Counted) = n /\ Counted \in Seq(Elements)
        /\ \A l \in 1 .. n - 1 : Counted[l] = stack[l]
    BY <1>2, <2>2, <2>3, <2>4 DEF n
  <2>6. QED
    BY <1>2, <2>2, <2>5 DEF SameBelow, n
<1>7. QED
  BY <1>2, <1>3, <1>4, <1>5, <1>6 DEF n

(* A turn that reads token i leaves as much as was left before it.         *)
HasRead(t, i) == Len(t) \in Nat /\ i \in 1 .. Len(t) /\ token = t[i]

LEMMA PushTurn ==
    ASSUME NEW t, NEW i, HasRead(t, i), Automaton, NEW st, NEW e \in Elements,
           st \in Seq(Elements), SameBelow(stack, st), SameBelow(st, stack),
           st[Len(stack)].s = Top.s, stack' = Append(st, e)
    PROVE  /\ \A q : \A m \in 0 .. Len(t) :
                /\ Completes(t, stack, i, q)
                /\ Remains(t, e.s, i + 1, m) /\ Remains(t, Top.s, m + 1, q[Len(stack)])
                => Completes(t, stack', i + 1, Append(q, m))
           /\ (\A k, m \in 0 .. Len(t) :
                    Remains(t, e.s, i + 1, m) /\ Remains(t, Top.s, m + 1, k)
                        => Remains(t, Top.s, i, k))
              => \A q : Completes(t, stack', i + 1, q)
                            => \E p : Completes(t, stack, i, p)
<1> DEFINE n == Len(stack)
<1>1. n \in Nat \ {0} /\ Top = stack[n] /\ Len(st) = n /\ st[n].s = stack[n].s
  BY StackShapes DEF SameBelow
<1>2. ASSUME NEW q, NEW m \in 0 .. Len(t), Completes(t, stack, i, q),
             Remains(t, e.s, i + 1, m), Remains(t, Top.s, m + 1, q[n])
      PROVE  Completes(t, stack', i + 1, Append(q, m))
  <2>1. Completes(t, st, m + 1, q)
    BY <1>1, <1>2, StayCompletes
  <2>2. QED
    BY <1>1, <1>2, <2>1, PushCompletes
<1>3. ASSUME \A k, m \in 0 .. Len(t) :
                Remains(t, e.s, i + 1, m) /\ Remains(t, Top.s, m + 1, k)
                    => Remains(t, Top.s, i, k),
             NEW q, Completes(t, stack', i + 1, q)
      PROVE  \E p : Completes(t, stack, i, p)
  <2>1. /\ Len(stack') = n + 1 /\ stack'[n + 1] = e /\ stack' \in Seq(Elements)
        /\ \A l \in 1 .. n : stack'[l] = st[l]
        /\ n + 1 >= 2 /\ n + 1 \in Nat \ {0}
    BY <1>1
  <2>2. PICK m : m = q[n + 1]
    OBVIOUS
  <2>3. Remains(t, e.s, i + 1, m) /\ m \in 0 .. Len(t)
    BY <1>3, <2>1, <2>2, LastRemains
  <2>4. Completes(t, Front(stack'), m + 1, Front(q))
    BY <1>3, <2>1, <2>2, PopCompletes
  <2>5. /\ Front(stack') \in Seq(Elements) /\ Len(Front(stack')) = n
        /\ \A l \in 1 .. n : Front(stack')[l] = st[l]
    BY <1>1, <2>1 DEF Front
  <2>6. PICK f : f = Front(stack')
    OBVIOUS
  <2>7. /\ SameBelow(f, stack) /\ f[n].s = Top.s /\ Len(f) = n
    <3>1. \A l \in 1 .. n - 1 : l \in 1 .. n
      BY <1>1
    <3>2. n \in 1 .. n
      BY <1>1
    <3>3. QED
      BY <1>1, <2>5, <2>6, <3>1, <3>2 DEF SameBelow
  <2>8. PICK p : p = Front(q)
    OBVIOUS
  <2>9. Remains(t, Top.s, m + 1, p[n]) /\ p[n] \in 0 .. Len(t)
    BY <1>1, <2>4, <2>6, <2>7, <2>8, LastRemains
  <2>10. Remains(t, Top.s, i, p[n])
    BY <1>3, <2>3, <2>9
  <2>11. Completes(t, stack, i, p)
    BY <1>1, <2>4, <2>6, <2>7, <2>8, <2>10, StayCompletes
  <2>12. QED
    BY <2>11
<1>4. QED
  BY <1>2, <1>3

LEMMA PopTurn ==
    ASSUME NEW t, NEW i, HasRead(t, i), Automaton, Top.s \notin {"top_level", "invalid"},
           \A k \in 0 .. Len(t) : Remains(t, Top.s, i, k) <=> k = i, stack' = Front(stack)
    PROVE  /\ \A q : Completes(t, stack, i, q)
                        => q[Len(stack)] = i /\ Completes(t, stack', i + 1, Front(q))
           /\ \A q : Completes(t, stack', i + 1, q) => \E p : Completes(t, stack, i, p)
<1> DEFINE n == Len(stack)
<1>1. n \in Nat \ {0} /\ Top = stack[n] /\ n >= 2 /\ stack \in Seq(Elements) /\ Top \in Elements
  BY StackShapes
<1>2. ASSUME NEW q, Completes(t, stack, i, q)
      PROVE  q[n] = i /\ Completes(t, stack', i + 1, Front(q))
  <2>1. Remains(t, Top.s, i, q[n]) /\ q[n] \in 0 .. Len(t)
    BY <1>1, <1>2, LastRemains
  <2>2. q[n] = i
    BY <2>1
  <2>3. Completes(t, stack', i + 1, Front(q))
    BY <1>1, <1>2, <2>2, PopCompletes
  <2>4. QED
    BY <2>2, <2>3
<1>3. ASSUME NEW q, Completes(t, stack', i + 1, q)
      PROVE  \E p : Completes(t, stack, i, p)
  <2>1. /\ stack' \in Seq(Elements) /\ Len(stack') = n - 1 /\ n - 1 >= 1
        /\ Append(stack', Top) = stack
    BY <1>1 DEF Front
  <2>2. i \in 0 .. Len(t)
    BY DEF HasRead
  <2>3. Remains(t, Top.s, i, i)
    BY <2>2
  <2>4. Completes(t, Append(stack', Top), i, Append(q, i))
    BY <1>1, <1>3, <2>1, <2>2, <2>3, PushCompletes
  <2>5. QED
    BY <2>1, <2>4
<1>4. QED
  BY <1>2, <1>3

LEMMA StayTurn ==
    ASSUME NEW t, NEW i, HasRead(t, i), Automaton,
           SameBelow(stack, stack'), SameBelow(stack', stack),
           \A k \in 0 .. Len(t) : Remains(t, Top.s, i, k)
                                    <=> Remains(t, stack'[Len(stack)].s, i + 1, k)
    PROVE  /\ \A q : Completes(t, stack, i, q) => Completes(t, stack', i + 1, q)
           /\ \A q : Completes(t, stack', i + 1, q) => Completes(t, stack, i, q)
<1> DEFINE n == Len(stack)
<1>1. n \in Nat \ {0} /\ Top = stack[n] /\ Len(stack') = n
  BY StackShapes DEF SameBelow
<1>2. ASSUME NEW q, Completes(t, stack, i, q)
      PROVE  Completes(t, stack', i + 1, q)
  <2>1. q[n] \in 0 .. Len(t)
    BY <1>1, <1>2, LastRemains
  <2>2. QED
    BY <1>1, <1>2, <2>1, StayCompletes
<1>3. ASSUME NEW q, Completes(t, stack', i + 1, q)
      PROVE  Completes(t, stack, i, q)
  <2>1. q[n] \in 0 .. Len(t)
    BY <1>1, <1>3, LastRemains
  <2>2. QED
    BY <1>1, <1>3, <2>1, StayCompletes
<1>4. QED
  BY <1>2, <1>3

LEMMA RejectTurn ==
    ASSUME NEW t, NEW i, HasRead(t, i), Automaton, Rejects
    PROVE  /\ \A q : ~Completes(t, stack, i, q)
           /\ \A q : ~Completes(t, stack', i + 1, q)
<1> DEFINE n == Len(stack)
<1>1. /\ n \in Nat \ {0} /\ Top = stack[n] /\ Len(stack') = n /\ stack'[n].s = "invalid"
  BY StackShapes DEF Rejects, SameBelow
<1>2. ASSUME NEW k \in 0 .. Len(t) PROVE ~Remains(t, Top.s, i, k)
  <2>1. Len(t) \in Nat /\ i \in 1 .. Len(t) /\ token = t[i]
    BY DEF HasRead
  <2>2. CASE Top.s = "top_level"
    <3>1. t[i].type # "T_IDENTIFIER"
      BY <2>1, <2>2 DEF Rejects
    <3>2. ~Remains(t, "top_level", i, k)
      BY <2>1, <3>1, SettingsRemain
    <3>3. QED
      BY <2>2, <3>2
  <2>3. CASE Top.s = "in_map"
    <3>1. t[i].type # "T_IDENTIFIER" /\ t[i].type # "}"
      BY <2>1, <2>3 DEF Rejects
    <3>2. ~Remains(t, "in_map", i, k)
      BY <2>1, <3>1, SettingsRemain
    <3>3. QED
      BY <2>3, <3>2
  <2>4. CASE Top.s = "exp_equals"
    <3>1. t[i].type # "="
      BY <2>1, <2>4 DEF Rejects
    <3>2. QED
      BY <2>4, <3>1 DEF Remains
  <2>5. CASE Top.s = "exp_value"
    <3>1. t[i].type \notin {"T_STRING", "[", "{"}
      BY <2>1, <2>5 DEF Rejects
    <3>2. ~IsValue(t, i, k)
      BY <2>1, <3>1, ValueRemains
    <3>3. QED
      BY <2>5, <3>2 DEF Remains
  <2>6. CASE Top.s = "in_list"
    <3>1. t[i].type \notin {",", "T_STRING", "[", "{", "]"}
      BY <2>1, <2>6 DEF Rejects
    <3>2. ~Begins(t[i]) /\ t[i].type \notin {",", "]"}
      BY <3>1, Zenon DEF Begins
    <3>3. ~Remains(t, "in_list", i, k)
      BY <2>1, <3>2, ListRemains
    <3>4. QED
      BY <2>6, <3>3
  <2>7. QED
    BY <2>2, <2>4, <2>5, <2>6, <2>3 DEF Rejects
<1>3. ASSUME NEW k PROVE ~Remains(t, "invalid", i + 1, k)
  BY DEF Remains
<1>4. ASSUME NEW q, Completes(t, stack, i, q) PROVE FALSE
  BY <1>1, <1>2, <1>4, LastRemains
<1>5. ASSUME NEW q, Completes(t, stack', i + 1, q) PROVE FALSE
  BY <1>1, <1>3, <1>5, LastRemains
<1>6. QED
  BY <1>4, <1>5

(* What the local facts of the grammar come to for each turn.              *)
LEMMA ClosesRemains ==
    ASSUME NEW t, NEW i, HasRead(t, i), Closes \/ IsText
    PROVE  /\ Top.s \notin {"top_level", "invalid"} /\ stack' = Front(stack)
           /\ \A k \in 0 .. Len(t) : Remains(t, Top.s, i, k) <=> k = i
<1>1. Len(t) \in Nat /\ i \in 1 .. Len(t) /\ token = t[i]
  BY DEF HasRead
<1>2. CASE Closes /\ Top.s = "in_map"
  <2>1. t[i].type = "}" /\ stack' = Front(stack)
    BY <1>1, <1>2, Zenon DEF Closes
  <2>2. \A k \in 0 .. Len(t) : Remains(t, "in_map", i, k) <=> k = i
    BY <1>1, <2>1, SettingsRemain
  <2>3. QED
    BY <1>2, <2>1, <2>2
<1>3. CASE Closes /\ Top.s = "in_list"
  <2>1. t[i].type = "]" /\ stack' = Front(stack)
    BY <1>1, <1>3, Zenon DEF Closes
  <2>2. ~Begins(t[i])
    BY <2>1, Zenon DEF Begins
  <2>3. \A k \in 0 .. Len(t) : Remains(t, "in_list", i, k) <=> k = i
    BY <1>1, <2>1, <2>2, ListRemains
  <2>4. QED
    BY <1>3, <2>1, <2>3
<1>4. CASE IsText
  <2>1. t[i].type = "T_STRING" /\ stack' = Front(stack) /\ Top.s = "exp_value"
    BY <1>1, <1>4, Zenon DEF IsText
  <2>2. \A k \in 0 .. Len(t) : IsValue(t, i, k) <=> k = i
    BY <1>1, <2>1, ValueRemains
  <2>3. \A k \in 0 .. Len(t) : Remains(t, "exp_value", i, k) <=> k = i
    <3>1. \A k : Remains(t, "exp_value", i, k) <=> i <= k /\ IsValue(t, i, k)
      BY DEF Remains
    <3>2. \A k : k = i => i <= k
      BY <1>1
    <3>3. QED
      BY <2>2, <3>1, <3>2
  <2>4. QED
    BY <2>1, <2>3
<1>5. QED
  BY <1>2, <1>3, <1>4 DEF Closes

LEMMA StaysRemains ==
    ASSUME NEW t, NEW i, HasRead(t, i), Automaton, Equals \/ Enters \/ Commas \/ ListsText
    PROVE  /\ SameBelow(stack, stack') /\ SameBelow(stack', stack)
           /\ \A k \in 0 .. Len(t) : Remains(t, Top.s, i, k)
                                        <=> Remains(t, stack'[Len(stack)].s, i + 1, k)
<1> DEFINE n == Len(stack)
<1>1. Len(t) \in Nat /\ i \in 1 .. Len(t) /\ token = t[i]
  BY DEF HasRead
<1>2. CASE Equals
  <2>1. Top.s = "exp_equals" /\ t[i].type = "=" /\ stack' = Become("exp_value")
    BY <1>1, <1>2 DEF Equals
  <2>2. ASSUME NEW k \in 0 .. Len(t)
        PROVE  Remains(t, "exp_equals", i, k) <=> Remains(t, "exp_value", i + 1, k)
    <3>1. i < k <=> i + 1 <= k
      BY <1>1
    <3>2. QED
      BY <2>1, <3>1 DEF Remains
  <2>3. QED
    BY <2>1, <2>2, StackShapes
<1>3. CASE Enters
  <2>1. \/ t[i].type = "[" /\ stack' = Become("in_list")
        \/ t[i].type = "{" /\ stack' = Become("in_map")
    BY <1>1, <1>3, Zenon DEF Enters
  <2>2. Top.s = "exp_value"
    BY <1>3 DEF Enters
  <2>3. ASSUME NEW k \in 0 .. Len(t)
        PROVE  Remains(t, "exp_value", i, k) <=> IsValue(t, i, k)
    <3>1. IsValue(t, i, k) => i <= k
      <4>1. i \in 1 .. Len(t) + 1 /\ Len(t) \in Nat
        BY <1>1
      <4>2. QED
        BY <4>1, ValueBegins
    <3>2. QED
      BY <3>1 DEF Remains
  <2>4. CASE t[i].type = "[" /\ stack' = Become("in_list")
    <3>1. \A k \in 0 .. Len(t) : IsValue(t, i, k) <=> Remains(t, "in_list", i + 1, k)
      BY <1>1, <2>4, ValueRemains
    <3>2. stack' = Become("in_list")
      BY <2>4
    <3>3. stack'[n].s = "in_list" /\ SameBelow(stack, stack') /\ SameBelow(stack', stack)
      BY <3>2, StackShapes
    <3>4. QED
      BY <2>2, <2>3, <3>1, <3>3
  <2>5. CASE t[i].type = "{" /\ stack' = Become("in_map")
    <3>1. \A k \in 0 .. Len(t) : IsValue(t, i, k) <=> Remains(t, "in_map", i + 1, k)
      BY <1>1, <2>5, ValueRemains
    <3>2. stack' = Become("in_map")
      BY <2>5
    <3>3. stack'[n].s = "in_map" /\ SameBelow(stack, stack') /\ SameBelow(stack', stack)
      BY <3>2, StackShapes
    <3>4. QED
      BY <2>2, <2>3, <3>1, <3>3
  <2>6. QED
    BY <2>1, <2>4, <2>5
<1>4. CASE Commas
  <2>1. t[i].type = "," /\ stack' = stack /\ Top.s = "in_list"
    BY <1>1, <1>4, Zenon DEF Commas
  <2>2. ~Begins(t[i])
    BY <2>1, Zenon DEF Begins
  <2>3. \A k \in 0 .. Len(t) : Remains(t, "in_list", i, k) <=> Remains(t, "in_list", i + 1, k)
    BY <1>1, <2>1, <2>2, ListRemains
  <2>4. stack[n].s = "in_list" /\ SameBelow(stack, stack)
    BY <2>1, StackShapes DEF SameBelow
  <2>5. QED
    BY <2>1, <2>3, <2>4
<1>5. CASE ListsText
  <2>1. t[i].type = "T_STRING" /\ stack' = Counted /\ Top.s = "in_list"
    BY <1>1, <1>5 DEF ListsText
  <2>2. Begins(t[i])
    BY <2>1, Zenon DEF Begins
  <2>3. \A m \in 0 .. Len(t) : IsValue(t, i, m) <=> m = i
    BY <1>1, <2>1, ValueRemains
  <2>4. i \in 0 .. Len(t)
    BY <1>1
  <2>5. \A k \in 0 .. Len(t) : Remains(t, "in_list", i, k) <=> Remains(t, "in_list", i + 1, k)
    BY <1>1, <2>2, <2>3, <2>4, ItemRemains
  <2>6. QED
    BY <2>1, <2>5, StackShapes
<1>6. QED
  BY <1>2, <1>3, <1>4, <1>5

LEMMA NamesRemains ==
    ASSUME NEW t, NEW i, HasRead(t, i), NamesSetting
    PROVE  OpensAt(t, i, Top.s, "exp_equals")
<1>1. Len(t) \in Nat /\ i \in 1 .. Len(t) /\ t[i].type = "T_IDENTIFIER"
  BY DEF HasRead, NamesSetting
<1>2. PICK s : s = Top.s
  OBVIOUS
<1>3. s \in {"top_level", "in_map"}
  BY <1>2 DEF NamesSetting
<1>4. OpensAt(t, i, s, "exp_equals")
  BY <1>1, <1>3, NameRemains
<1>5. QED
  BY <1>2, <1>4

LEMMA MoreRemains ==
    ASSUME NEW t, NEW i, HasRead(t, i), ListsMore
    PROVE  \E s \in {"in_list", "in_map"} :
             /\ t[i].type = (IF s = "in_list" THEN "[" ELSE "{")
             /\ stack' = Append(Counted, Element(s))
             /\ OpensAt(t, i, Top.s, s)
<1>1. /\ Len(t) \in Nat /\ i \in 1 .. Len(t) /\ Top.s = "in_list"
  BY DEF HasRead, ListsMore
<1>2. PICK s \in {"in_list", "in_map"} :
        /\ t[i].type = (IF s = "in_list" THEN "[" ELSE "{")
        /\ stack' = Append(Counted, Element(s))
  <2>1. token = t[i]
    BY DEF HasRead
  <2>2. CASE token.type = "[" /\ stack' = Append(Counted, Element("in_list"))
    BY <2>1, <2>2
  <2>3. CASE token.type = "{" /\ stack' = Append(Counted, Element("in_map"))
    BY <2>1, <2>3
  <2>4. QED
    BY <2>2, <2>3 DEF ListsMore
<1>3. Begins(t[i])
  <2>1. CASE s = "in_list"
    BY <1>2, <2>1, Zenon DEF Begins
  <2>2. CASE s = "in_map"
    <3>1. s # "in_list"
      BY <2>2
    <3>2. QED
      BY <1>2, <3>1, Zenon DEF Begins
  <2>3. QED
    BY <2>1, <2>2
<1>4. \A m \in 0 .. Len(t) : IsValue(t, i, m) <=> Remains(t, s, i + 1, m)
  <2>1. CASE s = "in_list"
    <3>1. t[i].type = "["
      BY <1>2, <2>1
    <3>2. QED
      BY <1>1, <2>1, <3>1, ValueRemains
  <2>2. CASE s = "in_map"
    <3>1. t[i].type = "{"
      BY <1>2, <2>2
    <3>2. \A m \in 0 .. Len(t) : IsValue(t, i, m) <=> Remains(t, "in_map", i + 1, m)
      BY <1>1, <3>1, ValueRemains
    <3>3. QED
      BY <2>2, <3>2
  <2>3. QED
    BY <2>1, <2>2
<1>5. \A k : Opened(t, i, "in_list", k) = EndOf(t, "items", i, k - 1)
  BY DEF Opened
<1>6. \A k \in 0 .. Len(t) : Remains(t, "in_list", i, k) =>
        LET m == EndOf(t, "items", i, k - 1) IN
        /\ m \in 0 .. Len(t)
        /\ IsValue(t, i, m) /\ Remains(t, "in_list", m + 1, k)
  BY <1>1, <1>3, ItemRemains
<1>7. \A k, m \in 0 .. Len(t) :
        IsValue(t, i, m) /\ Remains(t, "in_list", m + 1, k) => Remains(t, "in_list", i, k)
  BY <1>1, <1>3, ItemRemains
<1>8. OpensAt(t, i, "in_list", s)
  BY <1>4, <1>5, <1>6, <1>7 DEF OpensAt
<1>9. QED
  BY <1>1, <1>2, <1>8

LEMMA NamesTurn ==
    ASSUME NEW t, NEW i, HasRead(t, i), Automaton, NamesSetting
    PROVE  /\ \A q : Completes(t, stack, i, q)
                => Completes(t, stack', i + 1,
                             Append(q, Opened(t, i, Top.s, q[Len(stack)])))
           /\ \A q : Completes(t, stack', i + 1, q) => \E p : Completes(t, stack, i, p)
<1> DEFINE n == Len(stack)
<1>1. OpensAt(t, i, Top.s, "exp_equals")
  BY NamesRemains
<1>2. /\ stack \in Seq(Elements) /\ n \in Nat \ {0} /\ stack[n].s = Top.s
      /\ SameBelow(stack, stack)
  BY StackShapes DEF SameBelow
<1>3. PICK e \in Elements : e = Element("exp_equals")
  BY DEF Elements, Element
<1>4. e.s = "exp_equals" /\ stack' = Append(stack, e)
  BY <1>3 DEF NamesSetting, Element
<1>5. ASSUME NEW q, Completes(t, stack, i, q)
      PROVE  LET m == Opened(t, i, Top.s, q[n]) IN
             /\ m \in 0 .. Len(t)
             /\ Remains(t, e.s, i + 1, m) /\ Remains(t, Top.s, m + 1, q[n])
  <2>1. Remains(t, Top.s, i, q[n]) /\ q[n] \in 0 .. Len(t)
    BY <1>2, <1>5, LastRemains
  <2>2. QED
    BY <1>1, <1>4, <2>1 DEF OpensAt
<1>6. \A k, m \in 0 .. Len(t) :
        Remains(t, e.s, i + 1, m) /\ Remains(t, Top.s, m + 1, k) => Remains(t, Top.s, i, k)
  BY <1>1, <1>4 DEF OpensAt
<1>7. /\ \A q : \A m \in 0 .. Len(t) :
           /\ Completes(t, stack, i, q)
           /\ Remains(t, e.s, i + 1, m) /\ Remains(t, Top.s, m + 1, q[n])
           => Completes(t, stack', i + 1, Append(q, m))
      /\ \A q : Completes(t, stack', i + 1, q) => \E p : Completes(t, stack, i, p)
  BY <1>2, <1>4, <1>6, PushTurn
<1>8. QED
  BY <1>5, <1>7

LEMMA MoreTurn ==
    ASSUME NEW t, NEW i, HasRead(t, i), Automaton, ListsMore
    PROVE  /\ \A q : Completes(t, stack, i, q)
                => Completes(t, stack', i + 1,
                             Append(q, Opened(t, i, Top.s, q[Len(stack)])))
           /\ \A q : Completes(t, stack', i + 1, q) => \E p : Completes(t, stack, i, p)
<1> DEFINE n == Len(stack)
<1>1. PICK s \in {"in_list", "in_map"} : /\ OpensAt(t, i, Top.s, s)
                                         /\ stack' = Append(Counted, Element(s))
  BY MoreRemains
<1>2. /\ Counted \in Seq(Elements) /\ n \in Nat \ {0} /\ Counted[n].s = Top.s
      /\ SameBelow(stack, Counted) /\ SameBelow(Counted, stack) /\ Top = stack[n]
  BY StackShapes
<1>3. PICK e \in Elements : e = Element(s)
  BY DEF Elements, Element
<1>4. e.s = s /\ stack' = Append(Counted, e)
  BY <1>1, <1>3 DEF Element
<1>5. ASSUME NEW q, Completes(t, stack, i, q)
      PROVE  LET m == Opened(t, i, Top.s, q[n]) IN
             /\ m \in 0 .. Len(t)
             /\ Remains(t, e.s, i + 1, m) /\ Remains(t, Top.s, m + 1, q[n])
  <2>1. Remains(t, Top.s, i, q[n]) /\ q[n] \in 0 .. Len(t)
    BY <1>2, <1>5, LastRemains
  <2>2. QED
    BY <1>1, <1>4, <2>1 DEF OpensAt
<1>6. \A k, m \in 0 .. Len(t) :
        Remains(t, e.s, i + 1, m) /\ Remains(t, Top.s, m + 1, k) => Remains(t, Top.s, i, k)
  BY <1>1, <1>4 DEF OpensAt
<1>7. /\ \A q : \A m \in 0 .. Len(t) :
           /\ Completes(t, stack, i, q)
           /\ Remains(t, e.s, i + 1, m) /\ Remains(t, Top.s, m + 1, q[n])
           => Completes(t, stack', i + 1, Append(q, m))
      /\ \A q : Completes(t, stack', i + 1, q) => \E p : Completes(t, stack, i, p)
  BY <1>2, <1>4, <1>6, PushTurn
<1>8. QED
  BY <1>5, <1>7

(* The tokens that are left complete the stack before a turn of the parser *)
(* if and only if those after the first complete the stack it leaves.      *)
Completable(t, st, i) == \E q : Completes(t, st, i, q)

LEMMA TurnCompletes ==
    ASSUME NEW t, NEW i, HasRead(t, i), Automaton, Handle, token # Null
    PROVE  Completable(t, stack, i) <=> Completable(t, stack', i + 1)
<1>1. CASE NamesSetting
  BY <1>1, NamesTurn DEF Completable
<1>2. CASE ListsMore
  BY <1>2, MoreTurn DEF Completable
<1>3. CASE Closes \/ IsText
  BY <1>3, ClosesRemains, PopTurn DEF Completable
<1>4. CASE Equals \/ Enters \/ Commas \/ ListsText
  BY <1>4, StaysRemains, StayTurn DEF Completable
<1>5. CASE Rejects
  BY <1>5, RejectTurn DEF Completable
<1>6. QED
  BY <1>1, <1>2, <1>3, <1>4, <1>5, Turns

-----------------------------------------------------------------------------
(* The tokens of a text are what their definitions say.                    *)

(* The characters of strings, as the scanner keeps them.                   *)
Unescaped == {Escapes[c] : c \in DOMAIN Escapes}
Encoded == {HexValue(a, b) : a, b \in STRING}
Kept == STRING \cup Unescaped \cup Encoded

LEMMA InKept ==
    /\ STRING \subseteq Kept
    /\ \A c \in DOMAIN Escapes : Escapes[c] \in Kept
    /\ \A a, b \in STRING : HexValue(a, b) \in Kept
<1>1. STRING \subseteq Kept
  BY DEF Kept
<1>2. \A c \in DOMAIN Escapes : Escapes[c] \in Kept
  <2>1. \A c \in DOMAIN Escapes : Escapes[c] \in Unescaped
    BY DEF Unescaped
  <2>2. QED
    BY <2>1 DEF Kept
<1>3. \A a, b \in STRING : HexValue(a, b) \in Kept
  <2>1. \A a, b \in STRING : HexValue(a, b) \in Encoded
    BY DEF Encoded
  <2>2. QED
    BY <2>1 DEF Kept
<1>4. QED
  BY <1>1, <1>2, <1>3

Endings == [word : Seq(Kept), next : Nat]

Positions == Nat \ {0}
ToGo(t) == [i \in Positions |-> IF i > Len(t) THEN 0 ELSE Len(t) + 1 - i]

LEMMA ToGoNat ==
    ASSUME NEW t, Len(t) \in Nat
    PROVE  /\ ToGo(t) \in [Positions -> Nat]
           /\ \A i \in 1 .. Len(t), j \in Nat :
                j > i => j \in Below(Positions, ToGo(t), ToGo(t)[i])
<1>1. ToGo(t) \in [Positions -> Nat]
  BY DEF ToGo, Positions
<1>2. ASSUME NEW i \in 1 .. Len(t), NEW j \in Nat, j > i
      PROVE  j \in Positions /\ ToGo(t)[j] < ToGo(t)[i]
  BY <1>2 DEF ToGo, Positions
<1>3. QED
  BY <1>1, <1>2 DEF Below

LEMMA PutKept ==
    ASSUME NEW c \in Kept, NEW r \in Endings
    PROVE  Put(c, r) \in Endings
<1>1. r.word \in Seq(Kept) /\ r.next \in Nat
  BY DEF Endings
<1>2. <<c>> \o r.word \in Seq(Kept)
  BY <1>1
<1>3. QED
  BY <1>1, <1>2 DEF Put, Endings

LEMMA EscapesApart == "x" \notin DOMAIN Escapes
BY DEF Escapes, Quote

(* It is over, or a character and the rest after it.                       *)
LEMMA RestShapes ==
    ASSUME NEW t \in Seq(STRING), NEW S, NEW i \in Positions
    PROVE  \/ RestOf(t, S, i) = Ending(0)
           \/ i <= Len(t) /\ RestOf(t, S, i) = Ending(i + 1)
           \/ i <= Len(t) /\ \E c \in Kept, k \in {i + 1, i + 2, i + 4} :
                                RestOf(t, S, i) = Put(c, S[k])
<1>1. i \in Nat /\ i >= 1 /\ Len(t) \in Nat
  BY DEF Positions
<1>2. \A k \in 1 .. Len(t) : t[k] \in Kept /\ t[k] \in STRING
  <2>1. \A k \in 1 .. Len(t) : t[k] \in STRING
    OBVIOUS
  <2>2. QED
    BY <2>1, InKept
<1>3. CASE i > Len(t)
  <2>1. ~(i <= Len(t)) /\ ~(i < Len(t)) /\ i # Len(t)
    BY <1>1, <1>3
  <2>2. RestOf(t, S, i) = Ending(0)
    BY <1>3, <2>1, Zenon DEF RestOf
  <2>3. QED
    BY <2>2
<1>4. CASE i <= Len(t) /\ t[i] = Quote
  <2>1. ~(i > Len(t)) /\ i <= Len(t)
    BY <1>1, <1>4
  <2>2. t[i] # "\\" /\ t[i] = Quote
    BY <1>4 DEF Quote
  <2>3. RestOf(t, S, i) = Ending(i + 1)
    BY <2>1, <2>2, Zenon DEF RestOf
  <2>4. QED
    BY <2>1, <2>3
<1>5. CASE i < Len(t) /\ t[i] = "\\" /\ t[i] # Quote
  <2>1. RestOf(t, S, i) = Escaped(t, S, i)
    BY <1>1, <1>5 DEF RestOf
  <2>2. CASE t[i + 1] \in DOMAIN Escapes
    <3>1. Escapes[t[i + 1]] \in Kept
      BY <2>2, InKept
    <3>2. Escaped(t, S, i) = Put(Escapes[t[i + 1]], S[i + 2])
      BY <2>2, EscapesApart DEF Escaped
    <3>3. QED
      BY <1>1, <1>5, <2>1, <3>1, <3>2
  <2>3. CASE t[i + 1] \notin DOMAIN Escapes /\ t[i + 1] = "x" /\ i + 3 <= Len(t)
    <3>1. i + 2 \in 1 .. Len(t) /\ i + 3 \in 1 .. Len(t)
      BY <1>1, <2>3
    <3>2. HexValue(t[i + 2], t[i + 3]) \in Kept
      <4>1. t[i + 2] \in STRING /\ t[i + 3] \in STRING
        BY <1>2, <3>1
      <4>2. QED
        BY <4>1, InKept
    <3>3. Escaped(t, S, i) = Put(HexValue(t[i + 2], t[i + 3]), S[i + 4])
      BY <2>3 DEF Escaped
    <3>4. QED
      BY <1>1, <1>5, <2>1, <3>2, <3>3
  <2>4. CASE t[i + 1] \notin DOMAIN Escapes /\ ~(t[i + 1] = "x" /\ i + 3 <= Len(t))
    <3>1. Escaped(t, S, i) = Ending(0)
      BY <2>4 DEF Escaped
    <3>2. QED
      BY <2>1, <3>1
  <2>5. QED
    BY <2>2, <2>3, <2>4
<1>6. CASE i = Len(t) /\ t[i] = "\\" /\ t[i] # Quote
  <2>1. ~(i > Len(t)) /\ ~(i < Len(t))
    BY <1>1, <1>6
  <2>2. RestOf(t, S, i) = Ending(0)
    BY <2>1, <1>6, Zenon DEF RestOf
  <2>3. QED
    BY <2>2
<1>7. CASE i <= Len(t) /\ t[i] # Quote /\ t[i] # "\\"
  <2>1. RestOf(t, S, i) = Put(t[i], S[i + 1])
    BY <1>1, <1>7 DEF RestOf
  <2>2. i \in 1 .. Len(t)
    BY <1>1, <1>7
  <2>3. QED
    BY <2>1, <2>2, <1>2
<1>8. QED
  BY <1>1, <1>3, <1>4, <1>5, <1>6, <1>7

LEMMA RestTyped ==
    ASSUME NEW t \in Seq(STRING), NEW S, NEW i \in Positions,
           \A k \in {i + 1, i + 2, i + 4} : S[k] \in Endings
    PROVE  RestOf(t, S, i) \in Endings
<1>1. \A k \in Nat : Ending(k) \in Endings
  <2>1. <<>> \in Seq(Kept)
    BY EmptySeq
  <2>2. QED
    BY <2>1 DEF Ending, Endings
<1>2. i + 1 \in Nat /\ 0 \in Nat
  BY DEF Positions
<1>3. CASE RestOf(t, S, i) = Ending(0)
  BY <1>1, <1>2, <1>3
<1>4. CASE RestOf(t, S, i) = Ending(i + 1)
  BY <1>1, <1>2, <1>4
<1>5. CASE \E c \in Kept, k \in {i + 1, i + 2, i + 4} : RestOf(t, S, i) = Put(c, S[k])
  BY <1>5, PutKept
<1>6. QED
  BY <1>3, <1>4, <1>5, RestShapes

LEMMA SameRest ==
    ASSUME NEW t, Len(t) \in Nat, NEW i \in Positions, NEW f, NEW g,
           Same(f, g, Below(Positions, ToGo(t), ToGo(t)[i]))
    PROVE  RestOf(t, f, i) = RestOf(t, g, i)
<1>1. CASE i > Len(t)
  BY <1>1 DEF RestOf, Positions
<1>2. CASE i <= Len(t)
  <2>1. i \in 1 .. Len(t) /\ i + 1 \in Nat /\ i + 2 \in Nat /\ i + 4 \in Nat
        /\ i + 1 > i /\ i + 2 > i /\ i + 4 > i
    BY <1>2 DEF Positions
  <2>2. \A j \in Nat : j > i => f[j] = g[j]
    BY <2>1, ToGoNat DEF Same
  <2>3. f[i + 1] = g[i + 1] /\ f[i + 2] = g[i + 2] /\ f[i + 4] = g[i + 4]
    BY <2>1, <2>2
  <2>4. Escaped(t, f, i) = Escaped(t, g, i)
    BY <2>3 DEF Escaped
  <2>5. QED
    BY <2>3, <2>4 DEF RestOf
<1>3. QED
  BY <1>1, <1>2 DEF Positions

LEMMA RestsIs ==
    ASSUME NEW t \in Seq(STRING)
    PROVE  \A i \in Nat \ {0} : Rests(t)[i] = RestOf(t, Rests(t), i)
<1> DEFINE D == Positions
           h == [y \in D \X [D -> Endings] |-> RestOf(t, y[2], y[1])]
<1>1. \A i \in D, f \in [D -> Endings] : h[<<i, f>>] = RestOf(t, f, i)
  OBVIOUS
<1>2. h \in [D \X [D -> Endings] -> Endings]
  <2>1. ASSUME NEW i \in D, NEW f \in [D -> Endings]
        PROVE  RestOf(t, f, i) \in Endings
    <3>1. \A k \in {i + 1, i + 2, i + 4} : k \in D
      BY DEF Positions
    <3>2. \A k \in {i + 1, i + 2, i + 4} : f[k] \in Endings
      BY <3>1
    <3>3. QED
      BY <3>2, RestTyped
  <2>2. QED
    BY <2>1
<1>3. UsesSmaller(D, Endings, ToGo(t), h)
  <2> HIDE DEF h
  <2>1. QED
    BY <1>1, SameRest DEF UsesSmaller
<1>4. ToGo(t) \in [D -> Nat]
  BY ToGoNat
<1>5. Endings # {}
  <2>1. Ending(0) \in Endings
    BY EmptySeq DEF Ending, Endings
  <2>2. QED
    BY <2>1
<1> HIDE DEF h
<1>6. PICK f \in [D -> Endings] : Solution(D, h, f)
  BY <1>2, <1>3, <1>4, <1>5, SolutionExists
<1>7. f = [i \in Nat \ {0} |-> RestOf(t, f, i)]
  BY <1>1, <1>6 DEF Solution, Positions
<1>8. Rests(t) = CHOOSE g : g = [i \in Nat \ {0} |-> RestOf(t, g, i)]
  BY DEF Rests
<1>9. Rests(t) = [i \in Nat \ {0} |-> RestOf(t, Rests(t), i)]
  BY <1>7, <1>8
<1>10. QED
  BY <1>9

(* The rest of a string begins the next piece where something is left.     *)
Onward(t, r, i) == r.next = 0 \/ r.next \in i + 1 .. Len(t) + 1

LEMMA RestsOnward ==
    ASSUME NEW t \in Seq(STRING)
    PROVE  \A i \in Positions : Rests(t)[i] \in Endings /\ Onward(t, Rests(t)[i], i)
<1> DEFINE S == {i \in Positions : Rests(t)[i] \in Endings /\ Onward(t, Rests(t)[i], i)}
<1>1. Len(t) \in Nat /\ ToGo(t) \in [Positions -> Nat]
  BY ToGoNat
<1>2. ASSUME NEW i \in Positions, Below(Positions, ToGo(t), ToGo(t)[i]) \subseteq S
      PROVE  i \in S
  <2>1. i \in Nat /\ i >= 1 /\ Rests(t)[i] = RestOf(t, Rests(t), i)
    BY RestsIs DEF Positions
  <2>2. CASE i > Len(t)
    <3>1. RestOf(t, Rests(t), i) = Ending(0)
      <4>1. ~(i <= Len(t))
        BY <1>1, <2>1, <2>2
      <4>2. QED
        BY <4>1, RestShapes
    <3>2. <<>> \in Seq(Kept)
      BY EmptySeq
    <3>3. Ending(0) \in Endings /\ Ending(0).next = 0
      BY <3>2 DEF Ending, Endings
    <3>4. QED
      BY <2>1, <3>1, <3>3 DEF Onward
  <2>3. CASE i <= Len(t)
    <3>1. i \in 1 .. Len(t)
      BY <1>1, <2>1, <2>3
    <3>2. \A k \in {i + 1, i + 2, i + 4} : k \in S
      <4>1. \A k \in {i + 1, i + 2, i + 4} : k \in Nat /\ k > i
        BY <2>1
      <4>2. QED
        BY <1>1, <1>2, <3>1, <4>1, ToGoNat
    <3>3. RestOf(t, Rests(t), i) \in Endings
      BY <3>2, RestTyped
    <3>4. Onward(t, RestOf(t, Rests(t), i), i)
      <4>1. CASE RestOf(t, Rests(t), i) = Ending(0)
        BY <4>1 DEF Ending, Onward
      <4>2. CASE RestOf(t, Rests(t), i) = Ending(i + 1)
        <5>1. i + 1 \in i + 1 .. Len(t) + 1
          BY <1>1, <3>1
        <5>2. QED
          BY <4>2, <5>1 DEF Ending, Onward
      <4>3. CASE \E c \in Kept, k \in {i + 1, i + 2, i + 4} :
                    RestOf(t, Rests(t), i) = Put(c, Rests(t)[k])
        <5>1. PICK c \in Kept, k \in {i + 1, i + 2, i + 4} :
                    RestOf(t, Rests(t), i) = Put(c, Rests(t)[k])
          BY <4>3
        <5>2. RestOf(t, Rests(t), i).next = Rests(t)[k].next
          BY <5>1 DEF Put
        <5>3. Onward(t, Rests(t)[k], k) /\ k \in Nat /\ k >= i + 1
          BY <3>2, <2>1
        <5>4. QED
          BY <1>1, <2>1, <5>2, <5>3 DEF Onward
      <4>4. QED
        BY <4>1, <4>2, <4>3, RestShapes
    <3>5. QED
      BY <2>1, <3>3, <3>4
  <2>4. QED
    BY <1>1, <2>1, <2>2, <2>3
<1>3. Inductive(Positions, ToGo(t), S)
  BY <1>2 DEF Inductive
<1>4. QED
  BY <1>1, <1>3, MeasureInduction

(* The tokens, and the pieces they are found in.                           *)
TokenTypes == {"T_IDENTIFIER", "T_STRING", "no_token"} \cup Marks
IsName(x) == x.type = "T_IDENTIFIER" => NameWord(x.word) /\ x.word \in Seq(STRING)
TokenSet == {x \in [type : TokenTypes, word : Seq(Kept)] : IsName(x)}
IsPiece(t, i, p) == p.tokens \in Seq(TokenSet) /\ p.next \in i + 1 .. Len(t) + 1

LEMMA PieceIs ==
    ASSUME NEW t, NEW i, NEW tokens \in Seq(TokenSet), NEW k \in i + 1 .. Len(t) + 1
    PROVE  IsPiece(t, i, Piece(tokens, k))
BY DEF IsPiece, Piece

LEMMA OneToken ==
    ASSUME NEW x \in TokenSet
    PROVE  <<x>> \in Seq(TokenSet)
OBVIOUS

LEMMA MarkToken == \A c \in Marks \cup {"no_token"} : Mark(c) \in TokenSet
<1>1. SUFFICES ASSUME NEW c \in Marks \cup {"no_token"} PROVE Mark(c) \in TokenSet
  OBVIOUS
<1>2. c \in TokenTypes
  BY DEF TokenTypes
<1>3. <<>> \in Seq(Kept)
  BY EmptySeq
<1>4. c # "T_IDENTIFIER"
  BY DEF Marks
<1>5. Mark(c) \in [type : TokenTypes, word : Seq(Kept)] /\ Mark(c).type = c
  BY <1>2, <1>3 DEF Mark, Token
<1>6. QED
  BY <1>4, <1>5 DEF TokenSet, IsName

LEMMA StringToken == \A w \in Seq(Kept) : String(w) \in TokenSet
<1>1. SUFFICES ASSUME NEW w \in Seq(Kept) PROVE String(w) \in TokenSet
  OBVIOUS
<1>2. "T_STRING" \in TokenTypes
  BY DEF TokenTypes
<1>3. String(w) \in [type : TokenTypes, word : Seq(Kept)] /\ String(w).type = "T_STRING"
  BY <1>2 DEF String, Token
<1>4. QED
  BY <1>3 DEF TokenSet, IsName

LEMMA NameToken ==
    ASSUME NEW w \in Seq(STRING), NameWord(w)
    PROVE  Name(w) \in TokenSet
<1>1. "T_IDENTIFIER" \in TokenTypes
  BY DEF TokenTypes
<1>2. w \in Seq(Kept)
  BY InKept, SeqMonotonic
<1>3. Name(w) \in [type : TokenTypes, word : Seq(Kept)] /\ Name(w).word = w
  BY <1>1, <1>2 DEF Name, Token
<1>4. QED
  BY <1>3 DEF TokenSet, IsName

LEMMA NoPieceIs ==
    ASSUME NEW t, Len(t) \in Nat, NEW i \in 1 .. Len(t)
    PROVE  IsPiece(t, i, NoPiece(t))
<1>1. NoToken \in TokenSet
  BY MarkToken DEF NoToken
<1>2. <<NoToken>> \in Seq(TokenSet) /\ Len(t) + 1 \in i + 1 .. Len(t) + 1
  BY <1>1, OneToken
<1>3. QED
  BY <1>2, PieceIs DEF NoPiece

LEMMA CommentIs ==
    ASSUME NEW t, Len(t) \in Nat, NEW i \in 1 .. Len(t), NEW ends \in SUBSET (i .. Len(t))
    PROVE  IsPiece(t, i, Comment(t, ends))
<1>1. CASE ends = {}
  BY <1>1, NoPieceIs DEF Comment
<1>2. CASE ends # {}
  <2>1. Min(ends) \in ends /\ Min(ends) \in i .. Len(t)
    <3>1. ends \subseteq Nat
      OBVIOUS
    <3>2. QED
      BY <1>2, <3>1, MinExists
  <2>2. Min(ends) + 1 \in i + 1 .. Len(t) + 1
    BY <2>1
  <2>3. <<>> \in Seq(TokenSet)
    BY EmptySeq
  <2>4. Comment(t, ends) = Piece(<<>>, Min(ends) + 1)
    BY <1>2 DEF Comment
  <2> HIDE DEF Comment
  <2>5. QED
    BY <2>2, <2>3, <2>4, PieceIs
<1>3. QED
  BY <1>1, <1>2

(* A name: letters, digits and marks, none of them a dot.                  *)
LEMMA NamesHaveNoDots ==
    ASSUME NEW t \in Seq(STRING), NEW i \in 1 .. Len(t), NEW j \in i .. Len(t),
           \A k \in i .. j : t[k] \in NameChars
    PROVE  LET w == SubSeq(t, i, j) IN
           w \in Seq(STRING) /\ NameWord(w) /\ Name(w) \in TokenSet
<1> DEFINE w == SubSeq(t, i, j)
<1>1. /\ w \in Seq(STRING) /\ Len(w) = j - i + 1
      /\ \A k \in 1 .. j - i + 1 : w[k] = t[i + k - 1]
  <2>1. \A k \in i .. j : t[k] \in STRING
    OBVIOUS
  <2>2. i \in Int /\ j \in Int /\ i <= j
    OBVIOUS
  <2>3. QED
    BY <2>1, <2>2, SubSeqProperties
<1> HIDE DEF w
<1>2. "." \notin NameChars
  BY LcfgAssumption DEF NameChars
<1>3. \A k \in 1 .. Len(w) : w[k] # "."
  <2>1. ASSUME NEW k \in 1 .. Len(w)
        PROVE  w[k] # "."
    <3>1. i + k - 1 \in i .. j /\ w[k] = t[i + k - 1]
      BY <1>1
    <3>2. QED
      BY <3>1, <1>2
  <2>2. QED
    BY <2>1
<1>4. w # <<>>
  BY <1>1, Empty
<1>5. w \in Seq(Chars)
  BY <1>1, SeqMonotonic DEF Chars
<1>6. NameWord(w)
  BY <1>3, <1>4, <1>5 DEF NameWord
<1>7. QED
  BY <1>1, <1>6, NameToken DEF w

LEMMA NamePieceIs ==
    ASSUME NEW t \in Seq(STRING), NEW i \in 1 .. Len(t), t[i] \in Letters
    PROVE  IsPiece(t, i, NamePiece(t, i))
<1> DEFINE ends == NameEnds(t, i)
<1>1. CASE ends = {}
  BY <1>1, NoPieceIs DEF NamePiece
<1>2. CASE ends # {}
  <2>1. ends \subseteq Nat /\ ends \subseteq i .. Len(t)
    BY DEF NameEnds
  <2> DEFINE m == Min(ends)
  <2>2. m \in ends /\ \A j \in ends : m <= j
    BY <1>2, <2>1, MinExists
  <2>3. m \in i .. Len(t) /\ t[m] \notin NameChars
    BY <2>2 DEF NameEnds
  <2>4. t[i] \in NameChars
    BY DEF NameChars
  <2> HIDE DEF m
  <2>5. m \in i + 1 .. Len(t) /\ m - 1 \in i .. Len(t)
    BY <2>3, <2>4
  <2>6. \A k \in i .. m - 1 : t[k] \in NameChars
    <3>1. ASSUME NEW k \in i .. m - 1, k \notin ends
          PROVE  t[k] \in NameChars
      BY <2>5, <3>1 DEF NameEnds
    <3>2. ASSUME NEW k \in i .. m - 1
          PROVE  k \notin ends
      BY <2>2, <2>5
    <3> HIDE DEF ends
    <3>3. QED
      BY <3>1, <3>2
  <2>7. <<Name(SubSeq(t, i, m - 1))>> \in Seq(TokenSet)
    BY <2>5, <2>6, NamesHaveNoDots, OneToken
  <2>8. m \in i + 1 .. Len(t) + 1
    BY <2>5
  <2>9. NamePiece(t, i) = Piece(<<Name(SubSeq(t, i, m - 1))>>, m)
    BY <1>2 DEF NamePiece, m
  <2>10. QED
    BY <2>7, <2>8, <2>9, PieceIs
<1>3. QED
  BY <1>1, <1>2

LEMMA StringPieceIs ==
    ASSUME NEW t \in Seq(STRING), NEW i \in 1 .. Len(t)
    PROVE  IsPiece(t, i, StringPiece(t, i + 1))
<1> DEFINE r == Rests(t)[i + 1]
<1>1. i + 1 \in Positions
  BY DEF Positions
<1>2. r \in Endings /\ Onward(t, r, i + 1)
  BY <1>1, RestsOnward
<1>3. CASE r.next = 0
  <2>1. StringPiece(t, i + 1) = NoPiece(t)
    BY <1>3 DEF StringPiece
  <2>2. QED
    BY <2>1, NoPieceIs
<1>4. CASE r.next # 0
  <2>1. StringPiece(t, i + 1) = Piece(<<String(r.word)>>, r.next)
    BY <1>4 DEF StringPiece
  <2> HIDE DEF r
  <2>2. r.next \in i + 1 .. Len(t) + 1
    BY <1>2, <1>4 DEF Onward
  <2>3. r.word \in Seq(Kept)
    BY <1>2 DEF Endings
  <2>4. <<String(r.word)>> \in Seq(TokenSet)
    BY <2>3, StringToken, OneToken
  <2>5. QED
    BY <2>1, <2>2, <2>4, PieceIs
<1>5. QED
  BY <1>3, <1>4

(* What a character begins.                                                *)
LEMMA Beginnings ==
    /\ \A c \in Spaces : c \notin Marks \cup Letters /\ c # Quote /\ c # "/"
    /\ \A c \in Marks : c \notin Spaces \cup Letters /\ c # Quote /\ c # "/"
    /\ \A c \in Letters : c \notin Spaces \cup Marks /\ c # Quote /\ c # "/"
    /\ Quote # "/"
<1>1. \A c \in Letters : c \notin Spaces \cup Marks \cup {"/", Quote}
  BY LcfgAssumption
<1>2. Quote # "/"
  BY DEF Quote
<1>3. \A c \in Spaces : c \notin Marks
  BY Zenon DEF Spaces, Marks
<1>4. \A c \in Spaces \cup Marks : c # "/"
  BY Zenon DEF Spaces, Marks
<1>5. \A c \in Spaces \cup Marks : c # Quote
  BY Zenon DEF Spaces, Marks, Quote
<1>6. QED
  BY <1>1, <1>2, <1>3, <1>4, <1>5, Zenon

LEMMA Pieces ==
    ASSUME NEW t, NEW i
    PROVE  /\ t[i] \in Spaces => PieceAt(t, i) = Piece(<<>>, i + 1)
           /\ t[i] \in Marks => PieceAt(t, i) = Piece(<<Mark(t[i])>>, i + 1)
           /\ t[i] \in Letters => PieceAt(t, i) = NamePiece(t, i)
           /\ t[i] = Quote => PieceAt(t, i) = StringPiece(t, i + 1)
           /\ t[i] = "/" =>
                /\ i < Len(t) /\ t[i + 1] = "/" =>
                        PieceAt(t, i) = Comment(t, LineEnds(t, i + 2))
                /\ i < Len(t) /\ t[i + 1] = "*" =>
                        PieceAt(t, i) = Comment(t, CommentEnds(t, i + 3))
                /\ ~(i < Len(t) /\ t[i + 1] \in {"/", "*"}) => PieceAt(t, i) = NoPiece(t)
           /\ t[i] \notin Spaces \cup Marks \cup {"/", Quote} \cup Letters =>
                PieceAt(t, i) = NoPiece(t)
<1>1. t[i] \in Spaces => PieceAt(t, i) = Piece(<<>>, i + 1)
  BY Beginnings, Zenon DEF PieceAt
<1>2. t[i] \in Marks => PieceAt(t, i) = Piece(<<Mark(t[i])>>, i + 1)
  BY Beginnings, Zenon DEF PieceAt
<1>3. t[i] \in Letters => PieceAt(t, i) = NamePiece(t, i)
  BY Beginnings, Zenon DEF PieceAt
<1>4. t[i] = Quote => PieceAt(t, i) = StringPiece(t, i + 1)
  BY Beginnings, Zenon DEF PieceAt
<1>5. ASSUME t[i] = "/"
      PROVE  /\ i < Len(t) /\ t[i + 1] = "/" =>
                        PieceAt(t, i) = Comment(t, LineEnds(t, i + 2))
             /\ i < Len(t) /\ t[i + 1] = "*" =>
                        PieceAt(t, i) = Comment(t, CommentEnds(t, i + 3))
             /\ ~(i < Len(t) /\ t[i + 1] \in {"/", "*"}) => PieceAt(t, i) = NoPiece(t)
  <2>1. t[i] \notin Spaces \cup Marks \cup Letters /\ t[i] # Quote
    BY <1>5, Beginnings
  <2>2. "/" # "*"
    OBVIOUS
  <2>3. i < Len(t) /\ t[i + 1] = "/" => PieceAt(t, i) = Comment(t, LineEnds(t, i + 2))
    BY <1>5, <2>1, <2>2, Zenon DEF PieceAt
  <2>4. i < Len(t) /\ t[i + 1] = "*" => PieceAt(t, i) = Comment(t, CommentEnds(t, i + 3))
    BY <1>5, <2>1, <2>2, Zenon DEF PieceAt
  <2>5. ~(i < Len(t) /\ t[i + 1] \in {"/", "*"}) => PieceAt(t, i) = NoPiece(t)
    BY <1>5, <2>1, <2>2, Zenon DEF PieceAt
  <2>6. QED
    BY <2>3, <2>4, <2>5
<1>6. t[i] \notin Spaces \cup Marks \cup {"/", Quote} \cup Letters =>
                PieceAt(t, i) = NoPiece(t)
  BY Zenon DEF PieceAt
<1>7. QED
  BY <1>1, <1>2, <1>3, <1>4, <1>5, <1>6, Zenon

LEMMA PieceAtIs ==
    ASSUME NEW t \in Seq(STRING), NEW i \in 1 .. Len(t)
    PROVE  IsPiece(t, i, PieceAt(t, i))
<1>1. Len(t) \in Nat
  OBVIOUS
<1>2. CASE t[i] \in Spaces
  <2>1. <<>> \in Seq(TokenSet) /\ i + 1 \in i + 1 .. Len(t) + 1
    BY EmptySeq
  <2>2. QED
    BY <1>2, <2>1, Pieces, PieceIs
<1>3. CASE t[i] \in Marks
  <2>1. <<Mark(t[i])>> \in Seq(TokenSet) /\ i + 1 \in i + 1 .. Len(t) + 1
    BY <1>3, MarkToken, OneToken
  <2>2. QED
    BY <1>3, <2>1, Pieces, PieceIs
<1>4. CASE t[i] \in Letters
  BY <1>4, Pieces, NamePieceIs, ZenonT(30)
<1>5. CASE t[i] = Quote
  BY <1>5, Pieces, StringPieceIs, ZenonT(30)
<1>6. CASE t[i] = "/"
  <2>1. /\ LineEnds(t, i + 2) \in SUBSET (i .. Len(t))
        /\ CommentEnds(t, i + 3) \in SUBSET (i .. Len(t))
    BY DEF LineEnds, CommentEnds
  <2>2. PieceAt(t, i) \in {Comment(t, LineEnds(t, i + 2)), Comment(t, CommentEnds(t, i + 3)),
                           NoPiece(t)}
    BY <1>6, Pieces
  <2>3. QED
    BY <1>1, <2>1, <2>2, CommentIs, NoPieceIs
<1>7. CASE t[i] \notin Spaces \cup Marks \cup {"/", Quote} \cup Letters
  BY <1>1, <1>7, Pieces, NoPieceIs
<1>8. QED
  BY <1>2, <1>3, <1>4, <1>5, <1>6, <1>7, Zenon

LEMMA TokensIs ==
    ASSUME NEW t \in Seq(STRING)
    PROVE  \A i \in Positions : /\ TokensFrom(t)[i] = PiecesFrom(t, TokensFrom(t), i)
                                /\ TokensFrom(t)[i] \in Seq(TokenSet)
<1> DEFINE D == Positions
           V == Seq(TokenSet)
           h == [y \in D \X [D -> V] |-> PiecesFrom(t, y[2], y[1])]
<1>1. \A i \in D, f \in [D -> V] : h[<<i, f>>] = PiecesFrom(t, f, i)
  OBVIOUS
<1>2. Len(t) \in Nat /\ ToGo(t) \in [D -> Nat]
  BY ToGoNat
<1>3. ASSUME NEW i \in D, i <= Len(t)
      PROVE  /\ PieceAt(t, i).tokens \in V
             /\ PieceAt(t, i).next \in D
             /\ PieceAt(t, i).next \in Below(D, ToGo(t), ToGo(t)[i])
  <2>1. i \in 1 .. Len(t)
    BY <1>2, <1>3 DEF Positions
  <2>2. PieceAt(t, i).tokens \in V /\ PieceAt(t, i).next \in i + 1 .. Len(t) + 1
    BY <2>1, PieceAtIs DEF IsPiece
  <2>3. PieceAt(t, i).next \in Nat /\ PieceAt(t, i).next > i
    BY <2>1, <2>2
  <2>4. QED
    BY <1>2, <2>1, <2>2, <2>3, ToGoNat DEF Below
<1>4. ASSUME NEW i \in D, NEW f \in [D -> V]
      PROVE  PiecesFrom(t, f, i) \in V
  <2>1. CASE i > Len(t)
    BY <2>1, EmptySeq DEF PiecesFrom
  <2>2. CASE ~(i > Len(t))
    <3>1. i <= Len(t)
      BY <1>2, <2>2 DEF Positions
    <3>2. PieceAt(t, i).tokens \in V /\ f[PieceAt(t, i).next] \in V
      BY <1>3, <3>1
    <3>3. PieceAt(t, i).tokens \o f[PieceAt(t, i).next] \in V
      BY <3>2, ConcatProperties
    <3>4. QED
      BY <2>2, <3>3 DEF PiecesFrom
  <2>3. QED
    BY <2>1, <2>2
<1>5. h \in [D \X [D -> V] -> V]
  BY <1>4
<1>6. ASSUME NEW i \in D, NEW f, NEW g, Same(f, g, Below(D, ToGo(t), ToGo(t)[i]))
      PROVE  PiecesFrom(t, f, i) = PiecesFrom(t, g, i)
  <2>1. CASE i > Len(t)
    BY <2>1 DEF PiecesFrom
  <2>2. CASE ~(i > Len(t))
    <3>1. i <= Len(t)
      BY <1>2, <2>2 DEF Positions
    <3>2. f[PieceAt(t, i).next] = g[PieceAt(t, i).next]
      BY <1>3, <1>6, <3>1 DEF Same
    <3>3. QED
      BY <2>2, <3>2 DEF PiecesFrom
  <2>3. QED
    BY <2>1, <2>2
<1>7. <<>> \in V
  BY EmptySeq
<1> HIDE DEF h
<1>8. UsesSmaller(D, V, ToGo(t), h)
  <2>1. ASSUME NEW i \in D, NEW f \in [D -> V], NEW g \in [D -> V],
               Same(f, g, Below(D, ToGo(t), ToGo(t)[i]))
        PROVE  h[<<i, f>>] = h[<<i, g>>]
    BY <1>1, <1>6, <2>1
  <2>2. QED
    BY <2>1 DEF UsesSmaller
<1>9. PICK f \in [D -> V] : Solution(D, h, f)
  BY <1>2, <1>5, <1>7, <1>8, SolutionExists
<1>10. f = [i \in Nat \ {0} |-> PiecesFrom(t, f, i)]
  BY <1>1, <1>9 DEF Solution, Positions
<1>11. TokensFrom(t) = CHOOSE g : g = [i \in Nat \ {0} |-> PiecesFrom(t, g, i)]
  BY DEF TokensFrom
<1> DEFINE T == TokensFrom(t)
<1>12. T = [i \in Nat \ {0} |-> PiecesFrom(t, T, i)]
  BY <1>10, <1>11
<1> HIDE DEF T
<1>13. \A i \in D : T[i] = PiecesFrom(t, T, i)
  BY <1>12 DEF Positions
<1> DEFINE S == {i \in D : T[i] \in V}
<1>14. ASSUME NEW i \in D, Below(D, ToGo(t), ToGo(t)[i]) \subseteq S
       PROVE  i \in S
  <2>1. CASE i > Len(t)
    BY <1>7, <1>13, <2>1 DEF PiecesFrom
  <2>2. CASE ~(i > Len(t))
    <3>1. i <= Len(t)
      BY <1>2, <2>2 DEF Positions
    <3>2. PieceAt(t, i).tokens \in V /\ T[PieceAt(t, i).next] \in V
      BY <1>3, <1>14, <3>1
    <3>3. PieceAt(t, i).tokens \o T[PieceAt(t, i).next] \in V
      BY <3>2, ConcatProperties
    <3>4. QED
      BY <1>13, <2>2, <3>3 DEF PiecesFrom
  <2>3. QED
    BY <2>1, <2>2
<1>15. Inductive(D, ToGo(t), S)
  BY <1>14 DEF Inductive
<1>16. \A i \in D : i \in S
  BY <1>2, <1>15, MeasureInduction
<1>17. QED
  BY <1>13, <1>16 DEF T

-----------------------------------------------------------------------------
(* What the scanner still has to find: at position i, in state s with the  *)
(* word w and the digit h, the tokens R.                                   *)
Follow(t, p) == p.tokens \o TokensFrom(t)[p.next]
Closed(t, w, r) ==
    IF r.next = 0 THEN <<NoToken>>
    ELSE <<String(w \o r.word)>> \o TokensFrom(t)[r.next]

AfterSlash(t, i, R) ==
    i - 1 \in 1 .. Len(t) /\ t[i - 1] = "/" /\ R = TokensFrom(t)[i - 1]
AfterStar(t, i, R) == t[i - 1] = "*" /\ R = Follow(t, Comment(t, CommentEnds(t, i)))
InName(t, i, w, R) ==
    \E b \in 1 .. i - 1 :
        /\ t[b] \in Letters
        /\ \A k \in b .. i - 1 : t[k] \in NameChars
        /\ w = SubSeq(t, b, i - 1)
        /\ R = Follow(t, NamePiece(t, b))
AfterBackslash(t, i, w, R) ==
    /\ i - 1 \in 1 .. Len(t) /\ t[i - 1] = "\\"
    /\ R = Closed(t, w, Rests(t)[i - 1])
AfterX(t, i, w, R) ==
    /\ i - 2 \in 1 .. Len(t) /\ t[i - 2] = "\\" /\ t[i - 1] = "x"
    /\ R = Closed(t, w, Rests(t)[i - 2])
AfterDigit(t, i, w, h, R) ==
    /\ i - 3 \in 1 .. Len(t) /\ t[i - 3] = "\\" /\ t[i - 2] = "x" /\ t[i - 1] = h
    /\ R = Closed(t, w, Rests(t)[i - 3])

InString == {"in_str", "in_esc", "esc_hex_exp_first", "esc_hex_exp_second"}
Ahead(t, i, s, w, h, R) ==
    /\ s = "start" => R = TokensFrom(t)[i]
    /\ s = "comm_start" => AfterSlash(t, i, R)
    /\ s = "in_oneline" => R = Follow(t, Comment(t, LineEnds(t, i)))
    /\ s = "in_multiline" => R = Follow(t, Comment(t, CommentEnds(t, i + 1)))
    /\ s = "multiline_end" => AfterStar(t, i, R)
    /\ s = "in_identifier" => InName(t, i, w, R)
    /\ s \in InString => w \in Seq(Kept)
    /\ s = "in_str" => R = Closed(t, w, Rests(t)[i])
    /\ s = "in_esc" => AfterBackslash(t, i, w, R)
    /\ s = "esc_hex_exp_first" => AfterX(t, i, w, R)
    /\ s = "esc_hex_exp_second" => AfterDigit(t, i, w, h, R)
    /\ s = "invalid" => R = <<NoToken>>

(* One more character: the same tokens are ahead, or the first was found.  *)
GoesOn(t, j, R) ==
    /\ prepared'.type = "null_token"
    /\ Ahead(t, j, fsm', prepared'.word, hex', R)
HasFound(t, j, R) ==
    /\ prepared'.type # "null_token"
    /\ fsm' = "start"
    /\ R = <<prepared'>> \o TokensFrom(t)[j]
Scanned(t, j, R) == GoesOn(t, j, R) \/ HasFound(t, j, R)

Scanning(t, i, R) ==
    /\ t \in Seq(STRING)
    /\ i \in 1 .. Len(t)
    /\ Words
    /\ prepared.type = "null_token"
    /\ Ahead(t, i, fsm, prepared.word, hex, R)

LEMMA Follows ==
    ASSUME NEW t \in Seq(STRING)
    PROVE  /\ \A i \in 1 .. Len(t) : TokensFrom(t)[i] = Follow(t, PieceAt(t, i))
           /\ TokensFrom(t)[Len(t) + 1] = <<>>
           /\ \A k \in Positions : Follow(t, Piece(<<>>, k)) = TokensFrom(t)[k]
           /\ Follow(t, NoPiece(t)) = <<NoToken>>
<1> DEFINE T == TokensFrom(t)
<1>1. Len(t) \in Nat /\ \A i \in 1 .. Len(t) + 1 : i \in Positions
  BY DEF Positions
<1>2. \A i \in Positions : T[i] = PiecesFrom(t, T, i) /\ T[i] \in Seq(TokenSet)
  BY TokensIs
<1> HIDE DEF T
<1>3. ASSUME NEW i \in 1 .. Len(t)
      PROVE  T[i] = Follow(t, PieceAt(t, i))
  <2>1. ~(i > Len(t)) /\ i \in Positions
    BY <1>1
  <2>2. QED
    BY <1>2, <2>1 DEF PiecesFrom, Follow, T
<1>4. T[Len(t) + 1] = <<>>
  <2>1. Len(t) + 1 \in Positions /\ Len(t) + 1 > Len(t)
    BY <1>1
  <2>2. QED
    BY <1>2, <2>1 DEF PiecesFrom
<1>5. ASSUME NEW k \in Positions
      PROVE  Follow(t, Piece(<<>>, k)) = T[k]
  <2>1. <<>> \o T[k] = T[k]
    BY <1>2, ConcatEmptySeq
  <2>2. QED
    BY <2>1 DEF Follow, Piece, T
<1>6. Follow(t, NoPiece(t)) = <<NoToken>>
  <2>1. NoToken \in TokenSet
    BY MarkToken DEF NoToken
  <2>2. <<NoToken>> \o <<>> = <<NoToken>>
    BY <2>1, OneToken, ConcatEmptySeq
  <2>3. Follow(t, NoPiece(t)) = <<NoToken>> \o T[Len(t) + 1]
    BY DEF Follow, NoPiece, Piece, T
  <2>4. QED
    BY <1>4, <2>2, <2>3
<1>7. QED
  BY <1>3, <1>4, <1>5, <1>6 DEF T

LEMMA Added ==
    ASSUME Words, prepared.type = "null_token", NEW c, NEW s, Adds(c, s)
    PROVE  /\ prepared'.type = "null_token" /\ prepared'.word = Append(prepared.word, c)
           /\ fsm' = s /\ hex' = hex
BY DEF Words, Adds

LEMMA Gone ==
    ASSUME prepared.type = "null_token", NEW s, Goes(s)
    PROVE  /\ prepared'.type = "null_token" /\ prepared'.word = prepared.word
           /\ fsm' = s /\ hex' = hex
BY DEF Goes

LEMMA OneMore ==
    ASSUME NEW t \in Seq(STRING), NEW b \in 1 .. Len(t), NEW i \in b .. Len(t)
    PROVE  SubSeq(t, b, i) = Append(SubSeq(t, b, i - 1), t[i])
<1>1. b \in Int /\ i - 1 \in Int /\ i \in 1 .. Len(t)
  OBVIOUS
<1>2. \A k \in b .. i - 1 : t[k] \in STRING
  OBVIOUS
<1>3. SubSeq(t, b, i - 1) \in Seq(STRING)
  BY <1>1, <1>2, SubSeqProperties
<1>4. SubSeq(t, b, i) = SubSeq(t, b, i - 1) \o <<t[i]>>
  BY SubSeqRecursiveSecond
<1>5. t[i] \in STRING
  BY <1>1
<1>6. QED
  BY <1>3, <1>4, <1>5, AppendIsConcat

LEMMA StartScans ==
    ASSUME NEW t, NEW i, NEW R, Scanning(t, i, R), Start(t[i])
    PROVE  Scanned(t, i + 1, R)
<1> DEFINE c == t[i]
<1>1. /\ t \in Seq(STRING) /\ i \in 1 .. Len(t) /\ prepared.type = "null_token"
      /\ Words /\ fsm = "start" /\ R = TokensFrom(t)[i] /\ prepared.word = <<>>
  BY DEF Scanning, Ahead, Words, Fresh, Start
<1>2. R = Follow(t, PieceAt(t, i)) /\ i + 1 \in Positions /\ i \in Positions
  BY <1>1, Follows DEF Positions
<1>3. CASE c \in Spaces /\ Goes("start")
  <2>1. R = TokensFrom(t)[i + 1]
    BY <1>1, <1>2, <1>3, Pieces, Follows
  <2>2. Ahead(t, i + 1, "start", prepared.word, hex, R)
    BY <2>1 DEF Ahead, InString
  <2>3. QED
    BY <1>1, <1>3, <2>2, Gone DEF Scanned, GoesOn
<1>4. CASE c \in Marks /\ Finds(Mark(c))
  <2>1. R = <<Mark(c)>> \o TokensFrom(t)[i + 1]
    <3>1. PieceAt(t, i) = Piece(<<Mark(c)>>, i + 1)
      BY <1>4, Pieces
    <3>2. QED
      BY <1>2, <3>1 DEF Follow, Piece
  <2>2. c # "null_token"
    BY <1>4 DEF Marks
  <2>3. prepared' = Mark(c) /\ fsm' = "start" /\ Mark(c).type = c
    BY <1>4 DEF Finds, Mark, Token
  <2>4. QED
    BY <2>1, <2>2, <2>3 DEF Scanned, HasFound
<1>5. CASE c = "/" /\ Goes("comm_start")
  <2>1. (i + 1) - 1 = i
    BY <1>1
  <2>2. AfterSlash(t, i + 1, R)
    BY <1>1, <1>5, <2>1 DEF AfterSlash
  <2>3. Ahead(t, i + 1, "comm_start", prepared.word, hex, R)
    BY <2>2 DEF Ahead, InString
  <2>4. QED
    BY <1>1, <1>5, <2>3, Gone DEF Scanned, GoesOn
<1>6. CASE c = Quote /\ Goes("in_str")
  <2> DEFINE r == Rests(t)[i + 1]
  <2>1. r \in Endings
    BY <1>1, <1>2, RestsOnward
  <2>2. PieceAt(t, i) = StringPiece(t, i + 1)
    BY <1>6, Pieces
  <2>3. Follow(t, StringPiece(t, i + 1)) = Closed(t, <<>>, r)
    <3>1. CASE r.next = 0
      <4>1. StringPiece(t, i + 1) = NoPiece(t) /\ Closed(t, <<>>, r) = <<NoToken>>
        BY <3>1 DEF StringPiece, Closed
      <4>2. QED
        BY <1>1, <4>1, Follows
    <3>2. CASE r.next # 0
      <4>1. <<>> \o r.word = r.word
        <5> HIDE DEF r
        <5>1. r.word \in Seq(Kept)
          BY <2>1 DEF Endings
        <5>2. QED
          BY <5>1, ConcatEmptySeq
      <4>2. QED
        BY <3>2, <4>1 DEF StringPiece, Closed, Follow, Piece
    <3>3. QED
      BY <3>1, <3>2
  <2>4. prepared.word \in Seq(Kept)
    BY <1>1, EmptySeq
  <2>5. Ahead(t, i + 1, "in_str", prepared.word, hex, R)
    BY <1>1, <1>2, <2>2, <2>3, <2>4 DEF Ahead, InString
  <2>6. QED
    BY <1>1, <1>6, <2>5, Gone DEF Scanned, GoesOn
<1>7. CASE c \in Letters /\ Adds(c, "in_identifier")
  <2>1. (i + 1) - 1 = i /\ i \in 1 .. i /\ i .. i = {i}
    BY <1>1
  <2>2. Append(prepared.word, c) = SubSeq(t, i, i)
    <3>1. i \in i .. Len(t) /\ i \in Int /\ i - 1 \in Int /\ i - 1 < i
      BY <1>1
    <3>2. SubSeq(t, i, i - 1) = prepared.word
      BY <1>1, <3>1, SubSeqEmpty
    <3>3. QED
      BY <1>1, <3>1, <3>2, OneMore
  <2>3. R = Follow(t, NamePiece(t, i))
    BY <1>2, <1>7, Pieces
  <2>4. c \in NameChars
    BY <1>7 DEF NameChars
  <2>5. InName(t, i + 1, Append(prepared.word, c), R)
    BY <1>1, <1>7, <2>1, <2>2, <2>3, <2>4 DEF InName
  <2>6. Ahead(t, i + 1, "in_identifier", Append(prepared.word, c), hex, R)
    BY <2>5 DEF Ahead, InString
  <2>7. QED
    BY <1>1, <1>7, <2>6, Added DEF Scanned, GoesOn
<1>8. CASE c \notin Spaces \cup Marks \cup {"/", Quote} \cup Letters /\ Goes("invalid")
  <2>1. R = <<NoToken>>
    BY <1>1, <1>2, <1>8, Pieces, Follows
  <2>2. Ahead(t, i + 1, "invalid", prepared.word, hex, R)
    BY <2>1 DEF Ahead, InString
  <2>3. QED
    BY <1>1, <1>8, <2>2, Gone DEF Scanned, GoesOn
<1>9. QED
  BY <1>3, <1>4, <1>5, <1>6, <1>7, <1>8, Zenon DEF Start

LEMMA CommStartScans ==
    ASSUME NEW t, NEW i, NEW R, Scanning(t, i, R), CommStart(t[i])
    PROVE  Scanned(t, i + 1, R)
<1> DEFINE c == t[i]
           j == i - 1
<1>1. /\ t \in Seq(STRING) /\ i \in 1 .. Len(t) /\ prepared.type = "null_token"
      /\ fsm = "comm_start" /\ j \in 1 .. Len(t) /\ t[j] = "/"
      /\ R = TokensFrom(t)[j]
  BY DEF Scanning, Ahead, CommStart, AfterSlash
<1>2. j + 1 = i /\ j < Len(t) /\ j + 2 = i + 1 /\ j + 3 = i + 1 + 1
  BY <1>1
<1> HIDE DEF j
<1>3. R = Follow(t, PieceAt(t, j))
  BY <1>1, Follows
<1>4. CASE c = "/" /\ Goes("in_oneline")
  <2>1. R = Follow(t, Comment(t, LineEnds(t, i + 1)))
    BY <1>1, <1>2, <1>3, <1>4, Pieces
  <2>2. Ahead(t, i + 1, "in_oneline", prepared.word, hex, R)
    BY <2>1 DEF Ahead, InString
  <2>3. QED
    BY <1>1, <1>4, <2>2, Gone DEF Scanned, GoesOn
<1>5. CASE c = "*" /\ Goes("in_multiline")
  <2>1. R = Follow(t, Comment(t, CommentEnds(t, i + 1 + 1)))
    BY <1>1, <1>2, <1>3, <1>5, Pieces
  <2>2. Ahead(t, i + 1, "in_multiline", prepared.word, hex, R)
    BY <2>1 DEF Ahead, InString
  <2>3. QED
    BY <1>1, <1>5, <2>2, Gone DEF Scanned, GoesOn
<1>6. CASE c \notin {"/", "*"} /\ Goes("invalid")
  <2>1. R = <<NoToken>>
    BY <1>1, <1>2, <1>3, <1>6, Pieces, Follows
  <2>2. Ahead(t, i + 1, "invalid", prepared.word, hex, R)
    BY <2>1 DEF Ahead, InString
  <2>3. QED
    BY <1>1, <1>6, <2>2, Gone DEF Scanned, GoesOn
<1>7. QED
  BY <1>4, <1>5, <1>6 DEF CommStart

(* What ends a comment or a name: the first position of a set.             *)
LEMMA MinIs ==
    ASSUME NEW n \in Nat, NEW i \in Nat, NEW ends \in SUBSET (i .. n), i \in ends
    PROVE  ends # {} /\ Min(ends) = i
<1>1. ends \subseteq Nat /\ ends # {}
  OBVIOUS
<1>2. Min(ends) \in ends /\ Min(ends) <= i
  BY <1>1, MinExists
<1>3. Min(ends) \in i .. n
  BY <1>2
<1>4. QED
  BY <1>1, <1>2, <1>3

LEMMA CommentOver ==
    ASSUME NEW t \in Seq(STRING), NEW i \in 1 .. Len(t),
           NEW ends \in SUBSET (i .. Len(t)), i \in ends
    PROVE  Follow(t, Comment(t, ends)) = TokensFrom(t)[i + 1]
<1>1. Len(t) \in Nat /\ i \in Nat /\ i + 1 \in Positions
  BY DEF Positions
<1>2. ends # {} /\ Min(ends) = i
  BY <1>1, MinIs
<1>3. Comment(t, ends) = Piece(<<>>, i + 1)
  BY <1>2 DEF Comment
<1>4. QED
  BY <1>1, <1>3, Follows

LEMMA InCommentScans ==
    ASSUME NEW t, NEW i, NEW R, Scanning(t, i, R), InComment(t[i])
    PROVE  Scanned(t, i + 1, R)
<1> DEFINE c == t[i]
<1>1. /\ t \in Seq(STRING) /\ i \in 1 .. Len(t) /\ prepared.type = "null_token"
      /\ Ahead(t, i, fsm, prepared.word, hex, R)
      /\ Len(t) \in Nat
  BY DEF Scanning
<1>2. ASSUME R = TokensFrom(t)[i + 1], Goes("start")
      PROVE  Scanned(t, i + 1, R)
  <2>1. Ahead(t, i + 1, "start", prepared.word, hex, R)
    BY <1>2 DEF Ahead, InString
  <2>2. QED
    BY <1>1, <1>2, <2>1, Gone DEF Scanned, GoesOn
<1>3. CASE fsm = "in_oneline" /\ Goes(IF c = "\n" THEN "start" ELSE fsm)
  <2>1. R = Follow(t, Comment(t, LineEnds(t, i)))
    BY <1>1, <1>3 DEF Ahead
  <2>2. CASE c = "\n"
    <3>1. i \in LineEnds(t, i) /\ LineEnds(t, i) \in SUBSET (i .. Len(t))
      BY <1>1, <2>2 DEF LineEnds
    <3>2. R = TokensFrom(t)[i + 1]
      BY <1>1, <2>1, <3>1, CommentOver
    <3>3. QED
      BY <1>2, <1>3, <2>2, <3>2
  <2>3. CASE c # "\n"
    <3>1. LineEnds(t, i) = LineEnds(t, i + 1)
      <4>1. \A k \in i .. Len(t) : t[k] = "\n" => k \in i + 1 .. Len(t)
        BY <1>1, <2>3
      <4>2. \A k \in i + 1 .. Len(t) : k \in i .. Len(t)
        BY <1>1
      <4>3. QED
        BY <4>1, <4>2 DEF LineEnds
    <3>2. Ahead(t, i + 1, "in_oneline", prepared.word, hex, R)
      BY <2>1, <3>1 DEF Ahead, InString
    <3>3. QED
      BY <1>1, <1>3, <2>3, <3>2, Gone DEF Scanned, GoesOn
  <2>4. QED
    BY <2>2, <2>3
<1>4. CASE fsm = "in_multiline" /\ Goes(IF c = "*" THEN "multiline_end" ELSE fsm)
  <2>1. R = Follow(t, Comment(t, CommentEnds(t, i + 1)))
    BY <1>1, <1>4 DEF Ahead
  <2>2. CASE c = "*"
    <3>1. t[(i + 1) - 1] = "*"
      BY <1>1, <2>2
    <3>2. AfterStar(t, i + 1, R)
      BY <2>1, <3>1, Zenon DEF AfterStar
    <3>3. Ahead(t, i + 1, "multiline_end", prepared.word, hex, R)
      BY <3>2 DEF Ahead, InString
    <3>4. QED
      BY <1>1, <1>4, <2>2, <3>3, Gone DEF Scanned, GoesOn
  <2>3. CASE c # "*"
    <3>1. CommentEnds(t, i + 1) = CommentEnds(t, i + 1 + 1)
      <4>1. \A k \in i + 1 .. Len(t) : t[k - 1] = "*" => k \in i + 1 + 1 .. Len(t)
        BY <1>1, <2>3
      <4>2. \A k \in i + 1 + 1 .. Len(t) : k \in i + 1 .. Len(t)
        BY <1>1
      <4>3. QED
        BY <4>1, <4>2 DEF CommentEnds
    <3>2. Ahead(t, i + 1, "in_multiline", prepared.word, hex, R)
      BY <2>1, <3>1 DEF Ahead, InString
    <3>3. QED
      BY <1>1, <1>4, <2>3, <3>2, Gone DEF Scanned, GoesOn
  <2>4. QED
    BY <2>2, <2>3
<1>5. CASE fsm = "multiline_end"
  <2>1. t[i - 1] = "*" /\ R = Follow(t, Comment(t, CommentEnds(t, i)))
    BY <1>1, <1>5 DEF Ahead, AfterStar
  <2>2. CASE c = "/" /\ Goes("start")
    <3>1. i \in CommentEnds(t, i) /\ CommentEnds(t, i) \in SUBSET (i .. Len(t))
      BY <1>1, <2>1, <2>2 DEF CommentEnds
    <3>2. R = TokensFrom(t)[i + 1]
      BY <1>1, <2>1, <3>1, CommentOver
    <3>3. QED
      BY <1>2, <2>2, <3>2
  <2>3. ASSUME c # "/"
        PROVE  CommentEnds(t, i) = CommentEnds(t, i + 1)
    <3>1. \A k \in i .. Len(t) : t[k] = "/" => k \in i + 1 .. Len(t)
      BY <1>1, <2>3
    <3>2. \A k \in i + 1 .. Len(t) : k \in i .. Len(t)
      BY <1>1
    <3>3. QED
      BY <3>1, <3>2 DEF CommentEnds
  <2>4. CASE c = "*" /\ Goes(fsm)
    <3>1. t[(i + 1) - 1] = "*"
      BY <1>1, <2>4
    <3>2. c # "/"
      BY <2>4
    <3>3. AfterStar(t, i + 1, R)
      BY <2>1, <2>3, <3>1, <3>2, Zenon DEF AfterStar
    <3>4. Ahead(t, i + 1, "multiline_end", prepared.word, hex, R)
      BY <3>3 DEF Ahead, InString
    <3>5. QED
      BY <1>1, <1>5, <2>4, <3>4, Gone DEF Scanned, GoesOn
  <2>5. CASE c \notin {"/", "*"} /\ Goes("in_multiline")
    <3>1. CommentEnds(t, i + 1) = CommentEnds(t, i + 1 + 1)
      <4>1. \A k \in i + 1 .. Len(t) : t[k - 1] = "*" => k \in i + 1 + 1 .. Len(t)
        BY <1>1, <2>5
      <4>2. \A k \in i + 1 + 1 .. Len(t) : k \in i + 1 .. Len(t)
        BY <1>1
      <4>3. QED
        BY <4>1, <4>2 DEF CommentEnds
    <3>2. Ahead(t, i + 1, "in_multiline", prepared.word, hex, R)
      BY <2>1, <2>3, <2>5, <3>1 DEF Ahead, InString
    <3>3. QED
      BY <1>1, <2>5, <3>2, Gone DEF Scanned, GoesOn
  <2>6. QED
    BY <1>5, <2>2, <2>4, <2>5 DEF InComment
<1>6. QED
  BY <1>3, <1>4, <1>5 DEF InComment

LEMMA InIdentifierScans ==
    ASSUME NEW t, NEW i, NEW R, Scanning(t, i, R), InIdentifier(t[i])
    PROVE  Scanned(t, IF EndsName(t[i]) THEN i ELSE i + 1, R)
<1> DEFINE c == t[i]
           w == prepared.word
<1>1. /\ t \in Seq(STRING) /\ i \in 1 .. Len(t) /\ prepared.type = "null_token"
      /\ Ahead(t, i, fsm, w, hex, R) /\ fsm = "in_identifier"
      /\ Len(t) \in Nat /\ Words
  BY DEF Scanning, InIdentifier, EndsName
<1>2. PICK b \in 1 .. i - 1 :
            /\ t[b] \in Letters
            /\ \A k \in b .. i - 1 : t[k] \in NameChars
            /\ w = SubSeq(t, b, i - 1)
            /\ R = Follow(t, NamePiece(t, b))
  <2>1. InName(t, i, w, R)
    BY <1>1 DEF Ahead
  <2> HIDE DEF w
  <2>2. QED
    BY <2>1, Zenon DEF InName
<1>3. i - 1 + 1 = i /\ b \in 1 .. Len(t) /\ i \in b .. Len(t) /\ b \in 1 .. i
  BY <1>1, <1>2
<1>4. CASE ~EndsName(c) /\ Adds(c, fsm)
  <2>1. c \in NameChars
    BY <1>1, <1>4 DEF EndsName, NameChars
  <2>2. (i + 1) - 1 = i
    BY <1>1
  <2>3. Append(w, c) = SubSeq(t, b, i)
    BY <1>1, <1>2, <1>3, OneMore
  <2>4. \A k \in b .. i : t[k] \in NameChars
    <3>1. \A k \in b .. i : k \in b .. i - 1 \/ k = i
      BY <1>1, <1>2
    <3>2. QED
      BY <1>2, <2>1, <3>1
  <2>5. InName(t, i + 1, Append(w, c), R)
    BY <1>2, <1>3, <2>2, <2>3, <2>4 DEF InName
  <2>6. Ahead(t, i + 1, "in_identifier", Append(w, c), hex, R)
    BY <2>5 DEF Ahead, InString
  <2>7. Scanned(t, i + 1, R)
    BY <1>1, <1>4, <2>6, Added DEF Scanned, GoesOn
  <2>8. QED
    BY <1>4, <2>7
<1>5. CASE EndsName(c) /\ Finds(Name(prepared.word))
  <2>1. c \notin NameChars
    BY <1>5 DEF EndsName, NameChars
  <2>2. \A k \in NameEnds(t, b) : k \in i .. Len(t)
    <3>1. ASSUME NEW k \in b .. Len(t), t[k] \notin NameChars
          PROVE  k \in i .. Len(t)
      <4>1. k \notin b .. i - 1
        BY <1>2, <3>1
      <4>2. QED
        BY <1>1, <1>3, <4>1
    <3>2. QED
      BY <3>1 DEF NameEnds
  <2>3. i \in NameEnds(t, b)
    BY <1>3, <2>1 DEF NameEnds
  <2>4. NameEnds(t, b) # {} /\ Min(NameEnds(t, b)) = i
    <3> DEFINE ends == NameEnds(t, b)
    <3>1. (\A k \in ends : k \in i .. Len(t)) /\ i \in ends /\ i \in Nat
      BY <1>1, <2>2, <2>3
    <3> HIDE DEF ends
    <3>2. ends \in SUBSET (i .. Len(t))
      BY <3>1
    <3>3. ends # {} /\ Min(ends) = i
      BY <1>1, <3>1, <3>2, MinIs
    <3>4. QED
      BY <3>3 DEF ends
  <2>5. NamePiece(t, b) = Piece(<<Name(w)>>, i)
    BY <1>2, <2>4 DEF NamePiece
  <2>6. R = <<Name(w)>> \o TokensFrom(t)[i]
    BY <1>2, <2>5 DEF Follow, Piece
  <2>7. prepared' = Name(w) /\ fsm' = "start" /\ Name(w).type = "T_IDENTIFIER"
    BY <1>5 DEF Finds, Name, Token
  <2>8. Scanned(t, i, R)
    BY <2>6, <2>7 DEF Scanned, HasFound
  <2>9. QED
    BY <1>5, <2>8
<1>6. QED
  BY <1>1, <1>4, <1>5 DEF InIdentifier

(* The rest of a string at each of its characters.                         *)
LEMMA Unfolded ==
    ASSUME NEW t \in Seq(STRING), NEW i \in 1 .. Len(t)
    PROVE  LET S == Rests(t) IN
           /\ t[i] = Quote => S[i] = Ending(i + 1)
           /\ t[i] \notin {Quote, "\\"} => S[i] = Put(t[i], S[i + 1])
           /\ t[i] = "\\" =>
                /\ i = Len(t) => S[i] = Ending(0)
                /\ i < Len(t) /\ t[i + 1] \in DOMAIN Escapes =>
                        S[i] = Put(Escapes[t[i + 1]], S[i + 2])
                /\ i < Len(t) /\ t[i + 1] = "x" /\ i + 3 <= Len(t) =>
                        S[i] = Put(HexValue(t[i + 2], t[i + 3]), S[i + 4])
                /\ i < Len(t) /\ t[i + 1] = "x" /\ ~(i + 3 <= Len(t)) => S[i] = Ending(0)
                /\ i < Len(t) /\ t[i + 1] \notin DOMAIN Escapes \cup {"x"} => S[i] = Ending(0)
<1> DEFINE S == Rests(t)
<1>1. S[i] = RestOf(t, S, i)
  BY RestsIs
<1>2. Len(t) \in Nat /\ i <= Len(t) /\ ~(i > Len(t)) /\ Quote # "\\"
  BY DEF Quote
<1>3. i < Len(t) \/ i = Len(t)
  BY <1>2
<1>4. ~(i < Len(t) /\ i = Len(t))
  BY <1>2
<1> HIDE DEF S
<1>5. t[i] = Quote => S[i] = Ending(i + 1)
  BY <1>1, <1>2, Zenon DEF RestOf
<1>6. t[i] \notin {Quote, "\\"} => S[i] = Put(t[i], S[i + 1])
  BY <1>1, <1>2, Zenon DEF RestOf
<1>7. t[i] = "\\" /\ i = Len(t) => S[i] = Ending(0)
  BY <1>1, <1>2, <1>4, Zenon DEF RestOf
<1>8. t[i] = "\\" /\ i < Len(t) => S[i] = Escaped(t, S, i)
  BY <1>1, <1>2, Zenon DEF RestOf
<1>9. t[i + 1] \in DOMAIN Escapes => Escaped(t, S, i) = Put(Escapes[t[i + 1]], S[i + 2])
  BY EscapesApart, Zenon DEF Escaped
<1>10. t[i + 1] = "x" /\ i + 3 <= Len(t) =>
            Escaped(t, S, i) = Put(HexValue(t[i + 2], t[i + 3]), S[i + 4])
  BY EscapesApart, Zenon DEF Escaped
<1>11. t[i + 1] = "x" /\ ~(i + 3 <= Len(t)) => Escaped(t, S, i) = Ending(0)
  BY EscapesApart, Zenon DEF Escaped
<1>12. t[i + 1] \notin DOMAIN Escapes \cup {"x"} => Escaped(t, S, i) = Ending(0)
  BY Zenon DEF Escaped
<1>13. QED
  BY <1>5, <1>6, <1>7, <1>8, <1>9, <1>10, <1>11, <1>12 DEF S

LEMMA ClosedAfter ==
    ASSUME NEW t, NEW w \in Seq(Kept)
    PROVE  /\ Closed(t, w, Ending(0)) = <<NoToken>>
           /\ \A k \in Positions :
                Closed(t, w, Ending(k)) = <<String(w)>> \o TokensFrom(t)[k]
           /\ \A c \in Kept, r \in Endings :
                Closed(t, w, Put(c, r)) = Closed(t, Append(w, c), r)
<1>1. Closed(t, w, Ending(0)) = <<NoToken>>
  BY DEF Closed, Ending
<1>2. ASSUME NEW k \in Positions
      PROVE  Closed(t, w, Ending(k)) = <<String(w)>> \o TokensFrom(t)[k]
  <2>1. w \o <<>> = w
    BY ConcatEmptySeq
  <2>2. k # 0
    BY DEF Positions
  <2>3. QED
    BY <2>1, <2>2 DEF Closed, Ending
<1>3. ASSUME NEW c \in Kept, NEW r \in Endings
      PROVE  Closed(t, w, Put(c, r)) = Closed(t, Append(w, c), r)
  <2> DEFINE one == <<c>>
             rest == r.word
  <2>1. rest \in Seq(Kept) /\ one \in Seq(Kept)
    BY DEF Endings
  <2>2. w \o (one \o rest) = (w \o one) \o rest
    <3> HIDE DEF one, rest
    <3>1. \A a, b \in Seq(Kept) : w \o (a \o b) = (w \o a) \o b
      BY ConcatAssociative, SMTT(20)
    <3>2. QED
      BY <2>1, <3>1, Zenon
  <2>3. Append(w, c) = w \o <<c>>
    BY AppendIsConcat
  <2>4. QED
    BY <2>2, <2>3 DEF Closed, Put
<1>4. QED
  BY <1>1, <1>2, <1>3

LEMMA AddsScanned ==
    ASSUME NEW t, NEW i, NEW R, Scanning(t, i, R), prepared.word \in Seq(Kept),
           NEW c \in Kept, Adds(c, "in_str"),
           R = Closed(t, prepared.word, Put(c, Rests(t)[i + 1]))
    PROVE  Scanned(t, i + 1, R)
<1>1. t \in Seq(STRING) /\ i + 1 \in Positions
  BY DEF Scanning, Positions
<1>2. Rests(t)[i + 1] \in Endings
  BY <1>1, RestsOnward
<1> DEFINE w == Append(prepared.word, c)
<1>3. w \in Seq(Kept)
  OBVIOUS
<1>4. R = Closed(t, w, Rests(t)[i + 1])
  BY <1>2, ClosedAfter
<1> HIDE DEF w
<1>5. Ahead(t, i + 1, "in_str", w, hex, R)
  BY <1>3, <1>4 DEF Ahead, InString
<1>6. prepared'.type = "null_token" /\ prepared'.word = w /\ fsm' = "in_str" /\ hex' = hex
  BY Added DEF Scanning, w
<1>7. QED
  BY <1>5, <1>6 DEF Scanned, GoesOn

LEMMA InStrScans ==
    ASSUME NEW t, NEW i, NEW R, Scanning(t, i, R), InStr(t[i])
    PROVE  Scanned(t, i + 1, R)
<1> DEFINE c == t[i]
           w == prepared.word
<1>1. /\ t \in Seq(STRING) /\ i \in 1 .. Len(t) /\ prepared.type = "null_token"
      /\ fsm = "in_str" /\ w \in Seq(Kept) /\ R = Closed(t, w, Rests(t)[i])
  BY DEF Scanning, Ahead, InStr, InString
<1>2. i + 1 \in Positions
  BY <1>1 DEF Positions
<1>3. CASE c = Quote /\ Finds(String(w))
  <2>1. Rests(t)[i] = Ending(i + 1)
    BY <1>1, <1>3, Unfolded
  <2>2. R = <<String(w)>> \o TokensFrom(t)[i + 1]
    BY <1>1, <1>2, <2>1, ClosedAfter
  <2>3. prepared' = String(w) /\ fsm' = "start" /\ String(w).type = "T_STRING"
    BY <1>3 DEF Finds, String, Token
  <2>4. QED
    BY <2>2, <2>3 DEF Scanned, HasFound
<1>4. CASE c = "\\" /\ Goes("in_esc")
  <2>1. (i + 1) - 1 = i
    BY <1>1
  <2>2. AfterBackslash(t, i + 1, w, R)
    BY <1>1, <1>4, <2>1 DEF AfterBackslash
  <2>3. Ahead(t, i + 1, "in_esc", w, hex, R)
    BY <1>1, <2>2 DEF Ahead, InString
  <2>4. QED
    BY <1>1, <1>4, <2>3, Gone DEF Scanned, GoesOn
<1>5. CASE c \notin {Quote, "\\"} /\ Adds(c, fsm)
  <2>1. Rests(t)[i] = Put(c, Rests(t)[i + 1])
    BY <1>1, <1>5, Unfolded
  <2>2. c \in Kept
    <3>1. c \in STRING
      BY <1>1
    <3>2. QED
      BY <3>1, InKept
  <2>3. QED
    BY <1>1, <1>5, <2>1, <2>2, AddsScanned
<1>6. QED
  BY <1>3, <1>4, <1>5 DEF InStr

LEMMA InEscScans ==
    ASSUME NEW t, NEW i, NEW R, Scanning(t, i, R), InEsc(t[i])
    PROVE  Scanned(t, i + 1, R)
<1> DEFINE c == t[i]
           w == prepared.word
           j == i - 1
<1>1. /\ t \in Seq(STRING) /\ i \in 1 .. Len(t) /\ prepared.type = "null_token"
      /\ fsm = "in_esc" /\ w \in Seq(Kept) /\ AfterBackslash(t, i, w, R)
  BY DEF Scanning, Ahead, InEsc, InString
<1>2. j \in 1 .. Len(t) /\ t[j] = "\\" /\ R = Closed(t, w, Rests(t)[j])
  BY <1>1 DEF AfterBackslash
<1>3. j + 1 = i /\ j < Len(t) /\ j + 2 = i + 1 /\ (i + 1) - 1 = i /\ (i + 1) - 2 = j
  BY <1>1
<1> HIDE DEF j
<1>4. CASE c \in DOMAIN Escapes /\ Adds(Escapes[c], "in_str")
  <2>1. Rests(t)[j] = Put(Escapes[c], Rests(t)[i + 1])
    BY <1>1, <1>2, <1>3, <1>4, Unfolded
  <2>2. Escapes[c] \in Kept
    BY <1>4, InKept
  <2>3. QED
    BY <1>1, <1>2, <1>4, <2>1, <2>2, AddsScanned
<1>5. CASE c = "x" /\ Goes("esc_hex_exp_first")
  <2>1. AfterX(t, i + 1, w, R)
    BY <1>1, <1>2, <1>3, <1>5 DEF AfterX
  <2>2. Ahead(t, i + 1, "esc_hex_exp_first", w, hex, R)
    BY <1>1, <2>1 DEF Ahead, InString
  <2>3. QED
    BY <1>1, <1>5, <2>2, Gone DEF Scanned, GoesOn
<1>6. CASE c \notin DOMAIN Escapes \cup {"x"} /\ Goes("invalid")
  <2>1. Rests(t)[j] = Ending(0)
    BY <1>1, <1>2, <1>3, <1>6, Unfolded
  <2>2. R = Closed(t, w, Ending(0))
    BY <1>2, <2>1
  <2>3. R = <<NoToken>>
    BY <1>1, <2>2, ClosedAfter
  <2>4. Ahead(t, i + 1, "invalid", w, hex, R)
    BY <2>3 DEF Ahead, InString
  <2>5. QED
    BY <1>1, <1>6, <2>4, Gone DEF Scanned, GoesOn
<1>7. QED
  BY <1>4, <1>5, <1>6 DEF InEsc

LEMMA InHexScans ==
    ASSUME NEW t, NEW i, NEW R, Scanning(t, i, R), InHex(t[i])
    PROVE  Scanned(t, i + 1, R)
<1> DEFINE c == t[i]
           w == prepared.word
<1>1. /\ t \in Seq(STRING) /\ i \in 1 .. Len(t) /\ prepared.type = "null_token"
      /\ Ahead(t, i, fsm, w, hex, R)
  BY DEF Scanning
<1>2. CASE /\ fsm = "esc_hex_exp_first" /\ fsm' = "esc_hex_exp_second"
           /\ hex' = c /\ UNCHANGED prepared
  <2>1. w \in Seq(Kept) /\ AfterX(t, i, w, R)
    BY <1>1, <1>2 DEF Ahead, InString
  <2>2. (i + 1) - 3 = i - 2 /\ (i + 1) - 2 = i - 1 /\ (i + 1) - 1 = i
    BY <1>1
  <2>3. AfterDigit(t, i + 1, w, c, R)
    BY <2>1, <2>2 DEF AfterX, AfterDigit
  <2>4. Ahead(t, i + 1, "esc_hex_exp_second", w, c, R)
    BY <2>1, <2>3 DEF Ahead, InString
  <2>5. QED
    BY <1>1, <1>2, <2>4 DEF Scanned, GoesOn
<1>3. CASE fsm = "esc_hex_exp_second" /\ Adds(HexValue(hex, c), "in_str")
  <2> DEFINE j == i - 3
  <2>1. w \in Seq(Kept) /\ AfterDigit(t, i, w, hex, R)
    BY <1>1, <1>3 DEF Ahead, InString
  <2>2. /\ j + 1 = i - 2 /\ j + 2 = i - 1 /\ j + 3 = i /\ j + 4 = i + 1
        /\ j < Len(t) /\ j + 3 <= Len(t)
    BY <1>1
  <2>3. /\ j \in 1 .. Len(t) /\ t[j] = "\\" /\ t[j + 1] = "x" /\ t[j + 2] = hex
        /\ R = Closed(t, w, Rests(t)[j])
    BY <2>1, <2>2 DEF AfterDigit
  <2> HIDE DEF j
  <2>4. Rests(t)[j] = Put(HexValue(hex, c), Rests(t)[i + 1])
    BY <1>1, <2>2, <2>3, Unfolded
  <2>5. HexValue(hex, c) \in Kept
    <3>1. j + 2 \in 1 .. Len(t)
      BY <1>1, <2>2, <2>3
    <3>2. hex \in STRING /\ c \in STRING
      BY <1>1, <2>3, <3>1
    <3>3. QED
      BY <3>2, InKept
  <2>6. QED
    BY <1>3, <2>1, <2>3, <2>4, <2>5, AddsScanned
<1>4. QED
  BY <1>2, <1>3 DEF InHex

LEMMA CharScans ==
    ASSUME NEW t, NEW i, NEW R, Scanning(t, i, R),
           LET c == t[i] IN
           Start(c) \/ CommStart(c) \/ InComment(c) \/ InIdentifier(c) \/ InStr(c)
             \/ InEsc(c) \/ InHex(c)
    PROVE  Scanned(t, IF EndsName(t[i]) THEN i ELSE i + 1, R)
<1>1. Start(t[i]) \/ CommStart(t[i]) \/ InComment(t[i]) \/ InStr(t[i]) \/ InEsc(t[i])
        \/ InHex(t[i]) => ~EndsName(t[i])
  BY DEF Start, CommStart, InComment, InStr, InEsc, InHex, EndsName
<1>2. QED
  BY <1>1, StartScans, CommStartScans, InCommentScans, InIdentifierScans, InStrScans,
     InEscScans, InHexScans

(* At the end of the text nothing is ahead, or what is no token.           *)
LEMMA EndScans ==
    ASSUME NEW t \in Seq(STRING), NEW s \in Fsm, NEW w, NEW h, NEW R,
           Ahead(t, Len(t) + 1, s, w, h, R)
    PROVE  R = IF s = "start" THEN <<>> ELSE <<NoToken>>
<1> DEFINE n == Len(t)
<1>1. n \in Nat /\ (n + 1) - 1 = n /\ (n + 1) - 2 = n - 1 /\ (n + 1) - 3 = n - 2
      /\ n + 1 \in Positions
  BY DEF Positions
<1>2. CASE s = "start"
  BY <1>2, Follows DEF Ahead
<1>3. CASE s = "comm_start"
  <2>1. n \in 1 .. n /\ t[n] = "/" /\ R = TokensFrom(t)[n]
    BY <1>1, <1>3 DEF Ahead, AfterSlash
  <2>2. ~(n < Len(t))
    BY <1>1
  <2>3. PieceAt(t, n) = NoPiece(t)
    BY <2>1, <2>2, Pieces
  <2>4. QED
    BY <1>3, <2>1, <2>3, Follows
<1>4. ASSUME NEW ends, R = Follow(t, Comment(t, ends)), ends = {}
      PROVE  R = <<NoToken>>
  BY <1>4, Follows DEF Comment
<1>5. LineEnds(t, n + 1) = {} /\ CommentEnds(t, n + 1) = {} /\ CommentEnds(t, (n + 1) + 1) = {}
  BY <1>1 DEF LineEnds, CommentEnds
<1>6. CASE s = "in_oneline"
  BY <1>4, <1>5, <1>6 DEF Ahead
<1>7. CASE s = "in_multiline"
  BY <1>4, <1>5, <1>7 DEF Ahead
<1>8. CASE s = "multiline_end"
  BY <1>4, <1>5, <1>8 DEF Ahead, AfterStar
<1>9. CASE s = "in_identifier"
  <2>1. InName(t, n + 1, w, R)
    BY <1>9 DEF Ahead
  <2>2. PICK b \in 1 .. (n + 1) - 1 :
            /\ \A k \in b .. (n + 1) - 1 : t[k] \in NameChars
            /\ R = Follow(t, NamePiece(t, b))
    BY <2>1 DEF InName
  <2>3. NameEnds(t, b) = {}
    BY <1>1, <2>2 DEF NameEnds
  <2>4. NamePiece(t, b) = NoPiece(t)
    BY <2>3 DEF NamePiece
  <2>5. QED
    BY <1>9, <2>2, <2>4, Follows
<1>10. ASSUME NEW j, w \in Seq(Kept), R = Closed(t, w, Rests(t)[j]), Rests(t)[j] = Ending(0)
       PROVE  R = <<NoToken>>
  BY <1>10, ClosedAfter
<1>11. CASE s = "in_str"
  <2>1. w \in Seq(Kept) /\ R = Closed(t, w, Rests(t)[n + 1])
    BY <1>11 DEF Ahead, InString
  <2>2. Rests(t)[n + 1] = Ending(0)
    <3>1. ~(n + 1 <= Len(t))
      BY <1>1
    <3>2. QED
      BY <1>1, <3>1, RestsIs, RestShapes DEF Positions
  <2>3. QED
    BY <1>10, <1>11, <2>1, <2>2
<1>12. CASE s = "in_esc"
  <2>1. w \in Seq(Kept) /\ AfterBackslash(t, n + 1, w, R)
    BY <1>12 DEF Ahead, InString
  <2>2. n \in 1 .. Len(t) /\ t[n] = "\\" /\ R = Closed(t, w, Rests(t)[n])
    BY <1>1, <2>1 DEF AfterBackslash
  <2>3. Rests(t)[n] = Ending(0)
    BY <2>2, Unfolded
  <2>4. QED
    BY <1>10, <1>12, <2>1, <2>2, <2>3
<1>13. CASE s = "esc_hex_exp_first"
  <2>1. w \in Seq(Kept) /\ AfterX(t, n + 1, w, R)
    BY <1>13 DEF Ahead, InString
  <2> DEFINE j == n - 1
  <2>2. j + 1 = n /\ j < Len(t) /\ ~(j + 3 <= Len(t))
    BY <1>1
  <2>3. j \in 1 .. Len(t) /\ t[j] = "\\" /\ t[j + 1] = "x" /\ R = Closed(t, w, Rests(t)[j])
    BY <1>1, <2>1, <2>2 DEF AfterX
  <2> HIDE DEF j
  <2>4. Rests(t)[j] = Ending(0)
    BY <2>2, <2>3, Unfolded
  <2>5. QED
    BY <1>10, <1>13, <2>1, <2>3, <2>4
<1>14. CASE s = "esc_hex_exp_second"
  <2>1. w \in Seq(Kept) /\ AfterDigit(t, n + 1, w, h, R)
    BY <1>14 DEF Ahead, InString
  <2> DEFINE j == n - 2
  <2>2. j + 1 = n - 1 /\ j < Len(t) /\ ~(j + 3 <= Len(t))
    BY <1>1
  <2>3. j \in 1 .. Len(t) /\ t[j] = "\\" /\ t[j + 1] = "x" /\ R = Closed(t, w, Rests(t)[j])
    BY <1>1, <2>1, <2>2 DEF AfterDigit
  <2> HIDE DEF j
  <2>4. Rests(t)[j] = Ending(0)
    BY <2>2, <2>3, Unfolded
  <2>5. QED
    BY <1>10, <1>14, <2>1, <2>3, <2>4
<1>15. CASE s = "invalid"
  BY <1>15 DEF Ahead
<1>16. QED
  BY <1>2, <1>3, <1>6, <1>7, <1>8, <1>9, <1>11, <1>12, <1>13, <1>14, <1>15 DEF Fsm

-----------------------------------------------------------------------------
(* How far a file is read: m of its tokens were handled, then the current  *)
(* one and the prepared one, and what is ahead are the others.             *)
Count(x) == IF x.type = "null_token" THEN 0 ELSE 1
Beyond(T, n) == SubSeq(T, n + 1, Len(T))
Taken(m) == m + Count(token) + Count(prepared)

OnTop(st) ==
    /\ st[1].s = "top_level" => st[1] = Element("top_level")
    /\ \A l \in 2 .. Len(st) : st[l].s # "top_level"
Tops == OnTop(stack)

Halfway(t, T, m) ==
    /\ text = t
    /\ m \in Nat /\ Taken(m) <= Len(T)
    /\ token # Null => Count(token) = 1 /\ token = T[m + 1]
    /\ Count(prepared) = 1 => prepared = T[Taken(m)] /\ fsm = "start"
    /\ status = "parsing" /\ Count(prepared) = 0 => Taken(m) = Len(T)
    /\ Ahead(t, Position + 1, fsm, prepared.word, hex, Beyond(T, Taken(m)))
    /\ Tops
    /\ WellFormed(T) <=> Completable(T, stack, m + 1)

OfText(t, T) == t \in Seq(STRING) /\ T = Tokens(t)

LEMMA TokensTyped ==
    ASSUME NEW t, NEW T, OfText(t, T)
    PROVE  /\ T \in Seq(TokenSet) /\ Len(T) \in Nat
           /\ T = TokensFrom(t)[1] /\ Beyond(T, 0) = T
           /\ \A n \in 1 .. Len(T) : T[n].type # "null_token"
<1>1. 1 \in Positions
  BY DEF Positions
<1>2. T \in Seq(TokenSet) /\ T = TokensFrom(t)[1]
  BY <1>1, TokensIs DEF OfText, Tokens
<1>3. Beyond(T, 0) = T
  <2>1. 0 + 1 = 1
    OBVIOUS
  <2>2. QED
    BY <1>2, <2>1, SubSeqFull DEF Beyond
<1>4. \A x \in TokenSet : x.type # "null_token"
  BY Zenon DEF TokenSet, TokenTypes, Marks
<1>5. QED
  BY <1>2, <1>3, <1>4

LEMMA BeyondIs ==
    ASSUME NEW S, NEW T \in Seq(S), NEW n \in Nat
    PROVE  /\ Beyond(T, n) \in Seq(S)
           /\ Len(Beyond(T, n)) = IF n + 1 <= Len(T) THEN Len(T) - (n + 1) + 1 ELSE 0
           /\ \A i \in 1 .. Len(T) - (n + 1) + 1 :
                Beyond(T, n)[i] = T[(n + 1) + i - 1]
<1>1. PICK m \in Int : m = n + 1
  OBVIOUS
<1>2. PICK k \in Int : k = Len(T)
  OBVIOUS
<1>3. \A i \in m .. k : T[i] \in S
  BY <1>1, <1>2
<1>4. /\ SubSeq(T, m, k) \in Seq(S)
      /\ Len(SubSeq(T, m, k)) = IF m <= k THEN k - m + 1 ELSE 0
      /\ \A i \in 1 .. k - m + 1 : SubSeq(T, m, k)[i] = T[m + i - 1]
  BY <1>3, SubSeqProperties
<1>5. SubSeq(T, m, k) = Beyond(T, n)
  BY <1>1, <1>2 DEF Beyond
<1>6. PICK B : B = Beyond(T, n)
  OBVIOUS
<1>7. /\ B \in Seq(S)
      /\ Len(B) = IF m <= k THEN k - m + 1 ELSE 0
      /\ \A i \in 1 .. k - m + 1 : B[i] = T[m + i - 1]
  BY <1>4, <1>5, <1>6, Zenon
<1>8. QED
  BY <1>1, <1>2, <1>6, <1>7

LEMMA FirstBeyond ==
    ASSUME NEW T \in Seq(TokenSet), NEW n \in 0 .. Len(T), NEW x, NEW Y \in Seq(TokenSet),
           x \in TokenSet, Beyond(T, n) = <<x>> \o Y
    PROVE  n + 1 <= Len(T) /\ T[n + 1] = x /\ Y = Beyond(T, n + 1)
<1> DEFINE B == Beyond(T, n)
           one == <<x>>
<1>1. Len(T) \in Nat /\ n + 1 \in Int /\ \A i \in n + 1 .. Len(T) : T[i] \in TokenSet
  OBVIOUS
<1>2. /\ B \in Seq(TokenSet)
      /\ Len(B) = IF n + 1 <= Len(T) THEN Len(T) - (n + 1) + 1 ELSE 0
      /\ \A i \in 1 .. Len(T) - (n + 1) + 1 : B[i] = T[(n + 1) + i - 1]
  <2>1. n \in Nat
    OBVIOUS
  <2> HIDE DEF B
  <2>2. PICK b : b = Beyond(T, n)
    OBVIOUS
  <2>3. /\ b \in Seq(TokenSet)
        /\ Len(b) = IF n + 1 <= Len(T) THEN Len(T) - (n + 1) + 1 ELSE 0
        /\ \A i \in 1 .. Len(T) - (n + 1) + 1 : b[i] = T[(n + 1) + i - 1]
    BY <2>1, <2>2, BeyondIs
  <2>4. QED
    BY <2>2, <2>3 DEF B
<1>3. one \in Seq(TokenSet) /\ Len(one) = 1 /\ one[1] = x
  OBVIOUS
<1>4. B = one \o Y
  OBVIOUS
<1> HIDE DEF B, one
<1>5. /\ Len(B) = 1 + Len(Y) /\ B[1] = x /\ Len(Y) \in Nat
      /\ \A i \in 1 .. 1 + Len(Y) : B[i] = IF i <= 1 THEN one[i] ELSE Y[i - 1]
  <2>1. /\ Len(one \o Y) = Len(one) + Len(Y)
        /\ \A i \in 1 .. Len(one) + Len(Y) :
                (one \o Y)[i] = IF i <= Len(one) THEN one[i] ELSE Y[i - Len(one)]
    BY <1>3, ConcatProperties
  <2>2. Len(Y) \in Nat
    OBVIOUS
  <2>3. /\ Len(B) = 1 + Len(Y)
        /\ \A i \in 1 .. 1 + Len(Y) : B[i] = IF i <= 1 THEN one[i] ELSE Y[i - 1]
    BY <2>1, <1>3, <1>4
  <2>4. B[1] = x
    BY <1>3, <2>2, <2>3
  <2>5. QED
    BY <2>2, <2>3, <2>4
<1>6. n + 1 <= Len(T) /\ Len(Y) = Len(T) - (n + 1)
  BY <1>1, <1>2, <1>5
<1>7. T[n + 1] = x
  BY <1>1, <1>2, <1>5, <1>6
<1> DEFINE Z == Beyond(T, n + 1)
<1>8. /\ Z \in Seq(TokenSet)
      /\ Len(Z) = Len(T) - (n + 1)
      /\ \A i \in 1 .. Len(T) - (n + 1) : Z[i] = T[(n + 1) + i]
  <2> HIDE DEF Z
  <2>1. PICK k \in Nat : k = n + 1
    OBVIOUS
  <2>2. /\ Z \in Seq(TokenSet)
        /\ Len(Z) = IF k + 1 <= Len(T) THEN Len(T) - (k + 1) + 1 ELSE 0
        /\ \A i \in 1 .. Len(T) - (k + 1) + 1 : Z[i] = T[(k + 1) + i - 1]
    BY <2>1, BeyondIs DEF Z
  <2>3. PICK l \in Nat : l = Len(T) /\ k <= l
    BY <1>1, <1>6, <2>1
  <2>4. /\ l - (k + 1) + 1 = l - k
        /\ (IF k + 1 <= l THEN l - (k + 1) + 1 ELSE 0) = l - k
        /\ \A i \in 1 .. l - k : k + 1 + i - 1 = k + i
    BY <2>3
  <2>5. Z \in Seq(TokenSet) /\ Len(Z) = l - k /\ \A i \in 1 .. l - k : Z[i] = T[k + i]
    <3>1. Len(Z) = l - k
      BY <2>2, <2>3, <2>4
    <3>2. \A i \in 1 .. l - k : Z[i] = T[k + 1 + i - 1]
      BY <2>2, <2>3, <2>4
    <3>3. QED
      BY <2>2, <2>4, <3>1, <3>2
  <2>6. QED
    BY <2>1, <2>3, <2>5
<1> HIDE DEF Z
<1>9. \A i \in 1 .. Len(Y) : Y[i] = Z[i]
  <2>1. ASSUME NEW i \in 1 .. Len(Y)
        PROVE  Y[i] = Z[i]
    <3>1. i + 1 \in 1 .. 1 + Len(Y) /\ ~(i + 1 <= 1) /\ (i + 1) - 1 = i
      BY <1>5
    <3>2. Y[i] = B[i + 1]
      BY <1>5, <3>1
    <3>3. i + 1 \in 1 .. Len(T) - (n + 1) + 1 /\ (n + 1) + (i + 1) - 1 = (n + 1) + i
      BY <1>1, <1>6, <3>1
    <3>4. B[i + 1] = T[(n + 1) + i]
      BY <1>2, <3>3
    <3>5. QED
      BY <1>6, <1>8, <3>2, <3>4
  <2>2. QED
    BY <2>1
<1>10. Y = Z
  BY <1>6, <1>8, <1>9, SeqEqual
<1>11. QED
  BY <1>6, <1>7, <1>10 DEF Z

LEMMA CharRead ==
    ASSUME IInv, ScanChar
    PROVE  LET i == Position + 1 IN
           /\ i \in 1 .. Len(text) /\ buffer[offset + 1] = text[i]
           /\ Position' + 1 = IF EndsName(text[i]) THEN i ELSE i + 1
<1>1. /\ UNCHANGED <<at, buffer>> /\ ~NeedsFill /\ ~AtEnd
      /\ offset' = IF EndsName(buffer[offset + 1]) THEN offset ELSE offset + 1
  BY DEF ScanChar
<1>2. offset \in Nat /\ Len(buffer) \in Nat /\ offset < Len(buffer)
      /\ Len(buffer) <= BufferSize /\ BufferSize \in Nat
  BY <1>1, LcfgAssumption DEF NeedsFill, AtEnd, IInv, Types, Window
<1>3. buffer # <<>> /\ at \in Nat /\ at <= Len(text) /\ Len(buffer) <= at /\ Len(text) \in Nat
  BY <1>2 DEF IInv, Types, Window
<1>4. Position = at - Len(buffer) + offset /\ Position' = at - Len(buffer) + offset'
  BY <1>1, <1>3 DEF Position
<1>5. Position + 1 = at - Len(buffer) + (offset + 1) /\ offset + 1 \in 1 .. Len(buffer)
  BY <1>2, <1>3, <1>4
<1>6. Position + 1 \in 1 .. Len(text)
  BY <1>2, <1>3, <1>5
<1>7. buffer[offset + 1] = text[Position + 1]
  BY <1>5 DEF IInv, Window
<1>8. Position' + 1 = IF EndsName(text[Position + 1]) THEN Position + 1 ELSE Position + 1 + 1
  BY <1>1, <1>2, <1>3, <1>4, <1>7
<1>9. QED
  BY <1>6, <1>7, <1>8

(* Where nothing is left to be taken but what is no token.                 *)
LEMMA NothingWellFormed ==
    ASSUME NEW T \in Seq(TokenSet), NEW n \in 0 .. Len(T), Beyond(T, n) = <<NoToken>>
    PROVE  ~WellFormed(T)
<1>1. NoToken \in TokenSet
  BY MarkToken DEF NoToken
<1>2. <<>> \in Seq(TokenSet) /\ <<NoToken>> \o <<>> = <<NoToken>>
  BY <1>1, EmptySeq, OneToken, ConcatEmptySeq
<1>3. n + 1 <= Len(T) /\ T[n + 1] = NoToken /\ <<>> = Beyond(T, n + 1)
  <2>1. Beyond(T, n) = <<NoToken>> \o <<>>
    BY <1>2
  <2>2. QED
    BY <1>1, <1>2, <2>1, FirstBeyond, Zenon
<1>4. Len(T) = n + 1
  <2>1. Len(T) \in Nat
    OBVIOUS
  <2>2. CASE n + 1 < Len(T)
    <3>1. PICK k \in Nat : k = n + 1 + 1
      OBVIOUS
    <3>2. k <= Len(T) /\ \A i \in k .. Len(T) : T[i] \in TokenSet
      BY <2>1, <2>2, <3>1
    <3>3. Len(SubSeq(T, k, Len(T))) = Len(T) - k + 1
      BY <2>1, <3>1, <3>2, SubSeqProperties
    <3>4. SubSeq(T, k, Len(T)) = <<>>
      BY <1>3, <3>1 DEF Beyond
    <3>5. Len(T) - k + 1 = 0
      BY <3>3, <3>4, EmptySeq
    <3>6. QED
      BY <2>1, <3>1, <3>2, <3>5
  <2>3. QED
    BY <1>3, <2>1, <2>2
<1>5. QED
  BY <1>3, <1>4, UnknownLast

LEMMA NothingLeft ==
    ASSUME NEW T \in Seq(TokenSet), NEW n \in 0 .. Len(T), Beyond(T, n) = <<>>
    PROVE  n = Len(T)
<1>1. Len(T) \in Nat
  OBVIOUS
<1>2. CASE n < Len(T)
  <2>1. PICK k \in Nat : k = n + 1
    OBVIOUS
  <2>2. k <= Len(T) /\ \A i \in k .. Len(T) : T[i] \in TokenSet
    BY <1>1, <1>2, <2>1
  <2>3. Len(SubSeq(T, k, Len(T))) = Len(T) - k + 1
    BY <1>1, <2>1, <2>2, SubSeqProperties
  <2>4. SubSeq(T, k, Len(T)) = <<>>
    BY <2>1 DEF Beyond
  <2>5. Len(T) - k + 1 = 0
    BY <2>3, <2>4, EmptySeq
  <2>6. QED
    BY <1>1, <2>1, <2>2, <2>5
<1>3. QED
  BY <1>1, <1>2

LEMMA Counts ==
    /\ Count(token) \in {0, 1} /\ Count(prepared) \in {0, 1}
    /\ Count(prepared) = 0 <=> prepared.type = "null_token"
    /\ Count(Null) = 0
BY DEF Count, Null, Token

LEMMA FillHalfway ==
    ASSUME NEW t, NEW T, NEW m, OfText(t, T), IInv, Fill, UNCHANGED <<visited, config>>,
           Halfway(t, T, m)
    PROVE  Halfway(t, T, m)'
<1>1. UNCHANGED <<text, status, fsm, hex, prepared, token, stack>>
  BY DEF Fill, file, scanner, parser
<1>2. Position' = Position
  BY FillStep
<1>3. Taken(m)' = Taken(m) /\ (Tops <=> Tops')
  BY <1>1 DEF Taken, Tops
<1>4. QED
  BY <1>1, <1>2, <1>3 DEF Halfway

LEMMA ScanCharHalfway ==
    ASSUME NEW t, NEW T, NEW m, OfText(t, T), IInv, Words, ScanChar, Halfway(t, T, m)
    PROVE  Halfway(t, T, m)'
<1>1. /\ UNCHANGED <<text, status, token, stack>> /\ status = "scanning"
      /\ prepared.type = "null_token"
  BY DEF ScanChar, file, parser, Reading
<1>2. /\ T \in Seq(TokenSet) /\ Len(T) \in Nat /\ t \in Seq(STRING) /\ text = t
      /\ \A n \in 1 .. Len(T) : T[n].type # "null_token"
  BY TokensTyped DEF OfText, Halfway
<1>3. PICK i : i = Position + 1
  OBVIOUS
<1>4. PICK n : n = Taken(m)
  OBVIOUS
<1>5. /\ i \in 1 .. Len(t) /\ buffer[offset + 1] = t[i]
      /\ Position' + 1 = IF EndsName(t[i]) THEN i ELSE i + 1
  BY <1>2, <1>3, CharRead
<1>6. PICK j \in Positions : j = Position' + 1 /\ j = IF EndsName(t[i]) THEN i ELSE i + 1
  BY <1>5 DEF Positions
<1>7. n = m + Count(token) /\ n \in Nat /\ m \in Nat /\ n <= Len(T)
  BY <1>1, <1>4, Counts DEF Taken, Halfway
<1> DEFINE R == Beyond(T, n)
<1>8. Scanning(t, i, R)
  BY <1>1, <1>2, <1>3, <1>4, <1>5 DEF Scanning, Halfway
<1>9. LET c == t[i] IN
      Start(c) \/ CommStart(c) \/ InComment(c) \/ InIdentifier(c) \/ InStr(c)
        \/ InEsc(c) \/ InHex(c)
  BY <1>5 DEF ScanChar
<1> HIDE DEF R
<1>10. Scanned(t, j, R)
  BY <1>6, <1>8, <1>9, CharScans
<1>11. Tops'
  BY <1>1 DEF Halfway, Tops
<1>12. CASE GoesOn(t, j, R)
  <2>1. /\ prepared'.type = "null_token"
        /\ Ahead(t, Position' + 1, fsm', prepared'.word, hex', R)
    BY <1>6, <1>12 DEF GoesOn
  <2>2. Count(prepared') = 0 /\ Count(token') = Count(token) /\ Taken(m)' = n
    BY <1>1, <1>7, <2>1, Counts DEF Taken, Count
  <2>3. QED
    BY <1>1, <1>2, <1>7, <1>11, <2>1, <2>2 DEF Halfway, R
<1>13. CASE HasFound(t, j, R)
  <2>1. /\ prepared'.type # "null_token" /\ fsm' = "start"
        /\ R = <<prepared'>> \o TokensFrom(t)[j]
    BY <1>13 DEF HasFound
  <2>2. TokensFrom(t)[j] \in Seq(TokenSet)
    BY <1>2, TokensIs
  <2>3. prepared' \in TokenSet
    <3>1. R # <<>> /\ R \in Seq(TokenSet) /\ R[1] = prepared'
      <4>1. R \in Seq(TokenSet)
        <5>1. n + 1 \in Int /\ \A k \in n + 1 .. Len(T) : T[k] \in TokenSet
          BY <1>2, <1>7
        <5>2. QED
          BY <1>2, <5>1, SubSeqProperties DEF R, Beyond
      <4> DEFINE Y == TokensFrom(t)[j]
                 S == TokenSet \cup {prepared'}
      <4>2. Y \in Seq(S) /\ <<prepared'>> \in Seq(S) /\ Len(<<prepared'>>) = 1
        BY <2>2
      <4> HIDE DEF Y
      <4>3. Len(<<prepared'>> \o Y) = 1 + Len(Y) /\ (<<prepared'>> \o Y)[1] = prepared'
            /\ Len(Y) \in Nat
        BY <4>2
      <4>4. QED
        BY <2>1, <4>1, <4>3, EmptySeq DEF Y
    <3>2. 1 \in 1 .. Len(R)
      BY <3>1, EmptySeq
    <3>3. QED
      BY <3>1, <3>2, ElementOfSeq
  <2>4. n + 1 <= Len(T) /\ T[n + 1] = prepared' /\ TokensFrom(t)[j] = Beyond(T, n + 1)
    <3>1. n \in 0 .. Len(T)
      BY <1>2, <1>7
    <3>2. QED
      BY <1>2, <2>1, <2>2, <2>3, <3>1, FirstBeyond, ZenonT(30) DEF R
  <2>5. Count(prepared') = 1 /\ Count(token') = Count(token) /\ Taken(m)' = n + 1
    BY <1>1, <1>7, <2>1, Counts DEF Taken, Count
  <2>6. Ahead(t, Position' + 1, fsm', prepared'.word, hex', Beyond(T, n + 1))
    BY <1>6, <2>1, <2>4 DEF Ahead, InString
  <2>7. QED
    BY <1>1, <1>2, <1>7, <1>11, <2>1, <2>4, <2>5, <2>6 DEF Halfway
<1>14. QED
  BY <1>10, <1>12, <1>13 DEF Scanned

LEMMA ScanEndHalfway ==
    ASSUME NEW t, NEW T, NEW m, OfText(t, T), IInv, Words, ScanEnd, Halfway(t, T, m)
    PROVE  /\ status' = "parsing" => Halfway(t, T, m)'
           /\ status' = "error" => ~WellFormed(T)
           /\ status' \in {"parsing", "error"}
<1>1. /\ UNCHANGED <<text, at, buffer, offset, fsm, hex, prepared, token, stack>>
      /\ status = "scanning"
      /\ status' = IF fsm = "start" THEN "parsing" ELSE "error"
      /\ ~Reading \/ (Reading /\ AtEnd)
  BY DEF ScanEnd, file, scanner, parser
<1>2. /\ T \in Seq(TokenSet) /\ Len(T) \in Nat /\ t \in Seq(STRING) /\ text = t
  BY TokensTyped DEF OfText, Halfway
<1>3. Position' = Position /\ Taken(m)' = Taken(m) /\ (Tops <=> Tops')
  BY <1>1 DEF Position, Taken, Tops
<1>4. PICK n : n = Taken(m)
  OBVIOUS
<1>5. n \in 0 .. Len(T)
  BY <1>2, <1>4, Counts DEF Taken, Halfway
<1> DEFINE R == Beyond(T, n)
<1>6. Ahead(t, Position + 1, fsm, prepared.word, hex, R)
  BY <1>4 DEF Halfway
<1>7. CASE Reading /\ AtEnd
  <2>1. Position = Len(t)
    <3>1. at = Len(text) /\ (buffer = <<>> \/ offset = Len(buffer))
      BY <1>7, LcfgAssumption DEF IInv, Types, Window, AtEnd, NeedsFill
    <3>2. QED
      BY <1>2, <3>1 DEF Position, IInv, Types
  <2>2. R = IF fsm = "start" THEN <<>> ELSE <<NoToken>>
    <3>1. fsm \in Fsm
      BY DEF IInv, Types
    <3>2. QED
      BY <1>2, <1>6, <2>1, <3>1, EndScans
  <2>3. CASE fsm = "start"
    <3>1. n = Len(T)
      BY <1>2, <1>5, <2>2, <2>3, NothingLeft
    <3>2. QED
      BY <1>1, <1>3, <1>4, <2>3, <3>1 DEF Halfway
  <2>4. CASE fsm # "start"
    <3>1. ~WellFormed(T)
      BY <1>2, <1>5, <2>2, <2>4, NothingWellFormed
    <3>2. QED
      BY <1>1, <2>4, <3>1
  <2>5. QED
    BY <2>3, <2>4
<1>8. CASE ~Reading /\ Count(prepared) = 1
  <2>1. fsm = "start" /\ status' = "parsing"
    BY <1>1, <1>8 DEF Halfway
  <2>2. QED
    BY <1>1, <1>3, <1>8, <2>1 DEF Halfway
<1>9. CASE ~Reading /\ Count(prepared) # 1
  <2>1. fsm = "invalid"
    BY <1>1, <1>9, Counts DEF Reading
  <2>2. R = <<NoToken>>
    BY <1>6, <2>1 DEF Ahead
  <2>3. ~WellFormed(T)
    BY <1>2, <1>5, <2>2, NothingWellFormed
  <2>4. QED
    BY <1>1, <2>1, <2>3
<1>10. QED
  BY <1>1, <1>7, <1>8, <1>9

(* The file's own element lies under the others, and is as it was.         *)
LEMMA TopsTurn ==
    ASSUME Automaton, Tops, Handle, token # Null
    PROVE  Tops'
<1> DEFINE n == Len(stack)
<1>1. /\ n \in Nat \ {0} /\ stack \in Seq(Elements) /\ Top = stack[n]
      /\ Top.s \notin {"top_level", "invalid"} => n >= 2
      /\ Counted \in Seq(Elements) /\ Counted[n].s = Top.s
      /\ Len(Counted) = n /\ \A l \in 1 .. n - 1 : Counted[l] = stack[l]
  BY StackShapes DEF SameBelow
<1>2. SUFFICES OnTop(stack')
  BY DEF Tops
<1>3. OnTop(stack)
  BY DEF Tops
<1> USE DEF OnTop
<1>4. ASSUME NEW st, OnTop(st), Len(st) = n, NEW s \in {"exp_equals", "in_list", "in_map"},
             st \in Seq(Elements), stack' = Append(st, Element(s))
      PROVE  OnTop(stack')
  <2>1. /\ Len(stack') = n + 1 /\ stack'[n + 1] = Element(s)
        /\ \A l \in 1 .. n : stack'[l] = st[l]
    BY <1>1, <1>4
  <2>2. 1 \in 1 .. n /\ \A l \in 2 .. n + 1 : l = n + 1 \/ l \in 2 .. n
    BY <1>1
  <2>3. \A l \in 2 .. n : l \in 1 .. n
    BY <1>1
  <2>4. Element(s).s # "top_level"
    BY <1>4 DEF Element
  <2>5. ASSUME NEW l \in 2 .. n + 1
        PROVE  stack'[l].s # "top_level"
    BY <1>4, <2>1, <2>2, <2>3, <2>4
  <2>6. QED
    BY <1>4, <2>1, <2>2, <2>5
<1>5. ASSUME NEW s, s # "top_level", stack' = Become(s)
      PROVE  OnTop(stack')
  <2>1. Len(stack') = n /\ stack'[n].s = s /\ \A l \in 1 .. n - 1 : stack'[l] = stack[l]
    BY <1>5, StackShapes DEF SameBelow
  <2>2. ASSUME NEW l \in 2 .. n
        PROVE  stack'[l].s # "top_level"
    <3>1. l = n \/ (l \in 1 .. n - 1 /\ l \in 2 .. n)
      BY <1>1
    <3>2. QED
      BY <1>3, <1>5, <2>1, <3>1
  <2>3. stack'[1].s = "top_level" => stack'[1] = Element("top_level")
    <3>1. 1 = n \/ 1 \in 1 .. n - 1
      BY <1>1
    <3>2. QED
      BY <1>3, <1>5, <2>1, <3>1
  <2>4. QED
    BY <2>1, <2>2, <2>3
<1>6. ASSUME n >= 2, stack' = Front(stack)
      PROVE  OnTop(stack')
  <2>1. Len(stack') = n - 1 /\ \A l \in 1 .. n - 1 : stack'[l] = stack[l]
    BY <1>1, <1>6 DEF Front
  <2>2. 1 \in 1 .. n - 1 /\ \A l \in 2 .. n - 1 : l \in 2 .. n /\ l \in 1 .. n - 1
    BY <1>1, <1>6
  <2>3. QED
    BY <1>3, <2>1, <2>2
<1>7. ASSUME Top.s = "in_list"
      PROVE  OnTop(Counted)
  <2>1. n >= 2
    BY <1>1, <1>7
  <2>2. 1 \in 1 .. n - 1 /\ \A l \in 2 .. n : l = n \/ l \in 1 .. n - 1
    BY <1>1, <2>1
  <2>3. ASSUME NEW l \in 2 .. n
        PROVE  Counted[l].s # "top_level"
    BY <1>1, <1>3, <1>7, <2>2
  <2>4. QED
    BY <1>1, <1>3, <2>2, <2>3
<1> HIDE DEF OnTop
<1>8. CASE NamesSetting
  BY <1>1, <1>3, <1>4, <1>8 DEF NamesSetting
<1>9. CASE Equals
  BY <1>5, <1>9 DEF Equals
<1>10. CASE IsText
  BY <1>1, <1>6, <1>10 DEF IsText
<1>11. CASE Enters
  <2>1. \E s \in {"in_list", "in_map"} : stack' = Become(s)
    BY <1>11, Zenon DEF Enters
  <2>2. QED
    BY <1>5, <2>1
<1>12. CASE Commas
  BY <1>3, <1>12 DEF Commas
<1>13. CASE ListsText
  BY <1>7, <1>13 DEF ListsText
<1>14. CASE ListsMore
  <2>1. Top.s = "in_list" /\ \E s \in {"in_list", "in_map"} : stack' = Append(Counted, Element(s))
    BY <1>14, Zenon DEF ListsMore
  <2>2. QED
    BY <1>1, <1>4, <1>7, <2>1
<1>15. CASE Closes
  <2>1. Top.s \in {"in_map", "in_list"} /\ stack' = Front(stack)
    BY <1>15, Zenon DEF Closes
  <2>2. QED
    BY <1>1, <1>6, <2>1
<1>16. CASE Rejects
  BY <1>5, <1>16 DEF Rejects
<1>17. QED
  BY <1>8, <1>9, <1>10, <1>11, <1>12, <1>13, <1>14, <1>15, <1>16, Turns

(* What is open at the end cannot be completed.                            *)
LEMMA AllClosed ==
    ASSUME NEW T, Len(T) \in Nat, NEW st \in Seq(Elements), Len(st) >= 1, OnTop(st),
           Completable(T, st, Len(T) + 1)
    PROVE  st = <<Element("top_level")>>
<1> DEFINE n == Len(st)
<1>1. n \in Nat \ {0}
  OBVIOUS
<1>2. PICK q : Completes(T, st, Len(T) + 1, q)
  BY DEF Completable
<1>3. Remains(T, st[n].s, Len(T) + 1, q[n]) /\ q[n] \in 0 .. Len(T)
  BY <1>1, <1>2, LastRemains
<1>4. st[n].s = "top_level"
  <2>1. PICK k \in 0 .. Len(T) : k = q[n]
    BY <1>3
  <2>2. ~(Len(T) + 1 < k) /\ ~(Len(T) + 1 <= k)
    BY <2>1
  <2>3. Remains(T, st[n].s, Len(T) + 1, k)
    BY <1>3, <2>1
  <2>4. QED
    BY <2>2, <2>3, Zenon DEF Remains
<1>5. n = 1
  <2>1. ASSUME NEW j \in Nat \ {0}
        PROVE  j = 1 \/ j \in 2 .. j
    OBVIOUS
  <2>2. n = 1 \/ n \in 2 .. n
    BY <1>1, <2>1
  <2>3. QED
    BY <1>1, <1>4, <2>2 DEF OnTop
<1>6. st[1] = Element("top_level")
  BY <1>4, <1>5 DEF OnTop
<1>7. QED
  BY <1>5, <1>6

LEMMA TopCompletes ==
    ASSUME NEW T, Len(T) \in Nat, NEW i \in 1 .. Len(T) + 1
    PROVE  Completable(T, <<Element("top_level")>>, i) <=> IsSettings(T, i, Len(T))
<1> DEFINE st == <<Element("top_level")>>
           n == Len(T)
<1>1. Len(st) = 1 /\ st[1].s = "top_level" /\ Len(st) \in Nat \ {0}
  BY DEF Element
<1>2. n \in 0 .. n /\ i <= n + 1
  OBVIOUS
<1> HIDE DEF st
<1>3. Remains(T, "top_level", i, n) <=> IsSettings(T, i, n)
  BY <1>2 DEF Remains
<1>4. ASSUME Completable(T, st, i)
      PROVE  IsSettings(T, i, n)
  <2>1. PICK q : Completes(T, st, i, q)
    BY <1>4 DEF Completable
  <2>2. Remains(T, "top_level", i, q[1])
    BY <1>1, <2>1, LastRemains
  <2>3. q[1] = n
    BY <2>2 DEF Remains
  <2>4. QED
    BY <1>3, <2>2, <2>3
<1>5. ASSUME IsSettings(T, i, n)
      PROVE  Completable(T, st, i)
  <2> DEFINE q == <<n>>
  <2>1. q \in Seq(0 .. n) /\ Len(q) = 1 /\ q[1] = n
    BY <1>2
  <2> HIDE DEF q
  <2>2. From(q, i, 1) = i /\ \A l \in 1 .. 1 : l = 1
    BY <2>1 DEF From
  <2>3. Completes(T, st, i, q)
    BY <1>1, <1>3, <1>5, <2>1, <2>2 DEF Completes
  <2>4. QED
    BY <2>3 DEF Completable
<1>6. QED
  BY <1>4, <1>5 DEF st

LEMMA EmptySettings ==
    ASSUME NEW T, Len(T) \in Nat
    PROVE  IsSettings(T, Len(T) + 1, Len(T))
<1>1. Len(T) + 1 \in 1 .. Len(T) + 1 /\ Len(T) \in 0 .. Len(T) /\ Len(T) + 1 > Len(T)
  OBVIOUS
<1>2. SettingsRule(T, Derives(T), Len(T) + 1, Len(T))
  BY <1>1 DEF SettingsRule
<1>3. QED
  BY <1>1, <1>2, GrammarRules

LEMMA ParseHalfway ==
    ASSUME NEW t, NEW T, NEW m, NEW k, k = m + Count(token), OfText(t, T), IInv, Words, Parse,
           UNCHANGED <<visited, config>>, Halfway(t, T, m)
    PROVE  /\ status' = "scanning" => Halfway(t, T, k)'
           /\ status' = "parsed" => WellFormed(T) /\ k = Len(T)
           /\ status' = "error" => ~WellFormed(T)
           /\ status' \in {"scanning", "parsed", "error"}
<1>1. UNCHANGED <<text, at, buffer, offset, fsm, hex>> /\ status = "parsing" /\ Handle /\ GoOn
  BY DEF Parse, file, input
<1>2. /\ T \in Seq(TokenSet) /\ Len(T) \in Nat /\ t \in Seq(STRING) /\ text = t
      /\ \A n \in 1 .. Len(T) : T[n].type # "null_token"
  BY TokensTyped DEF OfText, Halfway
<1>3. /\ m \in Nat /\ Taken(m) <= Len(T) /\ Taken(m) = m + Count(token) + Count(prepared)
      /\ Count(token) \in {0, 1} /\ Count(prepared) \in {0, 1}
  BY Counts DEF Halfway, Taken
<1>4. Automaton /\ Automaton' /\ Tops
  <2>1. IInv'
    BY ParseStep
  <2>2. QED
    BY <2>1 DEF IInv, Halfway
<1>5. k \in Nat /\ k <= Len(T)
  BY <1>2, <1>3
<1>6. Tops' /\ (WellFormed(T) <=> Completable(T, stack', k + 1))
  <2>1. CASE token = Null
    <3>1. stack' = stack /\ Count(token) = 0
      BY <1>1, <2>1, Counts DEF Handle
    <3>2. k = m
      BY <1>3, <3>1
    <3>3. Tops'
      BY <1>4, <3>1 DEF Tops
    <3>4. QED
      BY <3>1, <3>2, <3>3 DEF Halfway
  <2>2. CASE token # Null
    <3>1. Count(token) = 1 /\ token = T[m + 1]
      BY <2>2 DEF Halfway
    <3>2. k = m + 1 /\ m + 1 \in 1 .. Len(T)
      BY <1>2, <1>3, <3>1
    <3>3. HasRead(T, m + 1)
      BY <1>2, <3>1, <3>2 DEF HasRead
    <3>4. Completable(T, stack, m + 1) <=> Completable(T, stack', m + 1 + 1)
      BY <1>1, <1>4, <2>2, <3>3, TurnCompletes
    <3>5. Tops'
      BY <1>1, <1>4, <2>2, TopsTurn
    <3>6. QED
      BY <3>2, <3>4, <3>5 DEF Halfway
  <2>3. QED
    BY <2>1, <2>2
<1>7. CASE Count(prepared) = 1 /\ Last(stack').s # "invalid"
  <2>1. token' = prepared /\ prepared' = Null /\ status' = "scanning"
    BY <1>1, <1>7, Counts DEF GoOn
  <2>2. prepared = T[Taken(m)] /\ fsm = "start"
    BY <1>7 DEF Halfway
  <2>3. Taken(m) = k + 1
    BY <1>3, <1>7
  <2>4. Count(token') = 1 /\ Count(prepared') = 0
    BY <1>7, <2>1, Counts DEF Count
  <2>5. Taken(k)' = k + 1
    BY <1>5, <2>4 DEF Taken
  <2>6. token' # Null /\ token' = T[k + 1]
    BY <1>7, <2>1, <2>2, <2>3, Counts
  <2>7. Ahead(t, Position' + 1, fsm', prepared'.word, hex', Beyond(T, k + 1))
    <3>1. Position' = Position
      BY <1>1 DEF Position
    <3>2. Ahead(t, Position + 1, fsm, prepared.word, hex, Beyond(T, k + 1))
      BY <2>3 DEF Halfway
    <3>3. fsm' = "start"
      BY <1>1, <2>2
    <3>4. QED
      BY <1>1, <2>2, <3>1, <3>2, <3>3 DEF Ahead, InString
  <2>8. Halfway(t, T, k)'
    BY <1>1, <1>2, <1>3, <1>5, <1>6, <2>1, <2>3, <2>4, <2>5, <2>6, <2>7 DEF Halfway
  <2>9. QED
    BY <2>1, <2>8
<1>8. CASE ~(Count(prepared) = 1 /\ Last(stack').s # "invalid")
  <2>1. status' = IF stack' = <<Element("top_level")>> THEN "parsed" ELSE "error"
    BY <1>1, <1>8, <1>3, Counts DEF GoOn
  <2>2. CASE Last(stack').s = "invalid"
    <3>1. stack' # <<Element("top_level")>>
      BY <2>2 DEF Last, Element
    <3>2. ~Completable(T, stack', k + 1)
      <4>1. ASSUME NEW q, Completes(T, stack', k + 1, q)
            PROVE  FALSE
        <5>1. Len(stack') \in Nat \ {0} /\ Last(stack') = stack'[Len(stack')]
          BY <1>4 DEF Automaton, Last
        <5>2. Remains(T, "invalid", k + 1, q[Len(stack')])
          BY <2>2, <4>1, <5>1, LastRemains
        <5>3. QED
          BY <5>2, Zenon DEF Remains
      <4>2. QED
        BY <4>1 DEF Completable
    <3>3. QED
      BY <1>6, <2>1, <3>1, <3>2
  <2>3. CASE Last(stack').s # "invalid"
    <3>1. Count(prepared) = 0
      BY <1>3, <1>8, <2>3
    <3>2. k = Len(T)
      BY <1>1, <1>3, <3>1 DEF Halfway
    <3>3. WellFormed(T) <=> Completable(T, stack', Len(T) + 1)
      BY <1>6, <3>2
    <3>4. stack' = <<Element("top_level")>> => Completable(T, stack', Len(T) + 1)
      <4>1. Len(T) + 1 \in 1 .. Len(T) + 1
        BY <1>2
      <4>2. Completable(T, <<Element("top_level")>>, Len(T) + 1)
        BY <1>2, <4>1, TopCompletes, EmptySettings
      <4>3. QED
        BY <4>2
    <3>5. Completable(T, stack', Len(T) + 1) => stack' = <<Element("top_level")>>
      <4>1. stack' \in Seq(Elements) /\ Len(stack') >= 1 /\ OnTop(stack')
        BY <1>4, <1>6 DEF Automaton, Tops
      <4>2. QED
        BY <1>2, <4>1, AllClosed
    <3>6. QED
      BY <2>1, <3>2, <3>3, <3>4, <3>5
  <2>4. QED
    BY <2>2, <2>3
<1>9. QED
  BY <1>7, <1>8

-----------------------------------------------------------------------------
(* Until the file is open nothing is read; then it is halfway read, until  *)
(* the answer.                                                             *)
Unopened ==
    /\ prepared = Null /\ token = Null /\ fsm = "start"
    /\ stack = <<Element("top_level")>> /\ path = <<>> /\ values = <<>>
Underway == \E m \in Nat : Halfway(text, Tokens(text), m)

Course ==
    /\ status = "writing" => Unopened
    /\ status \in {"scanning", "parsing"} => Underway
    /\ AcceptsWellFormed

LEMMA OpenHalfway ==
    ASSUME NEW t, NEW T, OfText(t, T), text = t, IInv, status = "writing", Unopened, Open
    PROVE  Halfway(t, T, 0)'
<1>1. /\ UNCHANGED <<text, at, buffer, offset, fsm, hex, prepared, token, stack>>
      /\ status' = "scanning"
  BY DEF Open, file, input, scanner, parser
<1>2. /\ T \in Seq(TokenSet) /\ Len(T) \in Nat /\ T = TokensFrom(t)[1] /\ Beyond(T, 0) = T
  BY TokensTyped
<1>3. Position' = 0
  <2>1. at = 0 /\ buffer = <<>>
    BY DEF IInv, Window
  <2>2. QED
    BY <1>1, <2>1 DEF Position
<1>4. Count(token') = 0 /\ Count(prepared') = 0 /\ Count(Null) = 0
  BY <1>1, Counts DEF Unopened
<1>5. Taken(0)' = 0
  BY <1>4 DEF Taken
<1>6. Ahead(t, Position' + 1, fsm', prepared'.word, hex', Beyond(T, 0))
  <2>1. fsm' = "start" /\ Position' + 1 = 1
    BY <1>1, <1>3 DEF Unopened
  <2>2. QED
    BY <1>2, <2>1 DEF Ahead, InString
<1>7. stack' = <<Element("top_level")>>
  BY <1>1 DEF Unopened
<1>8. Tops'
  BY <1>7 DEF Tops, OnTop
<1>9. WellFormed(T) <=> Completable(T, stack', 0 + 1)
  <2>1. 1 \in 1 .. Len(T) + 1
    BY <1>2
  <2>2. QED
    BY <1>2, <1>7, <2>1, TopCompletes DEF WellFormed
<1>10. QED
  BY <1>1, <1>2, <1>4, <1>5, <1>6, <1>8, <1>9 DEF Halfway, Unopened

LEMMA CourseStep ==
    ASSUME IInv, Words, Course, [Next]_vars
    PROVE  Course'
<1>1. PICK t, T : t = text /\ T = Tokens(t)
  OBVIOUS
<1>2. OfText(t, T)
  BY <1>1 DEF OfText, IInv, Types
<1>3. ASSUME text' = t, status' \in {"scanning", "parsing"}, NEW m \in Nat, Halfway(t, T, m)'
      PROVE  Course'
  <2>1. Tokens(text)' = T
    BY <1>1, <1>3
  <2>2. Underway'
    <3>1. \E k \in Nat : Halfway(t, T, k)'
      BY <1>3
    <3>2. QED
      BY <1>1, <1>3, <2>1, <3>1 DEF Underway, Halfway
  <2>3. AcceptsWellFormed'
    BY <1>3 DEF AcceptsWellFormed, Accepted
  <2>4. QED
    BY <1>3, <2>2, <2>3 DEF Course
<1>4. ASSUME text' = t, status' \in {"parsed", "error"}, status' = "parsed" => WellFormed(T),
             status' = "error" => ~WellFormed(T)
      PROVE  Course'
  <2>1. Tokens(text)' = T
    BY <1>1, <1>4
  <2>2. QED
    BY <1>4, <2>1 DEF Course, AcceptsWellFormed, Accepted
<1>5. status \in {"scanning", "parsing"} => \E m \in Nat : Halfway(t, T, m)
  BY <1>1 DEF Course, Underway
<1>6. CASE Write \/ OpenFails
  <2>1. status' \in {"writing", "no file"} /\ status = "writing"
        /\ UNCHANGED <<prepared, token, fsm, stack, path, values>>
    BY <1>6 DEF Write, OpenFails, scanner, parser
  <2>2. Unopened'
    BY <2>1 DEF Course, Unopened
  <2>3. QED
    BY <2>1, <2>2 DEF Course, AcceptsWellFormed, Accepted
<1>7. CASE Open
  <2>1. status = "writing" /\ status' = "scanning" /\ text' = t
    BY <1>1, <1>7 DEF Open, file
  <2>2. Halfway(t, T, 0)'
    BY <1>1, <1>2, <1>7, <2>1, OpenHalfway DEF Course
  <2>3. QED
    BY <1>3, <2>1, <2>2
<1>8. CASE (Fill \/ ScanChar) /\ UNCHANGED <<visited, config>>
  <2>1. status = "scanning" /\ status' = "scanning" /\ text' = t
    BY <1>1, <1>8 DEF Fill, ScanChar, Reading, file
  <2>2. PICK m \in Nat : Halfway(t, T, m)
    BY <1>5, <2>1
  <2>3. Halfway(t, T, m)'
    BY <1>2, <1>8, <2>2, FillHalfway, ScanCharHalfway
  <2>4. QED
    BY <1>3, <2>1, <2>3
<1>9. CASE ScanEnd
  <2>1. status = "scanning" /\ text' = t
    BY <1>1, <1>9 DEF ScanEnd, file
  <2>2. PICK m \in Nat : Halfway(t, T, m)
    BY <1>5, <2>1
  <2>3. /\ status' = "parsing" => Halfway(t, T, m)'
        /\ status' = "error" => ~WellFormed(T)
        /\ status' \in {"parsing", "error"}
    BY <1>2, <1>9, <2>2, ScanEndHalfway
  <2>4. QED
    BY <1>3, <1>4, <2>1, <2>2, <2>3
<1>10. CASE Parse /\ UNCHANGED <<visited, config>>
  <2>1. status = "parsing" /\ text' = t
    BY <1>1, <1>10 DEF Parse, file
  <2>2. PICK m \in Nat : Halfway(t, T, m)
    BY <1>5, <2>1
  <2>3. PICK k : k = m + Count(token)
    OBVIOUS
  <2>4. k \in Nat
    BY <2>3, Counts
  <2>5. /\ status' = "scanning" => Halfway(t, T, k)'
        /\ status' = "parsed" => WellFormed(T) /\ k = Len(T)
        /\ status' = "error" => ~WellFormed(T)
        /\ status' \in {"scanning", "parsed", "error"}
    BY <1>2, <1>10, <2>2, <2>3, ParseHalfway
  <2>6. QED
    BY <1>3, <1>4, <2>1, <2>4, <2>5
<1>11. CASE Visit \/ Return
  <2>1. status = "parsed" /\ status' \in Accepted /\ text' = text
    BY <1>11 DEF Visit, Return, Accepted, file
  <2>2. Tokens(text)' = Tokens(text)
    BY <2>1
  <2>3. WellFormed(Tokens(text))
    BY <2>1 DEF Course, AcceptsWellFormed, Accepted
  <2>4. QED
    BY <2>1, <2>2, <2>3 DEF Course, AcceptsWellFormed, Accepted
<1>12. CASE UNCHANGED vars
  <2>1. UNCHANGED <<text, status, at, buffer, offset, fsm, hex, prepared, token, stack, path,
                    values>>
    BY <1>12 DEF vars, lcfgVars, file, input, scanner, parser
  <2>2. Unopened' <=> Unopened
    BY <2>1 DEF Unopened
  <2>3. ASSUME NEW m \in Nat, Halfway(t, T, m)
        PROVE  Halfway(t, T, m)'
    <3>1. Position' = Position /\ Taken(m)' = Taken(m) /\ (Tops <=> Tops')
      BY <2>1 DEF Position, Taken, Tops
    <3>2. QED
      BY <2>1, <2>3, <3>1 DEF Halfway
  <2>4. CASE status \in {"scanning", "parsing"}
    BY <1>1, <1>3, <1>5, <2>1, <2>3, <2>4
  <2>5. CASE status \notin {"scanning", "parsing"}
    <3>1. Tokens(text)' = Tokens(text)
      BY <2>1
    <3>2. QED
      BY <2>1, <2>2, <2>5, <3>1 DEF Course, AcceptsWellFormed
  <2>6. QED
    BY <2>4, <2>5
<1>13. QED
  BY <1>6, <1>7, <1>8, <1>9, <1>10, <1>11, <1>12 DEF Next, LcfgNext, Read

LEMMA InitCourse == Init => Course
BY DEF Init, LcfgInit, Course, Unopened, AcceptsWellFormed, Accepted, Element

LEMMA CourseInvariant == Spec => [](IInv /\ Words /\ Course)
<1>1. Init => Words
  BY InitPath
<1>2. IInv /\ Words /\ [Next]_vars => Words'
  BY WordsStep
<1>3. QED
  BY <1>1, <1>2, Invariant, InitCourse, CourseStep, PTL DEF Spec

(* lcfg_parser_parse accepts the files whose text is tokens and nothing    *)
(* else and whose tokens the grammar derives, and no others, wherever the  *)
(* ends of the buffer fall.                                                *)
THEOREM AcceptsTheGrammar == Spec => []AcceptsWellFormed
<1>1. Course => AcceptsWellFormed
  BY DEF Course
<1>2. QED
  BY <1>1, CourseInvariant, PTL

-----------------------------------------------------------------------------
(* What tokens mean, and how many items a list has, are what the           *)
(* definitions say.                                                        *)
Settled == [steps : Steps, value : Seq(Kept)]
MeanOf(t, f, x) == Mean(t, f, x[1][1], x[1][2], x[1][3], x[2], x[3])
PhraseSizes(t) == [x \in Phrases(t) |-> Size(x[1])]
IsComma(x) == x.type = ","

LEMMA MorePhrases ==
    ASSUME NEW t, NEW kind \in {"settings", "items", "value"}, NEW i \in 1 .. Len(t) + 1,
           NEW j \in 0 .. Len(t), NEW steps \in Steps, NEW n \in Nat,
           Derives(t)[<<kind, i, j>>]
    PROVE  << <<kind, i, j>>, steps, n>> \in Phrases(t)
BY DEF Phrases, Spans

(* Where a value ends, settings or items go on.                            *)
LEMMA SettingsParts ==
    ASSUME NEW t \in Seq(TokenSet), NEW i \in 1 .. Len(t), NEW j \in i .. Len(t),
           IsSettings(t, i, j), NEW steps \in Steps
    PROVE  LET k == EndOf(t, "settings", i + 2, j) IN
           /\ t[i].type = "T_IDENTIFIER" /\ i + 2 <= j
           /\ k \in i + 2 .. j /\ IsValue(t, i + 2, k) /\ IsSettings(t, k + 1, j)
           /\ NameWord(t[i].word) /\ t[i].word \in Seq(STRING)
           /\ Append(steps, t[i].word) \in Steps
<1>1. Len(t) \in Nat /\ i \in 1 .. Len(t) + 1 /\ j \in 0 .. Len(t) /\ ~(i > j)
  OBVIOUS
<1>2. SettingsRule(t, Derives(t), i, j)
  BY <1>1, GrammarRules
<1>3. /\ t[i].type = "T_IDENTIFIER" /\ i + 2 <= j
      /\ \E k \in i + 2 .. j : IsValue(t, i + 2, k) /\ IsSettings(t, k + 1, j)
  BY <1>1, <1>2 DEF SettingsRule, IsValue, IsSettings
<1>4. PICK k : k = EndOf(t, "settings", i + 2, j)
  OBVIOUS
<1>5. k \in i + 2 .. j /\ IsValue(t, i + 2, k) /\ IsSettings(t, k + 1, j)
  BY <1>3, <1>4 DEF EndOf, IsSettings
<1>6. NameWord(t[i].word) /\ t[i].word \in Seq(STRING)
  BY <1>3 DEF TokenSet, IsName
<1>7. Append(steps, t[i].word) \in Steps
  BY <1>6, AppendProperties DEF Steps
<1>8. QED
  BY <1>3, <1>4, <1>5, <1>6, <1>7

LEMMA ItemsParts ==
    ASSUME NEW t \in Seq(TokenSet), NEW i \in 1 .. Len(t), NEW j \in i .. Len(t),
           IsItems(t, i, j)
    PROVE  LET k == EndOf(t, "items", i, j) IN
           /\ IsComma(t[i]) => IsItems(t, i + 1, j)
           /\ ~IsComma(t[i]) => k \in i .. j /\ IsValue(t, i, k) /\ IsItems(t, k + 1, j)
<1>1. Len(t) \in Nat /\ i \in 1 .. Len(t) + 1 /\ j \in 0 .. Len(t) /\ ~(i > j)
  OBVIOUS
<1>2. ItemsRule(t, Derives(t), i, j)
  BY <1>1, GrammarRules
<1>3. \/ IsComma(t[i]) /\ IsItems(t, i + 1, j)
      \/ \E k \in i .. j : IsValue(t, i, k) /\ IsItems(t, k + 1, j)
  BY <1>1, <1>2, Zenon DEF ItemsRule, IsValue, IsItems, IsComma
<1>4. ASSUME IsComma(t[i]), NEW k \in i .. j
      PROVE  ~IsValue(t, i, k)
  <2>1. t[i].type \notin {"T_STRING", "[", "{"}
    BY <1>4, Zenon DEF IsComma
  <2>2. k \in 0 .. Len(t)
    BY <1>1
  <2>3. QED
    BY <1>1, <2>1, <2>2, ValueBegins
<1>5. PICK k : k = EndOf(t, "items", i, j)
  OBVIOUS
<1>6. ~IsComma(t[i]) => k \in i .. j /\ IsValue(t, i, k) /\ IsItems(t, k + 1, j)
  BY <1>3, <1>5 DEF EndOf, IsItems
<1>7. QED
  BY <1>3, <1>4, <1>5, <1>6

LEMMA ValueParts ==
    ASSUME NEW t \in Seq(TokenSet), NEW i \in 1 .. Len(t), NEW j \in 0 .. Len(t),
           IsValue(t, i, j)
    PROVE  /\ i <= j
           /\ i = j => t[i].type = "T_STRING" /\ t[i].word \in Seq(Kept)
           /\ i < j /\ t[i].type = "[" => IsItems(t, i + 1, j - 1)
           /\ i < j /\ t[i].type # "[" => IsSettings(t, i + 1, j - 1)
<1>1. Len(t) \in Nat /\ i \in 1 .. Len(t) + 1
  OBVIOUS
<1>2. ValueRule(t, Derives(t), i, j)
  BY <1>1, GrammarRules
<1>3. i <= j
  BY <1>1, ValueBegins
<1>4. i = j => ~(i < j)
  BY <1>1
<1>5. /\ i = j => t[i].type = "T_STRING"
      /\ i < j /\ t[i].type = "[" => IsItems(t, i + 1, j - 1)
      /\ i < j /\ t[i].type # "[" => IsSettings(t, i + 1, j - 1)
  <2>1. CASE i = j
    <3>1. t[i].type = "T_STRING"
      BY <1>2, <1>4, <2>1, Zenon DEF ValueRule
    <3>2. QED
      BY <1>4, <2>1, <3>1
  <2>2. CASE i # j
    <3>1. t[i].type = "[" => IsItems(t, i + 1, j - 1)
      BY <1>2, <2>2, Zenon DEF ValueRule, IsItems
    <3>2. t[i].type # "[" => IsSettings(t, i + 1, j - 1)
      BY <1>2, <2>2, Zenon DEF ValueRule, IsSettings
    <3>3. QED
      BY <2>2, <3>1, <3>2
  <2>3. QED
    BY <2>1, <2>2
<1>6. t[i].word \in Seq(Kept)
  BY DEF TokenSet
<1>7. QED
  BY <1>3, <1>5, <1>6

(* A number has its digits.                                                *)
LEMMA NumberStep ==
    ASSUME NEW steps \in Steps, NEW n \in Nat
    PROVE  Append(steps, Number[n]) \in Steps
<1>1. Number[n] \in Seq({Digit[i] : i \in 1 .. Base})
  BY NumbersAre
<1>2. {Digit[i] : i \in 1 .. Base} \subseteq STRING
  BY LcfgAssumption
<1>3. Number[n] \in Seq(STRING)
  BY <1>1, <1>2, SeqMonotonic
<1>4. QED
  BY <1>3, AppendProperties DEF Steps

(* What the definitions of Mean say, case by case.                         *)
LEMMA MeanSettings ==
    ASSUME NEW t, NEW i, NEW j, NEW steps, NEW n
    PROVE  \A f : Mean(t, f, "settings", i, j, steps, n) = SettingsMean(t, f, i, j, steps)
BY DEF Mean

LEMMA MeanItems ==
    ASSUME NEW t, NEW i, NEW j, NEW steps, NEW n
    PROVE  \A f : Mean(t, f, "items", i, j, steps, n) = ItemsMean(t, f, i, j, steps, n)
BY DEF Mean

LEMMA MeanValue ==
    ASSUME NEW t, NEW i, NEW j, NEW steps, NEW n
    PROVE  \A f : Mean(t, f, "value", i, j, steps, n) = ValueMeans(t, f, i, j, steps)
BY DEF Mean

LEMMA NoItemMeans ==
    ASSUME NEW t, NEW i \in Nat, NEW j \in Nat, i > j, ~(i <= j), NEW steps, NEW n \in Nat
    PROVE  \A f : ItemsMean(t, f, i, j, steps, n) = <<>>
BY Zenon DEF ItemsMean

LEMMA CommaMeans ==
    ASSUME NEW t, NEW i \in Nat, NEW j \in Nat, ~(i > j), i <= j, IsComma(t[i]),
           NEW steps, NEW n \in Nat
    PROVE  \A f : ItemsMean(t, f, i, j, steps, n) = f[<< <<"items", i + 1, j>>, steps, n>>]
BY Zenon DEF ItemsMean, IsComma

ItemThen(f, i, j, k, steps, n) ==
    f[<< <<"value", i, k>>, Append(steps, Number[n]), 0>>]
       \o f[<< <<"items", k + 1, j>>, steps, n + 1>>]

LEMMA ItemMeans ==
    ASSUME NEW t, NEW i \in Nat, NEW j \in Nat, ~(i > j), i <= j, ~IsComma(t[i]),
           NEW steps, NEW n \in Nat, NEW k \in Nat, k = EndOf(t, "items", i, j)
    PROVE  \A f : ItemsMean(t, f, i, j, steps, n) = ItemThen(f, i, j, k, steps, n)
BY Zenon DEF ItemsMean, IsComma, ItemThen

LEMMA TextMeans ==
    ASSUME NEW t, NEW i \in Nat, NEW j \in Nat, i = j, ~(i < j), NEW steps
    PROVE  \A f : ValueMeans(t, f, i, j, steps) = << [steps |-> steps, value |-> t[i].word] >>
BY Zenon DEF ValueMeans

LEMMA ListMeans ==
    ASSUME NEW t, NEW i \in Nat, NEW j \in Nat, i # j, i < j, t[i].type = "[", NEW steps
    PROVE  \A f : ValueMeans(t, f, i, j, steps) = f[<< <<"items", i + 1, j - 1>>, steps, 0>>]
BY Zenon DEF ValueMeans

LEMMA MapMeans ==
    ASSUME NEW t, NEW i \in Nat, NEW j \in Nat, i # j, i < j, t[i].type # "[", NEW steps
    PROVE  \A f : ValueMeans(t, f, i, j, steps) =
                    f[<< <<"settings", i + 1, j - 1>>, steps, 0>>]
BY Zenon DEF ValueMeans

(* What a phrase means is made of what smaller ones mean.                  *)
SmallPhrases(t, x) == Below(Phrases(t), PhraseSizes(t), Size(x[1]))
Shaped(t, x) ==
    \/ \A f : MeanOf(t, f, x) = <<>>
    \/ \E v \in Settled : \A f : MeanOf(t, f, x) = <<v>>
    \/ \E y \in SmallPhrases(t, x) : \A f : MeanOf(t, f, x) = f[y]
    \/ \E y, z \in SmallPhrases(t, x) : \A f : MeanOf(t, f, x) = f[y] \o f[z]

LEMMA SmallPhrase ==
    ASSUME NEW t, NEW x, NEW kind \in {"settings", "items", "value"},
           NEW i \in 1 .. Len(t) + 1, NEW j \in 0 .. Len(t), NEW steps \in Steps,
           NEW n \in Nat, Derives(t)[<<kind, i, j>>],
           <<kind, i, j>> \in Below(Spans(t), Sizes(t), Size(x[1]))
    PROVE  << <<kind, i, j>>, steps, n>> \in SmallPhrases(t, x)
<1> DEFINE y == << <<kind, i, j>>, steps, n>>
<1>1. y \in Phrases(t) /\ y[1] = <<kind, i, j>>
  BY MorePhrases
<1>2. y[1] \in Spans(t) /\ Sizes(t)[y[1]] < Size(x[1])
  BY <1>1 DEF Below
<1> HIDE DEF y
<1>3. PhraseSizes(t)[y] = Size(y[1]) /\ Sizes(t)[y[1]] = Size(y[1])
  BY <1>1, <1>2 DEF PhraseSizes, Sizes
<1>4. y \in SmallPhrases(t, x)
  BY <1>1, <1>2, <1>3 DEF SmallPhrases, Below
<1>5. QED
  BY <1>4 DEF y

LEMMA MeanShapes ==
    ASSUME NEW t \in Seq(TokenSet), NEW x \in Phrases(t)
    PROVE  Shaped(t, x)
<1>1. PICK kind \in {"settings", "items", "value"}, i \in 1 .. Len(t) + 1,
           j \in 0 .. Len(t), steps \in Steps, n \in Nat : x = << <<kind, i, j>>, steps, n>>
  BY DEF Phrases, Spans
<1>2. Len(t) \in Nat /\ x[1] = <<kind, i, j>> /\ Derives(t)[<<kind, i, j>>]
  BY <1>1 DEF Phrases
<1>3. \A f : MeanOf(t, f, x) = Mean(t, f, kind, i, j, steps, n)
  BY <1>1 DEF MeanOf
<1> DEFINE small == Below(Spans(t), Sizes(t), Size(x[1]))
<1>4. CASE i > j /\ kind # "value"
  <2>1. \A f : SettingsMean(t, f, i, j, steps) = <<>>
    BY <1>4 DEF SettingsMean
  <2>2. ~(i <= j)
    BY <1>4
  <2>3. \A f : ItemsMean(t, f, i, j, steps, n) = <<>>
    BY <1>4, <2>2, NoItemMeans
  <2>4. \A f : MeanOf(t, f, x) = <<>>
    <3>1. kind = "settings" => \A f : MeanOf(t, f, x) = <<>>
      BY <1>3, <2>1, MeanSettings, Zenon
    <3>2. kind = "items" => \A f : MeanOf(t, f, x) = <<>>
      BY <1>3, <2>3, MeanItems, Zenon, SMTT(20)
    <3>3. QED
      BY <1>4, <3>1, <3>2
  <2>5. QED
    BY <2>4 DEF Shaped
<1>5. CASE i <= j /\ kind = "settings"
  <2>1. i \in 1 .. Len(t) /\ j \in i .. Len(t) /\ ~(i > j) /\ 0 \in Nat
    BY <1>5
  <2>2. PICK k : k = EndOf(t, "settings", i + 2, j)
    OBVIOUS
  <2>3. /\ i + 2 <= j /\ k \in i + 2 .. j /\ IsValue(t, i + 2, k) /\ IsSettings(t, k + 1, j)
        /\ Append(steps, t[i].word) \in Steps
    BY <1>2, <1>5, <2>1, <2>2, SettingsParts DEF IsSettings
  <2>4. /\ k \in i .. j /\ i + 2 \in 1 .. Len(t) + 1 /\ k \in 0 .. Len(t)
        /\ k + 1 \in 1 .. Len(t) + 1
    BY <2>1, <2>3
  <2>5. <<"value", i + 2, k>> \in small /\ <<"settings", k + 1, j>> \in small
    BY <1>2, <1>5, <2>1, <2>3, <2>4, SmallerSpans
  <2> HIDE DEF small
  <2> DEFINE y == << <<"value", i + 2, k>>, Append(steps, t[i].word), 0>>
             z == << <<"settings", k + 1, j>>, steps, 0>>
  <2>6. y \in SmallPhrases(t, x)
    BY <2>1, <2>3, <2>4, <2>5, SmallPhrase DEF small, IsValue
  <2>7. z \in SmallPhrases(t, x)
    BY <2>1, <2>3, <2>4, <2>5, SmallPhrase DEF small, IsSettings
  <2>8. \A f : MeanOf(t, f, x) = f[y] \o f[z]
    <3>1. \A f : MeanOf(t, f, x) = SettingsMean(t, f, i, j, steps)
      BY <1>3, <1>5, MeanSettings, Zenon
    <3>2. \A f : SettingsMean(t, f, i, j, steps) = f[y] \o f[z]
      BY <2>1, <2>2 DEF SettingsMean
    <3>3. QED
      BY <3>1, <3>2, Zenon
  <2> HIDE DEF y, z
  <2>9. QED
    BY <2>6, <2>7, <2>8 DEF Shaped
<1>6. CASE i <= j /\ kind = "items"
  <2>1. i \in 1 .. Len(t) /\ j \in i .. Len(t) /\ ~(i > j) /\ 0 \in Nat /\ n + 1 \in Nat
    BY <1>6
  <2>2. PICK k : k = EndOf(t, "items", i, j)
    OBVIOUS
  <2>3. /\ IsComma(t[i]) => IsItems(t, i + 1, j)
        /\ ~IsComma(t[i]) => k \in i .. j /\ IsValue(t, i, k) /\ IsItems(t, k + 1, j)
    BY <1>2, <1>6, <2>1, <2>2, ItemsParts DEF IsItems
  <2>4. \A f : MeanOf(t, f, x) = ItemsMean(t, f, i, j, steps, n)
    BY <1>3, <1>6, MeanItems, Zenon
  <2>5. CASE IsComma(t[i])
    <3> DEFINE y == << <<"items", i + 1, j>>, steps, n>>
    <3>1. i \in i .. j /\ i + 1 \in 1 .. Len(t) + 1
      BY <2>1
    <3>2. <<"items", i + 1, j>> \in small
      BY <1>2, <1>6, <2>1, <3>1, SmallerSpans
    <3> HIDE DEF small
    <3>3. y \in SmallPhrases(t, x)
      BY <2>3, <2>5, <3>1, <3>2, SmallPhrase DEF small, IsItems
    <3>4. \A f : MeanOf(t, f, x) = f[y]
      <4>1. ASSUME NEW f
            PROVE  ItemsMean(t, f, i, j, steps, n) = f[y]
        <5>1. ~(i > j) /\ i <= j /\ IsComma(t[i])
          BY <1>6, <2>1, <2>5
        <5>2. ItemsMean(t, f, i, j, steps, n) = f[<< <<"items", i + 1, j>>, steps, n>>]
          BY <5>1, CommaMeans
        <5>3. QED
          BY <5>2
      <4>2. QED
        BY <2>4, <4>1, Zenon
    <3> HIDE DEF y
    <3>5. QED
      BY <3>3, <3>4 DEF Shaped
  <2>6. CASE ~IsComma(t[i])
    <3> DEFINE y == << <<"value", i, k>>, Append(steps, Number[n]), 0>>
               z == << <<"items", k + 1, j>>, steps, n + 1>>
    <3>1. k \in i .. j /\ k \in 0 .. Len(t) /\ k + 1 \in 1 .. Len(t) + 1
      BY <2>1, <2>3, <2>6
    <3>2. <<"value", i, k>> \in small /\ <<"items", k + 1, j>> \in small
      BY <1>2, <1>6, <2>1, <3>1, SmallerSpans
    <3> HIDE DEF small
    <3>3. Append(steps, Number[n]) \in Steps
      BY NumberStep
    <3>4. y \in SmallPhrases(t, x)
      BY <2>1, <2>3, <2>6, <3>1, <3>2, <3>3, SmallPhrase DEF small, IsValue
    <3>5. z \in SmallPhrases(t, x)
      BY <2>1, <2>3, <2>6, <3>1, <3>2, SmallPhrase DEF small, IsItems
    <3>6. \A f : MeanOf(t, f, x) = f[y] \o f[z]
      <4>1. ASSUME NEW f
            PROVE  ItemsMean(t, f, i, j, steps, n) = f[y] \o f[z]
        <5>1. ~(i > j) /\ i <= j /\ ~IsComma(t[i]) /\ k \in Nat /\ i \in Nat /\ j \in Nat
          BY <1>6, <2>1, <2>6, <3>1
        <5>2. ItemsMean(t, f, i, j, steps, n) = ItemThen(f, i, j, k, steps, n)
          BY <2>2, <5>1, ItemMeans
        <5>3. QED
          BY <5>2 DEF ItemThen
      <4>2. QED
        BY <2>4, <4>1, Zenon
    <3> HIDE DEF y, z
    <3>7. QED
      BY <3>4, <3>5, <3>6 DEF Shaped
  <2>7. QED
    BY <2>5, <2>6
<1>7. CASE kind = "value"
  <2>1. IsValue(t, i, j)
    BY <1>2, <1>7 DEF IsValue
  <2>2. i <= j
    BY <1>2, <2>1, ValueBegins
  <2>3. i \in 1 .. Len(t) /\ j \in i .. Len(t) /\ 0 \in Nat
    BY <2>2
  <2>4. \A f : MeanOf(t, f, x) = ValueMeans(t, f, i, j, steps)
    BY <1>3, <1>7, MeanValue, Zenon
  <2>5. CASE i = j
    <3>1. ~(i < j) /\ t[i].word \in Seq(Kept)
      BY <2>1, <2>3, <2>5, ValueParts
    <3>2. PICK v : v = [steps |-> steps, value |-> t[i].word]
      OBVIOUS
    <3>3. v \in Settled
      BY <3>1, <3>2 DEF Settled
    <3>4. \A f : ValueMeans(t, f, i, j, steps) = <<v>>
      BY <2>5, <3>1, <3>2, TextMeans
    <3>5. \A f : MeanOf(t, f, x) = <<v>>
      BY <2>4, <3>4, Zenon
    <3>6. QED
      BY <3>3, <3>5 DEF Shaped
  <2>6. CASE i # j
    <3>1. i < j /\ i + 1 \in 1 .. Len(t) + 1 /\ j - 1 \in 0 .. Len(t)
      BY <2>3, <2>6
    <3>2. <<"settings", i + 1, j - 1>> \in small /\ <<"items", i + 1, j - 1>> \in small
      BY <1>2, <2>3, <3>1, SmallerSpans
    <3> HIDE DEF small
    <3>3. CASE t[i].type = "["
      <4> DEFINE y == << <<"items", i + 1, j - 1>>, steps, 0>>
      <4>1. IsItems(t, i + 1, j - 1)
        BY <2>1, <2>3, <3>1, <3>3, ValueParts
      <4>2. y \in SmallPhrases(t, x)
        BY <2>3, <3>1, <3>2, <4>1, SmallPhrase DEF small, IsItems
      <4>3. ASSUME NEW f
            PROVE  ValueMeans(t, f, i, j, steps) = f[y]
        <5>1. ValueMeans(t, f, i, j, steps) = f[<< <<"items", i + 1, j - 1>>, steps, 0>>]
          BY <2>6, <3>1, <3>3, ListMeans
        <5>2. QED
          BY <5>1
      <4> HIDE DEF y
      <4>4. \A f : MeanOf(t, f, x) = f[y]
        BY <2>4, <4>3, Zenon
      <4>5. QED
        BY <4>2, <4>4 DEF Shaped
    <3>4. CASE t[i].type # "["
      <4> DEFINE y == << <<"settings", i + 1, j - 1>>, steps, 0>>
      <4>1. IsSettings(t, i + 1, j - 1)
        BY <2>1, <2>3, <3>1, <3>4, ValueParts
      <4>2. y \in SmallPhrases(t, x)
        BY <2>3, <3>1, <3>2, <4>1, SmallPhrase DEF small, IsSettings
      <4>3. ASSUME NEW f
            PROVE  ValueMeans(t, f, i, j, steps) = f[y]
        <5>1. ValueMeans(t, f, i, j, steps) = f[<< <<"settings", i + 1, j - 1>>, steps, 0>>]
          BY <2>6, <3>1, <3>4, MapMeans
        <5>2. QED
          BY <5>1
      <4> HIDE DEF y
      <4>4. \A f : MeanOf(t, f, x) = f[y]
        BY <2>4, <4>3, Zenon
      <4>5. QED
        BY <4>2, <4>4 DEF Shaped
    <3>5. QED
      BY <3>3, <3>4
  <2>7. QED
    BY <2>5, <2>6
<1>8. QED
  <2>1. i > j \/ i <= j
    OBVIOUS
  <2>2. QED
    BY <1>4, <1>5, <1>6, <1>7, <2>1

LEMMA MeanTyped ==
    ASSUME NEW t \in Seq(TokenSet), NEW x \in Phrases(t), NEW f,
           \A y \in SmallPhrases(t, x) : f[y] \in Seq(Settled)
    PROVE  MeanOf(t, f, x) \in Seq(Settled)
<1>1. Shaped(t, x)
  BY MeanShapes
<1>2. CASE \A g : MeanOf(t, g, x) = <<>>
  <2>1. MeanOf(t, f, x) = <<>>
    BY <1>2, Zenon
  <2>2. QED
    BY <2>1, EmptySeq
<1>3. CASE \E v \in Settled : \A g : MeanOf(t, g, x) = <<v>>
  <2>1. PICK v \in Settled : MeanOf(t, f, x) = <<v>>
    BY <1>3, Zenon
  <2>2. QED
    BY <2>1
<1>4. CASE \E y \in SmallPhrases(t, x) : \A g : MeanOf(t, g, x) = g[y]
  <2>1. PICK y \in SmallPhrases(t, x) : MeanOf(t, f, x) = f[y]
    BY <1>4, Zenon
  <2>2. QED
    BY <2>1
<1>5. CASE \E y, z \in SmallPhrases(t, x) : \A g : MeanOf(t, g, x) = g[y] \o g[z]
  <2>1. PICK y \in SmallPhrases(t, x), z \in SmallPhrases(t, x) :
            MeanOf(t, f, x) = f[y] \o f[z]
    BY <1>5, Zenon
  <2>2. f[y] \in Seq(Settled) /\ f[z] \in Seq(Settled)
    BY <2>1
  <2>3. QED
    BY <2>1, <2>2, ConcatProperties
<1>6. QED
  BY <1>1, <1>2, <1>3, <1>4, <1>5 DEF Shaped

LEMMA MeanSame ==
    ASSUME NEW t \in Seq(TokenSet), NEW x \in Phrases(t), NEW f, NEW g,
           Same(f, g, SmallPhrases(t, x))
    PROVE  MeanOf(t, f, x) = MeanOf(t, g, x)
<1>1. Shaped(t, x)
  BY MeanShapes
<1>2. \A y \in SmallPhrases(t, x) : f[y] = g[y]
  BY DEF Same
<1>3. CASE \A e : MeanOf(t, e, x) = <<>>
  BY <1>3, Zenon
<1>4. CASE \E v \in Settled : \A e : MeanOf(t, e, x) = <<v>>
  BY <1>4, Zenon
<1>5. CASE \E y \in SmallPhrases(t, x) : \A e : MeanOf(t, e, x) = e[y]
  <2>1. PICK y \in SmallPhrases(t, x) : \A e : MeanOf(t, e, x) = e[y]
    BY <1>5
  <2>2. MeanOf(t, f, x) = f[y]
    BY <2>1, Zenon
  <2>3. MeanOf(t, g, x) = g[y]
    BY <2>1, Zenon
  <2>4. f[y] = g[y]
    BY <1>2
  <2>5. QED
    BY <2>2, <2>3, <2>4
<1>6. CASE \E y, z \in SmallPhrases(t, x) : \A e : MeanOf(t, e, x) = e[y] \o e[z]
  <2>1. PICK y \in SmallPhrases(t, x), z \in SmallPhrases(t, x) :
            \A e : MeanOf(t, e, x) = e[y] \o e[z]
    BY <1>6
  <2>2. MeanOf(t, f, x) = f[y] \o f[z]
    BY <2>1, Zenon
  <2>3. MeanOf(t, g, x) = g[y] \o g[z]
    BY <2>1, Zenon
  <2>4. f[y] = g[y] /\ f[z] = g[z]
    BY <1>2
  <2>5. QED
    BY <2>2, <2>3, <2>4
<1>7. QED
  BY <1>1, <1>3, <1>4, <1>5, <1>6 DEF Shaped

LEMMA PhraseSizesNat ==
    ASSUME NEW t, Len(t) \in Nat
    PROVE  PhraseSizes(t) \in [Phrases(t) -> Nat]
<1>1. \A x \in Phrases(t) : x[1] \in Spans(t)
  BY DEF Phrases
<1>2. \A x \in Phrases(t) : Size(x[1]) \in Nat
  BY <1>1, SizesNat DEF Sizes
<1>3. QED
  BY <1>2 DEF PhraseSizes

LEMMA MeansIs ==
    ASSUME NEW t \in Seq(TokenSet)
    PROVE  \A x \in Phrases(t) : /\ Means(t)[x] \in Seq(Settled)
                                 /\ Means(t)[x] = MeanOf(t, Means(t), x)
<1> DEFINE D == Phrases(t)
           V == Seq(Settled)
           h == [y \in D \X [D -> V] |-> MeanOf(t, y[2], y[1])]
<1>1. \A x \in D, f \in [D -> V] : h[<<x, f>>] = MeanOf(t, f, x)
  OBVIOUS
<1>2. \A x \in D : SmallPhrases(t, x) \subseteq D /\ PhraseSizes(t)[x] = Size(x[1])
  BY DEF SmallPhrases, Below, PhraseSizes
<1>3. h \in [D \X [D -> V] -> V]
  <2>1. ASSUME NEW x \in D, NEW f \in [D -> V]
        PROVE  MeanOf(t, f, x) \in V
    <3>1. \A y \in SmallPhrases(t, x) : f[y] \in V
      BY <1>2
    <3>2. QED
      BY <3>1, MeanTyped
  <2>2. QED
    BY <2>1
<1>4. UsesSmaller(D, V, PhraseSizes(t), h)
  <2> HIDE DEF h
  <2>1. ASSUME NEW x \in D, NEW f \in [D -> V], NEW g \in [D -> V],
               Same(f, g, Below(D, PhraseSizes(t), PhraseSizes(t)[x]))
        PROVE  h[<<x, f>>] = h[<<x, g>>]
    <3>1. Same(f, g, SmallPhrases(t, x))
      BY <1>2, <2>1 DEF SmallPhrases
    <3>2. MeanOf(t, f, x) = MeanOf(t, g, x)
      BY <3>1, MeanSame
    <3>3. QED
      BY <1>1, <3>2
  <2>2. QED
    BY <2>1 DEF UsesSmaller
<1>5. PhraseSizes(t) \in [D -> Nat]
  BY PhraseSizesNat
<1>6. V # {}
  BY EmptySeq
<1> HIDE DEF h, D, V
<1>7. PICK f \in [D -> V] : Solution(D, h, f)
  BY <1>3, <1>4, <1>5, <1>6, SolutionExists
<1>8. f = [x \in D |-> MeanOf(t, f, x)]
  BY <1>1, <1>7 DEF Solution
<1>9. Means(t) = CHOOSE g : g = [x \in D |-> MeanOf(t, g, x)]
  BY DEF Means, MeanOf, D
<1>10. Means(t) = [x \in D |-> MeanOf(t, Means(t), x)]
  BY <1>8, <1>9
<1>11. \A x \in D : Means(t)[x] = MeanOf(t, Means(t), x)
  BY <1>10
<1> DEFINE S == {x \in D : Means(t)[x] \in V}
<1>12. Inductive(D, PhraseSizes(t), S)
  <2>1. ASSUME NEW x \in D, Below(D, PhraseSizes(t), PhraseSizes(t)[x]) \subseteq S
        PROVE  x \in S
    <3>1. \A y \in SmallPhrases(t, x) : Means(t)[y] \in V
      BY <1>2, <2>1 DEF SmallPhrases, D
    <3>2. MeanOf(t, Means(t), x) \in V
      BY <3>1, MeanTyped DEF D, V
    <3>3. QED
      BY <1>11, <3>2
  <2>2. QED
    BY <2>1 DEF Inductive
<1> HIDE DEF S
<1>13. \A x \in D : x \in S
  BY <1>5, <1>12, MeasureInduction
<1>14. QED
  BY <1>11, <1>13 DEF S, D, V

-----------------------------------------------------------------------------
(* What phrases mean, kind by kind.                                        *)
Meant(t, kind, i, j, steps, n) == Means(t)[<< <<kind, i, j>>, steps, n>>]

LEMMA MeantIs ==
    ASSUME NEW t \in Seq(TokenSet), NEW kind \in {"settings", "items", "value"},
           NEW i \in 1 .. Len(t) + 1, NEW j \in 0 .. Len(t), NEW steps \in Steps,
           NEW n \in Nat, Derives(t)[<<kind, i, j>>]
    PROVE  /\ Meant(t, kind, i, j, steps, n) \in Seq(Settled)
           /\ Meant(t, kind, i, j, steps, n) = Mean(t, Means(t), kind, i, j, steps, n)
<1> DEFINE x == << <<kind, i, j>>, steps, n>>
<1>1. x \in Phrases(t)
  BY MorePhrases
<1>2. MeanOf(t, Means(t), x) = Mean(t, Means(t), kind, i, j, steps, n)
  BY DEF MeanOf
<1> HIDE DEF x
<1>3. Means(t)[x] \in Seq(Settled) /\ Means(t)[x] = MeanOf(t, Means(t), x)
  BY <1>1, MeansIs
<1>4. QED
  BY <1>2, <1>3 DEF Meant, x

LEMMA MeantSettings ==
    ASSUME NEW t \in Seq(TokenSet), NEW i \in 1 .. Len(t) + 1, NEW j \in 0 .. Len(t),
           NEW steps \in Steps, IsSettings(t, i, j),
           NEW k, k = EndOf(t, "settings", i + 2, j)
    PROVE  /\ Meant(t, "settings", i, j, steps, 0) \in Seq(Settled)
           /\ i > j => Meant(t, "settings", i, j, steps, 0) = <<>>
           /\ i <= j => Meant(t, "settings", i, j, steps, 0) =
                            Meant(t, "value", i + 2, k, Append(steps, t[i].word), 0)
                                \o Meant(t, "settings", k + 1, j, steps, 0)
<1>1. 0 \in Nat /\ (i <= j => ~(i > j))
  OBVIOUS
<1>2. /\ Meant(t, "settings", i, j, steps, 0) \in Seq(Settled)
      /\ Meant(t, "settings", i, j, steps, 0) = Mean(t, Means(t), "settings", i, j, steps, 0)
  BY <1>1, MeantIs DEF IsSettings
<1>3. Meant(t, "settings", i, j, steps, 0) = SettingsMean(t, Means(t), i, j, steps)
  BY <1>2, MeanSettings
<1>4. ~(i > j) => SettingsMean(t, Means(t), i, j, steps) =
                            Meant(t, "value", i + 2, k, Append(steps, t[i].word), 0)
                                \o Meant(t, "settings", k + 1, j, steps, 0)
  BY DEF SettingsMean, Meant
<1>5. i > j => SettingsMean(t, Means(t), i, j, steps) = <<>>
  BY DEF SettingsMean
<1>6. QED
  BY <1>1, <1>2, <1>3, <1>4, <1>5

LEMMA MeantItems ==
    ASSUME NEW t \in Seq(TokenSet), NEW i \in 1 .. Len(t) + 1, NEW j \in 0 .. Len(t),
           NEW steps \in Steps, NEW n \in Nat, IsItems(t, i, j),
           NEW k, k = EndOf(t, "items", i, j)
    PROVE  /\ Meant(t, "items", i, j, steps, n) \in Seq(Settled)
           /\ i > j => Meant(t, "items", i, j, steps, n) = <<>>
           /\ i <= j /\ IsComma(t[i]) =>
                Meant(t, "items", i, j, steps, n) = Meant(t, "items", i + 1, j, steps, n)
           /\ i <= j /\ ~IsComma(t[i]) =>
                Meant(t, "items", i, j, steps, n) =
                    Meant(t, "value", i, k, Append(steps, Number[n]), 0)
                        \o Meant(t, "items", k + 1, j, steps, n + 1)
<1>1. i \in Nat /\ j \in Nat /\ (i <= j => ~(i > j)) /\ (i > j => ~(i <= j))
  OBVIOUS
<1>2. /\ Meant(t, "items", i, j, steps, n) \in Seq(Settled)
      /\ Meant(t, "items", i, j, steps, n) = Mean(t, Means(t), "items", i, j, steps, n)
  BY MeantIs DEF IsItems
<1>3. Meant(t, "items", i, j, steps, n) = ItemsMean(t, Means(t), i, j, steps, n)
  BY <1>2, MeanItems
<1>4. i > j => ItemsMean(t, Means(t), i, j, steps, n) = <<>>
  BY <1>1, NoItemMeans
<1>5. i <= j /\ IsComma(t[i]) =>
        ItemsMean(t, Means(t), i, j, steps, n) = Meant(t, "items", i + 1, j, steps, n)
  BY <1>1, CommaMeans DEF Meant
<1>6. ASSUME i <= j, ~IsComma(t[i])
      PROVE  ItemsMean(t, Means(t), i, j, steps, n) =
                Meant(t, "value", i, k, Append(steps, Number[n]), 0)
                    \o Meant(t, "items", k + 1, j, steps, n + 1)
  <2>1. i \in 1 .. Len(t) /\ j \in i .. Len(t)
    BY <1>6
  <2>2. k \in i .. j
    BY <1>6, <2>1, ItemsParts
  <2>3. k \in Nat
    BY <2>2
  <2>4. ItemsMean(t, Means(t), i, j, steps, n) = ItemThen(Means(t), i, j, k, steps, n)
    BY <1>1, <1>6, <2>3, ItemMeans
  <2>5. QED
    BY <2>4 DEF ItemThen, Meant
<1>7. QED
  BY <1>2, <1>3, <1>4, <1>5, <1>6

LEMMA MeantValue ==
    ASSUME NEW t \in Seq(TokenSet), NEW i \in 1 .. Len(t), NEW j \in 0 .. Len(t),
           NEW steps \in Steps, IsValue(t, i, j)
    PROVE  /\ Meant(t, "value", i, j, steps, 0) \in Seq(Settled)
           /\ i = j => Meant(t, "value", i, j, steps, 0) =
                            << [steps |-> steps, value |-> t[i].word] >>
           /\ i < j /\ t[i].type = "[" =>
                Meant(t, "value", i, j, steps, 0) = Meant(t, "items", i + 1, j - 1, steps, 0)
           /\ i < j /\ t[i].type # "[" =>
                Meant(t, "value", i, j, steps, 0) =
                    Meant(t, "settings", i + 1, j - 1, steps, 0)
<1>1. /\ 0 \in Nat /\ i \in Nat /\ j \in Nat /\ (i = j => ~(i < j)) /\ (i < j => i # j)
      /\ i \in 1 .. Len(t) + 1
  OBVIOUS
<1>2. /\ Meant(t, "value", i, j, steps, 0) \in Seq(Settled)
      /\ Meant(t, "value", i, j, steps, 0) = Mean(t, Means(t), "value", i, j, steps, 0)
  BY <1>1, MeantIs DEF IsValue
<1>3. Meant(t, "value", i, j, steps, 0) = ValueMeans(t, Means(t), i, j, steps)
  BY <1>2, MeanValue
<1>4. i = j => ValueMeans(t, Means(t), i, j, steps) =
                    << [steps |-> steps, value |-> t[i].word] >>
  BY <1>1, TextMeans
<1>5. ASSUME i < j, t[i].type = "["
      PROVE  Meant(t, "value", i, j, steps, 0) = Meant(t, "items", i + 1, j - 1, steps, 0)
  <2>1. ValueMeans(t, Means(t), i, j, steps) = Means(t)[<< <<"items", i + 1, j - 1>>, steps, 0>>]
    BY <1>1, <1>5, ListMeans
  <2>2. QED
    BY <1>3, <2>1 DEF Meant
<1>6. ASSUME i < j, t[i].type # "["
      PROVE  Meant(t, "value", i, j, steps, 0) = Meant(t, "settings", i + 1, j - 1, steps, 0)
  <2>1. ValueMeans(t, Means(t), i, j, steps) =
            Means(t)[<< <<"settings", i + 1, j - 1>>, steps, 0>>]
    BY <1>1, <1>6, MapMeans
  <2>2. QED
    BY <1>3, <2>1 DEF Meant
<1>7. QED
  BY <1>2, <1>3, <1>4, <1>5, <1>6

-----------------------------------------------------------------------------
(* The number of items, in the same way.                                   *)
ItemSize(x) == IF x[1] > x[2] THEN 0 ELSE x[2] - x[1] + 1
ItemSizes(t) == [x \in ItemSpans(t) |-> ItemSize(x)]
SmallItems(t, x) == Below(ItemSpans(t), ItemSizes(t), ItemSize(x))
ItemsOf(t, f, x) == ItemsFrom(t, f, x[1], x[2])

LEMMA NoItems ==
    ASSUME NEW t, NEW i \in Nat, NEW j \in Nat, i > j, ~(i <= j)
    PROVE  \A f : ItemsFrom(t, f, i, j) = 0
BY Zenon DEF ItemsFrom

LEMMA CommaItems ==
    ASSUME NEW t, NEW i \in Nat, NEW j \in Nat, ~(i > j), i <= j, IsComma(t[i])
    PROVE  \A f : ItemsFrom(t, f, i, j) = f[<<i + 1, j>>]
BY Zenon DEF ItemsFrom, IsComma

LEMMA OneItem ==
    ASSUME NEW t, NEW i \in Nat, NEW j \in Nat, ~(i > j), i <= j, ~IsComma(t[i]),
           NEW k \in Nat, k = EndOf(t, "items", i, j)
    PROVE  \A f : ItemsFrom(t, f, i, j) = 1 + f[<<k + 1, j>>]
BY Zenon DEF ItemsFrom, IsComma

LEMMA SmallItem ==
    ASSUME NEW t, Len(t) \in Nat, NEW x \in ItemSpans(t), NEW k \in x[1] .. x[2],
           IsItems(t, k + 1, x[2])
    PROVE  <<k + 1, x[2]>> \in SmallItems(t, x)
<1>1. PICK i \in 1 .. Len(t) + 1, j \in 0 .. Len(t) : x = <<i, j>>
  BY DEF ItemSpans
<1>2. k \in i .. j /\ k + 1 \in 1 .. Len(t) + 1 /\ IsItems(t, k + 1, j)
  BY <1>1
<1> DEFINE y == <<k + 1, j>>
<1>3. y \in ItemSpans(t)
  BY <1>2 DEF ItemSpans
<1>4. ItemSize(y) < ItemSize(x)
  BY <1>1, <1>2 DEF ItemSize
<1> HIDE DEF y
<1>5. ItemSizes(t)[y] = ItemSize(y)
  BY <1>3 DEF ItemSizes
<1>6. y \in SmallItems(t, x)
  BY <1>3, <1>4, <1>5 DEF SmallItems, Below
<1>7. QED
  BY <1>1, <1>6 DEF y

ItemsShaped(t, x) ==
    \/ \A f : ItemsOf(t, f, x) = 0
    \/ \E y \in SmallItems(t, x) : \A f : ItemsOf(t, f, x) = f[y]
    \/ \E y \in SmallItems(t, x) : \A f : ItemsOf(t, f, x) = 1 + f[y]

LEMMA ItemsShapes ==
    ASSUME NEW t \in Seq(TokenSet), NEW x \in ItemSpans(t)
    PROVE  ItemsShaped(t, x)
<1>1. PICK i \in 1 .. Len(t) + 1, j \in 0 .. Len(t) : x = <<i, j>>
  BY DEF ItemSpans
<1>2. IsItems(t, i, j) /\ x[1] = i /\ x[2] = j /\ Len(t) \in Nat /\ i \in Nat /\ j \in Nat
  BY <1>1 DEF ItemSpans
<1>3. \A f : ItemsOf(t, f, x) = ItemsFrom(t, f, i, j)
  BY <1>2 DEF ItemsOf
<1>4. CASE i > j
  <2>1. ~(i <= j)
    BY <1>4
  <2>2. \A f : ItemsFrom(t, f, i, j) = 0
    BY <1>2, <1>4, <2>1, NoItems
  <2>3. \A f : ItemsOf(t, f, x) = 0
    BY <1>3, <2>2, Zenon
  <2>4. QED
    BY <2>3 DEF ItemsShaped
<1>5. CASE i <= j /\ IsComma(t[i])
  <2>1. i \in 1 .. Len(t) /\ j \in i .. Len(t) /\ ~(i > j) /\ i \in i .. j
    BY <1>5
  <2>2. IsItems(t, i + 1, j)
    BY <1>2, <1>5, <2>1, ItemsParts
  <2> DEFINE y == <<i + 1, j>>
  <2>3. y \in SmallItems(t, x)
    BY <1>2, <2>1, <2>2, SmallItem
  <2>4. \A f : ItemsFrom(t, f, i, j) = f[y]
    BY <1>2, <1>5, <2>1, CommaItems
  <2> HIDE DEF y
  <2>5. \A f : ItemsOf(t, f, x) = f[y]
    BY <1>3, <2>4, Zenon
  <2>6. QED
    BY <2>3, <2>5 DEF ItemsShaped
<1>6. CASE i <= j /\ ~IsComma(t[i])
  <2>1. i \in 1 .. Len(t) /\ j \in i .. Len(t) /\ ~(i > j)
    BY <1>6
  <2>2. PICK k : k = EndOf(t, "items", i, j)
    OBVIOUS
  <2>3. k \in i .. j /\ IsItems(t, k + 1, j)
    BY <1>2, <1>6, <2>1, <2>2, ItemsParts
  <2> DEFINE y == <<k + 1, j>>
  <2>4. y \in SmallItems(t, x)
    BY <1>2, <2>3, SmallItem
  <2>5. \A f : ItemsFrom(t, f, i, j) = 1 + f[y]
    <3>1. k \in Nat
      BY <2>3
    <3>2. QED
      BY <1>2, <1>6, <2>1, <2>2, <3>1, OneItem
  <2> HIDE DEF y
  <2>6. \A f : ItemsOf(t, f, x) = 1 + f[y]
    BY <1>3, <2>5, Zenon
  <2>7. QED
    BY <2>4, <2>6 DEF ItemsShaped
<1>7. QED
  BY <1>4, <1>5, <1>6

LEMMA ItemsTyped ==
    ASSUME NEW t \in Seq(TokenSet), NEW x \in ItemSpans(t), NEW f,
           \A y \in SmallItems(t, x) : f[y] \in Nat
    PROVE  ItemsOf(t, f, x) \in Nat
<1>1. ItemsShaped(t, x)
  BY ItemsShapes
<1>2. CASE \A g : ItemsOf(t, g, x) = 0
  <2>1. ItemsOf(t, f, x) = 0
    BY <1>2, Zenon
  <2>2. QED
    BY <2>1
<1>3. CASE \E y \in SmallItems(t, x) : \A g : ItemsOf(t, g, x) = g[y]
  <2>1. PICK y \in SmallItems(t, x) : ItemsOf(t, f, x) = f[y]
    BY <1>3, Zenon
  <2>2. QED
    BY <2>1
<1>4. CASE \E y \in SmallItems(t, x) : \A g : ItemsOf(t, g, x) = 1 + g[y]
  <2>1. PICK y \in SmallItems(t, x) : ItemsOf(t, f, x) = 1 + f[y]
    BY <1>4, Zenon
  <2>2. QED
    BY <2>1
<1>5. QED
  BY <1>1, <1>2, <1>3, <1>4 DEF ItemsShaped

LEMMA ItemsSame ==
    ASSUME NEW t \in Seq(TokenSet), NEW x \in ItemSpans(t), NEW f, NEW g,
           Same(f, g, SmallItems(t, x))
    PROVE  ItemsOf(t, f, x) = ItemsOf(t, g, x)
<1>1. ItemsShaped(t, x)
  BY ItemsShapes
<1>2. \A y \in SmallItems(t, x) : f[y] = g[y]
  BY DEF Same
<1>3. CASE \A e : ItemsOf(t, e, x) = 0
  BY <1>3, Zenon
<1>4. CASE \E y \in SmallItems(t, x) : \A e : ItemsOf(t, e, x) = e[y]
  <2>1. PICK y \in SmallItems(t, x) : \A e : ItemsOf(t, e, x) = e[y]
    BY <1>4
  <2>2. ItemsOf(t, f, x) = f[y]
    BY <2>1, Zenon
  <2>3. ItemsOf(t, g, x) = g[y]
    BY <2>1, Zenon
  <2>4. QED
    BY <1>2, <2>2, <2>3
<1>5. CASE \E y \in SmallItems(t, x) : \A e : ItemsOf(t, e, x) = 1 + e[y]
  <2>1. PICK y \in SmallItems(t, x) : \A e : ItemsOf(t, e, x) = 1 + e[y]
    BY <1>5
  <2>2. ItemsOf(t, f, x) = 1 + f[y]
    BY <2>1, Zenon
  <2>3. ItemsOf(t, g, x) = 1 + g[y]
    BY <2>1, Zenon
  <2>4. QED
    BY <1>2, <2>2, <2>3
<1>6. QED
  BY <1>1, <1>3, <1>4, <1>5 DEF ItemsShaped

LEMMA ItemSizesNat == \A t : Len(t) \in Nat => ItemSizes(t) \in [ItemSpans(t) -> Nat]
<1>1. ASSUME NEW t, Len(t) \in Nat, NEW x \in ItemSpans(t)
      PROVE  ItemSize(x) \in Nat
  <2>1. x[1] \in Nat /\ x[2] \in Nat
    BY <1>1 DEF ItemSpans
  <2>2. QED
    BY <2>1 DEF ItemSize
<1>2. QED
  BY <1>1 DEF ItemSizes

LEMMA ItemsIs ==
    ASSUME NEW t \in Seq(TokenSet)
    PROVE  \A x \in ItemSpans(t) : /\ Items(t)[x] \in Nat
                                   /\ Items(t)[x] = ItemsOf(t, Items(t), x)
<1> DEFINE D == ItemSpans(t)
           h == [y \in D \X [D -> Nat] |-> ItemsOf(t, y[2], y[1])]
<1>1. \A x \in D, f \in [D -> Nat] : h[<<x, f>>] = ItemsOf(t, f, x)
  OBVIOUS
<1>2. \A x \in D : SmallItems(t, x) \subseteq D /\ ItemSizes(t)[x] = ItemSize(x)
  BY DEF SmallItems, Below, ItemSizes
<1>3. h \in [D \X [D -> Nat] -> Nat]
  <2>1. ASSUME NEW x \in D, NEW f \in [D -> Nat]
        PROVE  ItemsOf(t, f, x) \in Nat
    <3>1. \A y \in SmallItems(t, x) : f[y] \in Nat
      BY <1>2
    <3>2. QED
      BY <3>1, ItemsTyped
  <2>2. QED
    BY <2>1
<1>4. UsesSmaller(D, Nat, ItemSizes(t), h)
  <2> HIDE DEF h
  <2>1. ASSUME NEW x \in D, NEW f \in [D -> Nat], NEW g \in [D -> Nat],
               Same(f, g, Below(D, ItemSizes(t), ItemSizes(t)[x]))
        PROVE  h[<<x, f>>] = h[<<x, g>>]
    <3>1. Same(f, g, SmallItems(t, x))
      BY <1>2, <2>1 DEF SmallItems
    <3>2. ItemsOf(t, f, x) = ItemsOf(t, g, x)
      BY <3>1, ItemsSame
    <3>3. QED
      BY <1>1, <3>2
  <2>2. QED
    BY <2>1 DEF UsesSmaller
<1>5. ItemSizes(t) \in [D -> Nat]
  BY ItemSizesNat
<1> HIDE DEF h, D
<1>6. PICK f \in [D -> Nat] : Solution(D, h, f)
  BY <1>3, <1>4, <1>5, SolutionExists
<1>7. f = [x \in D |-> ItemsOf(t, f, x)]
  BY <1>1, <1>6 DEF Solution
<1>8. Items(t) = CHOOSE g : g = [x \in D |-> ItemsOf(t, g, x)]
  BY DEF Items, ItemsOf, D
<1>9. Items(t) = [x \in D |-> ItemsOf(t, Items(t), x)]
  BY <1>7, <1>8
<1>10. \A x \in D : Items(t)[x] = ItemsOf(t, Items(t), x)
  BY <1>9
<1> DEFINE S == {x \in D : Items(t)[x] \in Nat}
<1>11. Inductive(D, ItemSizes(t), S)
  <2>1. ASSUME NEW x \in D, Below(D, ItemSizes(t), ItemSizes(t)[x]) \subseteq S
        PROVE  x \in S
    <3>1. \A y \in SmallItems(t, x) : Items(t)[y] \in Nat
      BY <1>2, <2>1 DEF SmallItems, D
    <3>2. ItemsOf(t, Items(t), x) \in Nat
      BY <3>1, ItemsTyped DEF D
    <3>3. QED
      BY <1>10, <3>2
  <2>2. QED
    BY <2>1 DEF Inductive
<1> HIDE DEF S
<1>12. \A x \in D : x \in S
  BY <1>5, <1>11, MeasureInduction
<1>13. QED
  BY <1>10, <1>12 DEF S, D

(* How many items are left of a list.                                      *)
Left(t, i, j) == Items(t)[<<i, j>>]

LEMMA LeftItems ==
    ASSUME NEW t \in Seq(TokenSet), NEW i \in 1 .. Len(t) + 1, NEW j \in 0 .. Len(t),
           IsItems(t, i, j), NEW k, k = EndOf(t, "items", i, j)
    PROVE  /\ Left(t, i, j) \in Nat
           /\ i <= j /\ IsComma(t[i]) => Left(t, i, j) = Left(t, i + 1, j)
           /\ i <= j /\ ~IsComma(t[i]) => Left(t, i, j) = 1 + Left(t, k + 1, j)
<1> DEFINE x == <<i, j>>
<1>1. x \in ItemSpans(t)
  BY DEF ItemSpans
<1>2. Items(t)[x] \in Nat /\ Items(t)[x] = ItemsOf(t, Items(t), x)
  BY <1>1, ItemsIs
<1>3. Left(t, i, j) \in Nat /\ Left(t, i, j) = ItemsFrom(t, Items(t), i, j)
  BY <1>2 DEF Left, ItemsOf
<1> HIDE DEF x
<1>4. i \in Nat /\ j \in Nat /\ (i <= j => ~(i > j))
  OBVIOUS
<1>5. ASSUME i <= j, IsComma(t[i])
      PROVE  Left(t, i, j) = Left(t, i + 1, j)
  <2>1. ItemsFrom(t, Items(t), i, j) = Items(t)[<<i + 1, j>>]
    BY <1>4, <1>5, CommaItems
  <2>2. QED
    BY <1>3, <2>1 DEF Left
<1>6. ASSUME i <= j, ~IsComma(t[i])
      PROVE  Left(t, i, j) = 1 + Left(t, k + 1, j)
  <2>1. i \in 1 .. Len(t) /\ j \in i .. Len(t)
    BY <1>6
  <2>2. k \in i .. j
    BY <1>6, <2>1, ItemsParts
  <2>3. k \in Nat
    BY <2>2
  <2>4. ItemsFrom(t, Items(t), i, j) = 1 + Items(t)[<<k + 1, j>>]
    BY <1>4, <1>6, <2>3, OneItem
  <2>5. QED
    BY <1>3, <2>4 DEF Left
<1>7. QED
  BY <1>3, <1>5, <1>6

-----------------------------------------------------------------------------
(* The path of steps, and PATH_PUSH_STR, PATH_PUSH_INT and PATH_POP.       *)
LEMMA Pushed ==
    ASSUME NEW p \in Seq(Chars), p # <<>>, NEW w \in Seq(Chars)
    PROVE  LET r == PushName(p, w) IN
           /\ r \in Seq(Chars) /\ Len(r) = Len(p) + 1 + Len(w) /\ Len(p) \in Nat
           /\ \A i \in 1 .. Len(p) : r[i] = p[i]
           /\ r[Len(p) + 1] = "."
           /\ \A i \in 1 .. Len(w) : r[Len(p) + 1 + i] = w[i]
<1> DEFINE q == Append(p, ".")
           r == q \o w
<1>1. PushName(p, w) = r
  BY DEF PushName, Dotted
<1>2. /\ q \in Seq(Chars) /\ Len(q) = Len(p) + 1 /\ q[Len(p) + 1] = "."
      /\ \A i \in 1 .. Len(p) : q[i] = p[i]
  <2>1. PICK dot \in Chars : dot = "."
    BY DEF Chars
  <2>2. q = Append(p, dot)
    BY <2>1
  <2>3. QED
    BY <2>1, <2>2, AppendProperties
<1> HIDE DEF q
<1>3. /\ r \in Seq(Chars) /\ Len(r) = Len(p) + 1 + Len(w)
      /\ \A i \in 1 .. Len(p) + 1 : r[i] = q[i]
      /\ \A i \in 1 .. Len(w) : r[Len(p) + 1 + i] = w[i]
  BY <1>2
<1> HIDE DEF r
<1>4. \A i \in 1 .. Len(p) : r[i] = p[i]
  BY <1>2, <1>3
<1>5. r[Len(p) + 1] = "."
  BY <1>2, <1>3
<1>6. QED
  BY <1>1, <1>3, <1>4, <1>5

LEMMA PopPushed ==
    ASSUME NEW p \in Seq(Chars), NEW w, NameWord(w)
    PROVE  Pop(PushName(p, w)) = p
<1>1. w \in Seq(Chars) /\ Len(w) \in Nat /\ Len(p) \in Nat
  BY DEF NameWord
<1>2. PICK r : r = PushName(p, w)
  OBVIOUS
<1> DEFINE dot == IF DotsOf(r) # {} THEN Max(DotsOf(r)) ELSE 0
<1>3. SelectLastInSeq(r, LAMBDA c : c = ".") = dot
  BY DEF SelectLastInSeq, DotsOf
<1>4. Pop(r) = SubSeq(r, 1, IF dot = 0 THEN 0 ELSE dot - 1)
  BY <1>3 DEF Pop
<1>5. CASE p = <<>>
  <2>1. r = w
    BY <1>1, <1>2, <1>5, ConcatEmptySeq DEF PushName, Dotted
  <2>2. DotsOf(r) = {}
    BY <2>1 DEF DotsOf, NameWord
  <2>3. Pop(r) = SubSeq(r, 1, 0)
    BY <1>4, <2>2
  <2>4. QED
    BY <1>1, <1>2, <1>5, <2>1, <2>3, SubSeqEmpty
<1>6. CASE p # <<>>
  <2> DEFINE n == Len(p)
  <2>1. /\ r \in Seq(Chars) /\ Len(r) = n + 1 + Len(w)
        /\ \A i \in 1 .. n : r[i] = p[i]
        /\ r[n + 1] = "."
        /\ \A i \in 1 .. Len(w) : r[n + 1 + i] = w[i]
    BY <1>1, <1>2, <1>6, Pushed
  <2>2. n + 1 \in 1 .. Len(r) /\ n \in Nat
    BY <1>1, <2>1
  <2> HIDE DEF n
  <2>3. n + 1 \in DotsOf(r)
    BY <2>1, <2>2 DEF DotsOf
  <2>4. ASSUME NEW i \in DotsOf(r)
        PROVE  i <= n + 1
    <3>1. i \in 1 .. Len(r) /\ r[i] = "."
      BY DEF DotsOf
    <3>2. SUFFICES ASSUME i > n + 1 PROVE FALSE
      BY <2>2, <3>1
    <3>3. PICK k \in Int : k = i - (n + 1)
      BY <2>2, <3>1
    <3>4. k \in 1 .. Len(w) /\ i = n + 1 + k
      BY <1>1, <2>1, <2>2, <3>1, <3>2, <3>3
    <3>5. w[k] = "."
      BY <2>1, <3>1, <3>4
    <3>6. QED
      BY <3>4, <3>5 DEF NameWord
  <2>5. PICK m : m = Max(DotsOf(r))
    OBVIOUS
  <2>6. m \in DotsOf(r) /\ \A j \in DotsOf(r) : j <= m
    <3>1. DotsOf(r) \in SUBSET (1 .. Len(r)) /\ DotsOf(r) # {} /\ Len(r) \in Nat
      BY <2>1, <2>3 DEF DotsOf
    <3>2. QED
      BY <2>5, <3>1, MaxExists
  <2>7. m = n + 1
    <3>1. m <= n + 1 /\ n + 1 <= m
      BY <2>3, <2>4, <2>6
    <3>2. m \in Int
      BY <2>6 DEF DotsOf
    <3>3. QED
      BY <2>2, <3>1, <3>2
  <2>8. Pop(r) = SubSeq(r, 1, n)
    <3>1. dot = n + 1
      BY <2>3, <2>5, <2>7
    <3>2. dot # 0 /\ dot - 1 = n
      BY <2>2, <3>1
    <3>3. QED
      BY <1>4, <3>2
  <2>9. PICK s : s = SubSeq(r, 1, n)
    OBVIOUS
  <2>10. s \in Seq(Chars) /\ Len(s) = n /\ \A i \in 1 .. n : s[i] = r[i]
    BY <2>1, <2>2, <2>9
  <2>11. s = p
    BY <2>1, <2>10, SeqEqual DEF n
  <2>12. QED
    BY <1>2, <2>8, <2>9, <2>11
<1>7. QED
  BY <1>5, <1>6

JoinedOf(f, steps) ==
    CASE steps = <<>> -> <<>>
      [] Len(steps) = 1 -> steps[1]
      [] OTHER -> f[Front(steps)] \o <<".">> \o Last(steps)
Depths == [steps \in Steps |-> Len(steps)]
Shorter(steps) == Below(Steps, Depths, Len(steps))
WordSteps == {steps \in Steps : \A i \in 1 .. Len(steps) : NameWord(steps[i])}

LEMMA NoSteps ==
    ASSUME NEW steps, steps = <<>>, Len(steps) # 1
    PROVE  \A f : JoinedOf(f, steps) = <<>>
BY Zenon DEF JoinedOf

LEMMA OneStep ==
    ASSUME NEW steps, steps # <<>>, Len(steps) = 1
    PROVE  \A f : JoinedOf(f, steps) = steps[1]
BY Zenon DEF JoinedOf

LEMMA MoreSteps ==
    ASSUME NEW steps, steps # <<>>, Len(steps) # 1
    PROVE  \A f : JoinedOf(f, steps) = f[Front(steps)] \o <<".">> \o Last(steps)
BY Zenon DEF JoinedOf

LEMMA CharWords == \A w \in Seq(STRING) : w \in Seq(Chars)
BY SeqMonotonic DEF Chars

LEMMA FrontIs ==
    ASSUME NEW S, NEW s \in Seq(S), Len(s) \in Nat \ {0}
    PROVE  /\ Front(s) \in Seq(S) /\ Len(Front(s)) = Len(s) - 1
           /\ \A i \in 1 .. Len(s) - 1 : Front(s)[i] = s[i]
           /\ Last(s) = s[Len(s)] /\ Last(s) \in S
<1>1. PICK n \in Nat : n = Len(s) - 1
  OBVIOUS
<1>2. Front(s) = SubSeq(s, 1, n) /\ \A i \in 1 .. n : s[i] \in S
  BY <1>1 DEF Front
<1>3. /\ Front(s) \in Seq(S) /\ Len(Front(s)) = n
      /\ \A i \in 1 .. n : Front(s)[i] = s[i]
  <2>1. /\ SubSeq(s, 1, n) \in Seq(S)
        /\ Len(SubSeq(s, 1, n)) = IF 1 <= n THEN n - 1 + 1 ELSE 0
        /\ \A i \in 1 .. n - 1 + 1 : SubSeq(s, 1, n)[i] = s[1 + i - 1]
    BY <1>2, SubSeqProperties
  <2>2. n - 1 + 1 = n /\ \A i \in 1 .. n : 1 + i - 1 = i
    OBVIOUS
  <2>3. QED
    BY <1>1, <1>2, <2>1, <2>2
<1>4. QED
  BY <1>1, <1>3 DEF Last

LEMMA FrontShorter ==
    ASSUME NEW steps \in Steps, steps # <<>>
    PROVE  /\ Front(steps) \in Shorter(steps) /\ Last(steps) \in Seq(STRING)
           /\ Len(steps) \in Nat \ {0} /\ Len(Front(steps)) = Len(steps) - 1
           /\ \A i \in 1 .. Len(steps) - 1 : Front(steps)[i] = steps[i]
           /\ Last(steps) = steps[Len(steps)]
<1>1. steps \in Seq(Seq(STRING)) /\ Len(steps) \in Nat \ {0}
  BY EmptySeq DEF Steps
<1>2. PICK f : f = Front(steps)
  OBVIOUS
<1>3. /\ f \in Steps /\ Len(f) = Len(steps) - 1
      /\ \A i \in 1 .. Len(steps) - 1 : f[i] = steps[i]
  BY <1>1, <1>2, FrontIs DEF Steps
<1>4. Last(steps) = steps[Len(steps)] /\ Last(steps) \in Seq(STRING)
  BY <1>1, FrontIs
<1>5. Depths[f] = Len(f) /\ Len(f) < Len(steps)
  BY <1>1, <1>3 DEF Depths
<1>6. f \in Shorter(steps)
  BY <1>3, <1>5 DEF Shorter, Below
<1>7. QED
  BY <1>1, <1>2, <1>3, <1>4, <1>6

LEMMA JoinedTyped ==
    ASSUME NEW steps \in Steps, NEW f, \A s \in Shorter(steps) : f[s] \in Seq(Chars)
    PROVE  JoinedOf(f, steps) \in Seq(Chars)
<1>1. CASE steps = <<>>
  <2>1. Len(steps) # 1
    BY <1>1
  <2>2. JoinedOf(f, steps) = <<>>
    BY <1>1, <2>1, NoSteps
  <2>3. QED
    BY <2>2, EmptySeq
<1>2. CASE steps # <<>> /\ Len(steps) = 1
  <2>1. JoinedOf(f, steps) = steps[1]
    BY <1>2, OneStep
  <2>2. steps[1] \in Seq(STRING)
    BY <1>2 DEF Steps
  <2>3. QED
    BY <2>1, <2>2, CharWords
<1>3. CASE steps # <<>> /\ Len(steps) # 1
  <2>1. JoinedOf(f, steps) = f[Front(steps)] \o <<".">> \o Last(steps)
    BY <1>3, MoreSteps
  <2>2. f[Front(steps)] \in Seq(Chars) /\ Last(steps) \in Seq(STRING)
    BY <1>3, FrontShorter
  <2>3. Last(steps) \in Seq(Chars)
    BY <2>2, CharWords
  <2>4. <<".">> \in Seq(Chars)
    <3>1. PICK dot \in Chars : dot = "."
      BY DEF Chars
    <3>2. <<dot>> \in Seq(Chars)
      OBVIOUS
    <3>3. QED
      BY <3>1, <3>2
  <2>5. QED
    BY <2>1, <2>2, <2>3, <2>4, ConcatProperties
<1>4. QED
  BY <1>1, <1>2, <1>3

LEMMA JoinedSame ==
    ASSUME NEW steps \in Steps, NEW f, NEW g, Same(f, g, Shorter(steps))
    PROVE  JoinedOf(f, steps) = JoinedOf(g, steps)
<1>1. CASE steps = <<>>
  <2>1. Len(steps) # 1
    BY <1>1
  <2>2. QED
    BY <1>1, <2>1, NoSteps
<1>2. CASE steps # <<>> /\ Len(steps) = 1
  BY <1>2, OneStep
<1>3. CASE steps # <<>> /\ Len(steps) # 1
  <2>1. f[Front(steps)] = g[Front(steps)]
    BY <1>3, FrontShorter DEF Same
  <2>2. JoinedOf(f, steps) = f[Front(steps)] \o <<".">> \o Last(steps)
    BY <1>3, MoreSteps
  <2>3. JoinedOf(g, steps) = g[Front(steps)] \o <<".">> \o Last(steps)
    BY <1>3, MoreSteps
  <2>4. QED
    BY <2>1, <2>2, <2>3
<1>4. QED
  BY <1>1, <1>2, <1>3

LEMMA JoinedIs ==
    \A steps \in Steps : Joined[steps] \in Seq(Chars) /\ Joined[steps] = JoinedOf(Joined, steps)
<1> DEFINE V == Seq(Chars)
           h == [y \in Steps \X [Steps -> V] |-> JoinedOf(y[2], y[1])]
<1>1. \A x \in Steps, f \in [Steps -> V] : h[<<x, f>>] = JoinedOf(f, x)
  OBVIOUS
<1>2. \A x \in Steps : Shorter(x) \subseteq Steps /\ Depths[x] = Len(x)
  BY DEF Shorter, Below, Depths
<1>3. h \in [Steps \X [Steps -> V] -> V]
  <2>1. ASSUME NEW x \in Steps, NEW f \in [Steps -> V]
        PROVE  JoinedOf(f, x) \in V
    <3>1. \A y \in Shorter(x) : f[y] \in V
      BY <1>2
    <3>2. QED
      BY <3>1, JoinedTyped
  <2>2. QED
    BY <2>1
<1>4. UsesSmaller(Steps, V, Depths, h)
  <2> HIDE DEF h
  <2>1. ASSUME NEW x \in Steps, NEW f \in [Steps -> V], NEW g \in [Steps -> V],
               Same(f, g, Below(Steps, Depths, Depths[x]))
        PROVE  h[<<x, f>>] = h[<<x, g>>]
    <3>1. Same(f, g, Shorter(x))
      BY <1>2, <2>1 DEF Shorter
    <3>2. JoinedOf(f, x) = JoinedOf(g, x)
      BY <3>1, JoinedSame
    <3>3. QED
      BY <1>1, <3>2
  <2>2. QED
    BY <2>1 DEF UsesSmaller
<1>5. Depths \in [Steps -> Nat] /\ V # {}
  <2>1. \A x \in Steps : Len(x) \in Nat
    BY DEF Steps
  <2>2. QED
    BY <2>1, EmptySeq DEF Depths
<1> HIDE DEF h, V
<1>6. PICK f \in [Steps -> V] : Solution(Steps, h, f)
  BY <1>3, <1>4, <1>5, SolutionExists
<1>7. f = [x \in Steps |-> JoinedOf(f, x)]
  BY <1>1, <1>6 DEF Solution
<1>8. Joined = CHOOSE g : g = [x \in Steps |-> JoinedOf(g, x)]
  BY DEF Joined, JoinedOf
<1>9. Joined = [x \in Steps |-> JoinedOf(Joined, x)]
  BY <1>7, <1>8
<1>10. \A x \in Steps : Joined[x] = JoinedOf(Joined, x)
  BY <1>9
<1> DEFINE S == {x \in Steps : Joined[x] \in V}
<1>11. Inductive(Steps, Depths, S)
  <2>1. ASSUME NEW x \in Steps, Below(Steps, Depths, Depths[x]) \subseteq S
        PROVE  x \in S
    <3>1. \A y \in Shorter(x) : Joined[y] \in V
      BY <1>2, <2>1 DEF Shorter
    <3>2. JoinedOf(Joined, x) \in V
      BY <3>1, JoinedTyped DEF V
    <3>3. QED
      BY <1>10, <3>2
  <2>2. QED
    BY <2>1 DEF Inductive
<1> HIDE DEF S
<1>12. \A x \in Steps : x \in S
  BY <1>5, <1>11, MeasureInduction
<1>13. QED
  BY <1>10, <1>12 DEF S, V

(* A path is empty only without steps.                                     *)
LEMMA JoinedFull ==
    ASSUME NEW steps \in WordSteps
    PROVE  Joined[steps] \in Seq(Chars) /\ (Joined[steps] = <<>> <=> steps = <<>>)
<1>1. steps \in Steps /\ \A i \in 1 .. Len(steps) : NameWord(steps[i])
  BY DEF WordSteps
<1>2. Joined[steps] \in Seq(Chars) /\ Joined[steps] = JoinedOf(Joined, steps)
  BY <1>1, JoinedIs
<1>3. CASE steps = <<>>
  <2>1. Len(steps) # 1
    BY <1>3
  <2>2. QED
    BY <1>2, <1>3, <2>1, NoSteps
<1>4. CASE steps # <<>> /\ Len(steps) = 1
  <2>1. Joined[steps] = steps[1]
    BY <1>2, <1>4, OneStep
  <2>2. NameWord(steps[1])
    BY <1>1, <1>4
  <2>3. QED
    BY <1>2, <1>4, <2>1, <2>2 DEF NameWord
<1>5. CASE steps # <<>> /\ Len(steps) # 1
  <2>1. Joined[steps] = Joined[Front(steps)] \o <<".">> \o Last(steps)
    BY <1>2, <1>5, MoreSteps
  <2>2. PICK p, w : p = Joined[Front(steps)] /\ w = Last(steps)
    OBVIOUS
  <2>3. p \in Seq(Chars) /\ w \in Seq(Chars)
    <3>1. Front(steps) \in Steps /\ w \in Seq(STRING)
      BY <1>1, <1>5, <2>2, FrontShorter DEF Shorter, Below
    <3>2. QED
      BY <2>2, <3>1, JoinedIs, CharWords
  <2>4. PICK d : d = <<".">> /\ d \in Seq(Chars) /\ Len(d) = 1
    <3>1. PICK dot \in Chars : dot = "."
      BY DEF Chars
    <3>2. <<dot>> \in Seq(Chars) /\ Len(<<dot>>) = 1
      OBVIOUS
    <3>3. QED
      BY <3>1, <3>2
  <2>5. Len(p \o d \o w) = Len(p) + 1 + Len(w)
    BY <2>3, <2>4, ConcatProperties
  <2>6. Len(Joined[steps]) # 0
    BY <2>1, <2>2, <2>3, <2>4, <2>5
  <2>7. QED
    BY <1>2, <1>5, <2>6, EmptySeq
<1>6. QED
  BY <1>3, <1>4, <1>5

LEMMA JoinedPush ==
    ASSUME NEW steps \in WordSteps, NEW w \in Seq(STRING), NameWord(w)
    PROVE  /\ Append(steps, w) \in WordSteps /\ Append(steps, w) # <<>>
           /\ Front(Append(steps, w)) = steps /\ Len(Append(steps, w)) = Len(steps) + 1
           /\ Joined[Append(steps, w)] = PushName(Joined[steps], w)
           /\ Pop(Joined[Append(steps, w)]) = Joined[steps]
<1> DEFINE more == Append(steps, w)
<1>1. steps \in Steps /\ Len(steps) \in Nat /\ \A i \in 1 .. Len(steps) : NameWord(steps[i])
  BY DEF WordSteps, Steps
<1>2. /\ more \in Steps /\ Len(more) = Len(steps) + 1 /\ more[Len(steps) + 1] = w
      /\ \A i \in 1 .. Len(steps) : more[i] = steps[i]
  BY <1>1, AppendProperties DEF Steps
<1> HIDE DEF more
<1>3. more \in WordSteps
  <2>1. ASSUME NEW i \in 1 .. Len(more)
        PROVE  NameWord(more[i])
    <3>1. i \in 1 .. Len(steps) \/ i = Len(steps) + 1
      BY <1>1, <1>2
    <3>2. QED
      BY <1>1, <1>2, <3>1
  <2>2. QED
    BY <1>2, <2>1 DEF WordSteps
<1>4. more # <<>> /\ Last(more) = w
  BY <1>1, <1>2 DEF Last
<1>5. Front(more) = steps
  <2>1. Front(more) \in Steps
    BY <1>2, <1>4, FrontShorter DEF Shorter, Below
  <2>2. Len(more) - 1 = Len(steps)
    BY <1>1, <1>2
  <2>3. /\ Len(Front(more)) = Len(steps)
        /\ \A i \in 1 .. Len(steps) : Front(more)[i] = steps[i]
    BY <1>2, <1>4, <2>2, FrontShorter
  <2>4. QED
    BY <1>1, <2>1, <2>3, SeqEqual DEF Steps
<1>6. Joined[more] = PushName(Joined[steps], w)
  <2>1. Joined[more] = JoinedOf(Joined, more)
    BY <1>2, JoinedIs
  <2>2. w \in Seq(Chars)
    BY DEF NameWord
  <2>3. Joined[steps] \in Seq(Chars) /\ (Joined[steps] = <<>> <=> steps = <<>>)
    BY JoinedFull
  <2>4. CASE steps = <<>>
    <3>1. Len(more) = 1 /\ more[1] = w
      BY <1>2, <2>4
    <3>2. Joined[more] = w
      BY <1>4, <2>1, <3>1, OneStep
    <3>3. PushName(Joined[steps], w) = <<>> \o w
      BY <2>3, <2>4 DEF PushName, Dotted
    <3>4. QED
      BY <2>2, <3>2, <3>3, ConcatEmptySeq
  <2>5. CASE steps # <<>>
    <3>1. Len(more) # 1
      BY <1>1, <1>2, <2>5, EmptySeq DEF Steps
    <3>2. Joined[more] = Joined[steps] \o <<".">> \o w
      BY <1>4, <1>5, <2>1, <3>1, MoreSteps
    <3>3. PushName(Joined[steps], w) = Append(Joined[steps], ".") \o w
      BY <2>3, <2>5 DEF PushName, Dotted
    <3>4. Append(Joined[steps], ".") = Joined[steps] \o <<".">>
      <4>1. PICK dot \in Chars : dot = "."
        BY DEF Chars
      <4>2. Append(Joined[steps], dot) = Joined[steps] \o <<dot>>
        BY <2>3, AppendIsConcat
      <4>3. QED
        BY <4>1, <4>2
    <3>5. QED
      BY <3>2, <3>3, <3>4
  <2>6. QED
    BY <2>4, <2>5
<1>7. Pop(Joined[more]) = Joined[steps]
  BY <1>6, JoinedFull, PopPushed
<1>8. QED
  BY <1>2, <1>3, <1>4, <1>5, <1>6, <1>7 DEF more

(* The number of an item that a list may have.                             *)
LEMMA IndexStep ==
    ASSUME NEW n \in 0 .. Base - 1, NEW p \in Seq(Chars)
    PROVE  /\ Number[n] \in Seq(STRING) /\ NameWord(Number[n])
           /\ PushInt(p, n) = PushName(p, Number[n])
<1>1. /\ Number[n] = <<Digit[n + 1]>> /\ Places[n] = 1
      /\ Digit[n + 1] \in STRING /\ Digit[n + 1] # "."
  BY LcfgAssumption, NumberOne, PlacesOne
<1>2. PICK d \in STRING : d = Digit[n + 1] /\ d # "."
  BY <1>1
<1>3. NameWord(<<d>>) /\ Len(<<d>>) = 1 /\ <<d>> \in Seq(STRING)
  <2>1. d \in Chars
    BY DEF Chars
  <2>2. QED
    BY <1>2, <2>1 DEF NameWord
<1>4. PICK q \in Seq(Chars) : q = Dotted(p)
  <2>1. "." \in Chars
    BY DEF Chars
  <2>2. QED
    BY <2>1, AppendProperties DEF Dotted
<1>5. Len(q) + Places[n] - Len(Number[n]) = Len(q)
  BY <1>1, <1>2, <1>3, <1>4
<1>6. SubSeq(q, 1, Len(q)) = q
  BY <1>4
<1>7. PushInt(p, n) = PushName(p, <<d>>)
  BY <1>1, <1>2, <1>4, <1>5, <1>6 DEF PushInt, CatUint, PushName
<1>8. QED
  BY <1>1, <1>2, <1>3, <1>7

-----------------------------------------------------------------------------
(* What the elements of a stack still have to put down: where the tokens   *)
(* of each end, the steps that lead to it, and the values that it and the  *)
(* elements under it are going to add.                                     *)
WordSet == {w \in Seq(STRING) : NameWord(w)}
Frames(t) == [ends : 0 .. Len(t), steps : WordSteps, rest : Seq(Settled)]
Ground == [ends |-> 0, steps |-> <<>>, rest |-> <<>>]
Under(F, l) == IF l = 1 THEN Ground ELSE F[l - 1]
Starts(F, i, l) == IF l = Len(F) THEN i ELSE F[l + 1].ends + 1

RestMeans(t, e, i, f) ==
    CASE e.s = "top_level" -> Meant(t, "settings", i, f.ends, f.steps, 0)
      [] e.s = "exp_equals" -> Meant(t, "value", i + 1, f.ends, f.steps, 0)
      [] e.s = "exp_value" -> Meant(t, "value", i, f.ends, f.steps, 0)
      [] e.s = "in_map" -> Meant(t, "settings", i, f.ends - 1, f.steps, 0)
      [] e.s = "in_list" -> Meant(t, "items", i, f.ends - 1, f.steps, e.list_counter)

Fits(t, e, i, f, g) ==
    /\ Remains(t, e.s, i, f.ends)
    /\ f.rest = RestMeans(t, e, i, f) \o g.rest
    /\ IF e.s = "top_level" THEN f.steps = <<>>
       ELSE \E w \in WordSet : f.steps = Append(g.steps, w)
    /\ e.s \in {"exp_equals", "exp_value"} => e.list_counter = 0
    /\ e.s = "in_list" => e.list_counter + Left(t, i, f.ends - 1) <= Base

Filled(t, st, i, F) ==
    /\ F \in Seq(Frames(t)) /\ Len(F) = Len(st)
    /\ \A l \in 1 .. Len(st) : Fits(t, st[l], Starts(F, i, l), F[l], Under(F, l))

LEMMA FilledTop ==
    ASSUME NEW t, NEW st, NEW i, NEW F, NEW n \in Nat \ {0}, n = Len(st),
           Filled(t, st, i, F)
    PROVE  /\ F \in Seq(Frames(t)) /\ Len(F) = n /\ F[n] \in Frames(t)
           /\ Fits(t, st[n], i, F[n], Under(F, n))
<1>1. F \in Seq(Frames(t)) /\ Len(F) = n /\ n \in 1 .. n
  BY DEF Filled
<1>2. Fits(t, st[n], Starts(F, i, n), F[n], Under(F, n))
  BY <1>1 DEF Filled
<1>3. QED
  BY <1>1, <1>2 DEF Starts

Holds(t, st, i, G, n, f) == Filled(t, st, i, G) /\ G[n] = f
AlikeBelow(st, st2, n) == \A l \in 1 .. n - 1 : st2[l] = st[l]

LEMMA Restack ==
    ASSUME NEW t, NEW st, NEW st2, NEW i, NEW i2, NEW F, NEW n \in Nat \ {0},
           n = Len(st), n = Len(st2), AlikeBelow(st, st2, n),
           Filled(t, st, i, F), NEW f \in Frames(t), f.ends = F[n].ends,
           Fits(t, st2[n], i2, f, Under(F, n))
    PROVE  Holds(t, st2, i2, [F EXCEPT ![n] = f], n, f)
<1> DEFINE G == [F EXCEPT ![n] = f]
<1>1. n \in 1 .. n
  OBVIOUS
<1>2. F \in Seq(Frames(t)) /\ Len(F) = n /\ n \in 1 .. n
  BY <1>1, Zenon DEF Filled
<1>3. /\ G \in Seq(Frames(t)) /\ Len(G) = n /\ G[n] = f
      /\ \A l \in 1 .. n - 1 : G[l] = F[l]
  <2>1. G \in Seq(Frames(t)) /\ Len(G) = n
    BY <1>2
  <2>2. G[n] = f /\ \A l \in 1 .. n - 1 : l \in 1 .. n /\ l # n
    BY <1>2
  <2>3. \A l \in 1 .. n - 1 : G[l] = F[l]
    BY <1>2, <2>2
  <2>4. QED
    BY <2>1, <2>2, <2>3
<1> HIDE DEF G
<1>4. ASSUME NEW l \in 1 .. n
      PROVE  Fits(t, st2[l], Starts(G, i2, l), G[l], Under(G, l))
  <2>1. Under(G, l) = Under(F, l)
    <3>1. l # 1 => l - 1 \in 1 .. n - 1
      OBVIOUS
    <3>2. QED
      BY <1>3, <3>1 DEF Under
  <2>2. CASE l = n
    <3>1. Starts(G, i2, l) = i2
      BY <1>3, <2>2 DEF Starts
    <3>2. QED
      BY <1>3, <2>1, <2>2, <3>1
  <2>3. CASE l # n
    <3>1. l \in 1 .. n - 1 /\ (l + 1 = n \/ l + 1 \in 1 .. n - 1)
      BY <2>3
    <3>2. Fits(t, st[l], Starts(F, i, l), F[l], Under(F, l))
      BY DEF Filled
    <3>3. Starts(G, i2, l) = Starts(F, i, l)
      <4>1. G[l + 1].ends = F[l + 1].ends
        BY <1>3, <3>1
      <4>2. QED
        BY <1>2, <1>3, <2>3, <4>1 DEF Starts
    <3>4. QED
      BY <1>3, <2>1, <3>1, <3>2, <3>3 DEF AlikeBelow
  <2>4. QED
    BY <2>2, <2>3
<1>5. Filled(t, st2, i2, G)
  BY <1>3, <1>4 DEF Filled
<1>6. QED
  BY <1>3, <1>5 DEF G, Holds

LEMMA Stack ==
    ASSUME NEW t, NEW st \in Seq(Elements), NEW i, NEW F, NEW n \in Nat \ {0},
           n = Len(st), NEW e \in Elements, NEW g \in Frames(t),
           Filled(t, st, g.ends + 1, F), Fits(t, e, i, g, F[n])
    PROVE  Holds(t, Append(st, e), i, Append(F, g), n + 1, g)
<1> DEFINE G == Append(F, g)
           st2 == Append(st, e)
<1>1. F \in Seq(Frames(t)) /\ Len(F) = n
  BY DEF Filled
<1>2. /\ G \in Seq(Frames(t)) /\ Len(G) = n + 1 /\ G[n + 1] = g
      /\ \A l \in 1 .. n : G[l] = F[l]
  BY <1>1
<1>3. Len(st2) = n + 1 /\ st2[n + 1] = e /\ \A l \in 1 .. n : st2[l] = st[l]
  OBVIOUS
<1> HIDE DEF G, st2
<1>4. ASSUME NEW l \in 1 .. n + 1
      PROVE  Fits(t, st2[l], Starts(G, i, l), G[l], Under(G, l))
  <2>1. CASE l = n + 1
    <3>1. Starts(G, i, l) = i
      BY <1>2, <2>1 DEF Starts
    <3>2. l # 1 /\ l - 1 = n /\ n \in 1 .. n
      BY <2>1
    <3>3. Under(G, l) = F[n]
      BY <1>2, <3>2 DEF Under
    <3>4. QED
      BY <1>2, <1>3, <2>1, <3>1, <3>3
  <2>2. CASE l # n + 1
    <3>1. l \in 1 .. n /\ (l # 1 => l - 1 \in 1 .. n) /\ (l # n => l + 1 \in 1 .. n)
      BY <2>2
    <3>2. Fits(t, st[l], Starts(F, g.ends + 1, l), F[l], Under(F, l))
      BY <3>1 DEF Filled
    <3>3. Under(G, l) = Under(F, l)
      BY <1>2, <3>1 DEF Under
    <3>4. Starts(G, i, l) = Starts(F, g.ends + 1, l)
      <4>1. CASE l = n
        BY <1>1, <1>2, <2>2, <4>1 DEF Starts
      <4>2. CASE l # n
        BY <1>1, <1>2, <2>2, <3>1, <4>2 DEF Starts
      <4>3. QED
        BY <4>1, <4>2
    <3>5. QED
      BY <1>2, <1>3, <3>1, <3>2, <3>3, <3>4
  <2>3. QED
    BY <2>1, <2>2
<1>5. Filled(t, st2, i, G)
  BY <1>2, <1>3, <1>4 DEF Filled
<1>6. QED
  BY <1>2, <1>5 DEF G, st2, Holds

LEMMA Unstack ==
    ASSUME NEW t, NEW st \in Seq(Elements), NEW i, NEW F, NEW n \in Nat \ {0},
           n + 1 = Len(st), Filled(t, st, i, F)
    PROVE  LET G == Front(F) IN
           /\ Filled(t, Front(st), F[n + 1].ends + 1, G) /\ G[n] = F[n]
           /\ Len(Front(st)) = n
<1> DEFINE G == Front(F)
           st2 == Front(st)
<1>1. F \in Seq(Frames(t)) /\ Len(F) = n + 1 /\ n + 1 \in Nat \ {0} /\ n + 1 - 1 = n
  BY DEF Filled
<1>2. /\ G \in Seq(Frames(t)) /\ Len(G) = n /\ \A l \in 1 .. n : G[l] = F[l]
  BY <1>1, FrontIs
<1>3. Len(st2) = n /\ \A l \in 1 .. n : st2[l] = st[l]
  BY <1>1, FrontIs
<1> HIDE DEF G, st2
<1>4. ASSUME NEW l \in 1 .. n
      PROVE  Fits(t, st2[l], Starts(G, F[n + 1].ends + 1, l), G[l], Under(G, l))
  <2>1. l \in 1 .. n + 1 /\ l # n + 1 /\ (l # 1 => l - 1 \in 1 .. n)
        /\ (l # n => l + 1 \in 1 .. n)
    OBVIOUS
  <2>2. Fits(t, st[l], Starts(F, i, l), F[l], Under(F, l))
    BY <1>1, <2>1 DEF Filled
  <2>3. Under(G, l) = Under(F, l)
    BY <1>2, <2>1 DEF Under
  <2>4. Starts(G, F[n + 1].ends + 1, l) = Starts(F, i, l)
    <3>1. CASE l = n
      BY <1>1, <1>2, <2>1, <3>1 DEF Starts
    <3>2. CASE l # n
      BY <1>1, <1>2, <2>1, <3>2 DEF Starts
    <3>3. QED
      BY <3>1, <3>2
  <2>5. QED
    BY <1>2, <1>3, <2>2, <2>3, <2>4
<1>5. Filled(t, st2, F[n + 1].ends + 1, G)
  BY <1>2, <1>3, <1>4 DEF Filled
<1>6. G[n] = F[n]
  BY <1>2
<1>7. QED
  BY <1>3, <1>5, <1>6 DEF G, st2

-----------------------------------------------------------------------------
(* What is left of an element, by its state.                               *)
LEMMA RestOfElement ==
    ASSUME NEW t, NEW e, NEW i, NEW f
    PROVE  /\ e.s = "top_level" =>
                RestMeans(t, e, i, f) = Meant(t, "settings", i, f.ends, f.steps, 0)
           /\ e.s = "exp_equals" =>
                RestMeans(t, e, i, f) = Meant(t, "value", i + 1, f.ends, f.steps, 0)
           /\ e.s = "exp_value" =>
                RestMeans(t, e, i, f) = Meant(t, "value", i, f.ends, f.steps, 0)
           /\ e.s = "in_map" =>
                RestMeans(t, e, i, f) = Meant(t, "settings", i, f.ends - 1, f.steps, 0)
           /\ e.s = "in_list" =>
                RestMeans(t, e, i, f) =
                    Meant(t, "items", i, f.ends - 1, f.steps, e.list_counter)
BY DEF RestMeans

LEMMA FramesTyped ==
    ASSUME NEW t, NEW f \in Frames(t)
    PROVE  /\ f.ends \in 0 .. Len(t) /\ f.steps \in WordSteps /\ f.steps \in Steps
           /\ f.rest \in Seq(Settled)
BY DEF Frames, WordSteps

LEMMA SettingsRest ==
    ASSUME NEW t, NEW e, NEW i, NEW f, e.s \in {"top_level", "in_map"}
    PROVE  RestMeans(t, e, i, f) =
                Meant(t, "settings", i, Inside(e.s, f.ends), f.steps, 0)
<1>1. CASE e.s = "top_level"
  BY <1>1, RestOfElement DEF Inside
<1>2. CASE e.s = "in_map"
  BY <1>2, RestOfElement DEF Inside
<1>3. QED
  BY <1>1, <1>2

LEMMA AnyFrame ==
    ASSUME NEW t, NEW k \in 0 .. Len(t), NEW steps \in WordSteps, NEW rest \in Seq(Settled)
    PROVE  \E f \in Frames(t) : f.ends = k /\ f.steps = steps /\ f.rest = rest
<1>1. [ends |-> k, steps |-> steps, rest |-> rest] \in Frames(t)
  BY DEF Frames
<1>2. QED
  BY <1>1

LEMMA Regrouped ==
    ASSUME NEW a \in Seq(Settled), NEW b \in Seq(Settled), NEW c \in Seq(Settled)
    PROVE  /\ (a \o b) \o c = a \o (b \o c) /\ a \o b \in Seq(Settled)
           /\ <<>> \in Seq(Settled) /\ <<>> \o a = a /\ a \o <<>> = a
BY ConcatAssociative, ConcatProperties, ConcatEmptySeq, EmptySeq

Regroups(a, b, c) == (a \o b) \o c = a \o (b \o c)

LEMMA RegroupsAny ==
    ASSUME NEW a \in Seq(Settled), NEW b \in Seq(Settled), NEW c \in Seq(Settled)
    PROVE  Regroups(a, b, c)
BY Regrouped DEF Regroups

Identifies(x) == x.type = "T_IDENTIFIER"
OfSettings(e) == e.s \in {"top_level", "in_map"}

(* InMap: a name goes before the value of its setting.                     *)
LEMMA NameFits ==
    ASSUME NEW t \in Seq(TokenSet), NEW i \in 1 .. Len(t), Identifies(t[i]),
           NEW e \in Elements, OfSettings(e),
           NEW f \in Frames(t), NEW g, g.rest \in Seq(Settled), Fits(t, e, i, f, g)
    PROVE  \E f2, h \in Frames(t) :
             /\ f2.ends = f.ends /\ Fits(t, e, h.ends + 1, f2, g)
             /\ Fits(t, Element("exp_equals"), i + 1, h, f2)
             /\ h.rest = f.rest /\ h.steps = Append(f.steps, t[i].word)
<1> DEFINE k == f.ends
           j == Inside(e.s, k)
           w == t[i].word
<1>1. /\ Len(t) \in Nat /\ k \in 0 .. Len(t) /\ f.steps \in WordSteps /\ f.steps \in Steps
      /\ Remains(t, e.s, i, k) /\ f.rest = RestMeans(t, e, i, f) \o g.rest
  BY FramesTyped DEF Fits
<1>2. PICK m : m = Opened(t, i, e.s, k) /\ m = EndOf(t, "settings", i + 2, j)
  BY DEF Opened, OfSettings
<1>3. /\ m \in 0 .. Len(t) /\ Remains(t, "exp_equals", i + 1, m) /\ Remains(t, e.s, m + 1, k)
  <2>1. OpensAt(t, i, e.s, "exp_equals")
    BY <1>1, NameRemains DEF Identifies, OfSettings
  <2>2. QED
    BY <1>1, <1>2, <2>1 DEF OpensAt
<1>4. /\ j \in i .. Len(t) /\ IsSettings(t, i, j)
      /\ m + 1 <= j + 1 /\ IsSettings(t, m + 1, j)
  <2>1. /\ i <= j + 1 /\ IsSettings(t, i, j)
        /\ m + 1 <= j + 1 /\ IsSettings(t, m + 1, j)
    <3>1. i \in Nat /\ m + 1 \in Nat
      BY <1>3
    <3>2. QED
      BY <1>1, <1>3, <3>1, InsideRemains, ZenonT(30) DEF OfSettings
  <2>2. j \in Int /\ j <= Len(t)
    BY <1>1 DEF Inside
  <2>3. i + 1 < m
    BY <1>3 DEF Remains
  <2>4. QED
    BY <1>3, <2>1, <2>2, <2>3
<1>5. w \in WordSet
  BY <1>4, SettingsParts, EmptySeq DEF WordSet, Steps
<1>6. Append(f.steps, w) \in WordSteps /\ Append(f.steps, w) \in Steps
  BY <1>1, <1>5, JoinedPush DEF WordSet, WordSteps
<1> DEFINE v == Meant(t, "value", i + 2, m, Append(f.steps, w), 0)
           r == Meant(t, "settings", m + 1, j, f.steps, 0)
<1>7. /\ Meant(t, "settings", i, j, f.steps, 0) = v \o r
      /\ v \in Seq(Settled) /\ r \in Seq(Settled)
  <2>1. i \in 1 .. Len(t) + 1 /\ j \in 0 .. Len(t) /\ i <= j /\ m + 1 \in 1 .. Len(t) + 1
    BY <1>1, <1>3, <1>4
  <2>2. Meant(t, "settings", i, j, f.steps, 0) = v \o r
    BY <1>1, <1>2, <1>4, <2>1, MeantSettings
  <2>3. r \in Seq(Settled)
    BY <1>1, <1>4, <2>1, MeantSettings
  <2>4. i + 2 \in 1 .. Len(t) /\ IsValue(t, i + 2, m)
    <3>1. i + 2 <= j /\ IsValue(t, i + 2, m)
      BY <1>1, <1>2, <1>4, SettingsParts
    <3>2. QED
      BY <1>1, <1>4, <3>1
  <2>5. v \in Seq(Settled)
    BY <1>3, <1>6, <2>4, MeantValue
  <2>6. QED
    BY <2>2, <2>3, <2>5
<1> HIDE DEF v, r
<1>8. PICK f2 \in Frames(t) : f2.ends = k /\ f2.steps = f.steps /\ f2.rest = r \o g.rest
  <2>1. PICK rest \in Seq(Settled) : rest = r \o g.rest
    BY <1>7, ConcatProperties
  <2>2. PICK a \in 0 .. Len(t), b \in WordSteps : a = k /\ b = f.steps
    BY <1>1
  <2>3. \E x \in Frames(t) : x.ends = a /\ x.steps = b /\ x.rest = rest
    BY AnyFrame
  <2>4. QED
    BY <2>1, <2>2, <2>3
<1>9. PICK h \in Frames(t) :
        h.ends = m /\ h.steps = Append(f.steps, w) /\ h.rest = v \o f2.rest
  <2>1. PICK rest \in Seq(Settled) : rest = v \o f2.rest
    BY <1>7, ConcatProperties, FramesTyped
  <2>2. PICK a \in 0 .. Len(t), b \in WordSteps : a = m /\ b = Append(f.steps, w)
    BY <1>3, <1>6
  <2>3. \E x \in Frames(t) : x.ends = a /\ x.steps = b /\ x.rest = rest
    BY AnyFrame
  <2>4. QED
    BY <2>1, <2>2, <2>3
<1>10. Fits(t, e, h.ends + 1, f2, g)
  <2>1. RestMeans(t, e, m + 1, f2) = r
    BY <1>8, SettingsRest DEF r, OfSettings
  <2>2. e.s \notin {"exp_equals", "exp_value", "in_list"}
    BY DEF OfSettings
  <2>3. QED
    BY <1>3, <1>8, <1>9, <2>1, <2>2 DEF Fits
<1>11. Fits(t, Element("exp_equals"), i + 1, h, f2)
  <2>1. PICK x : x = Element("exp_equals")
    OBVIOUS
  <2>2. x.s = "exp_equals" /\ x.list_counter = 0
    BY <2>1 DEF Element
  <2>3. i + 1 + 1 = i + 2
    OBVIOUS
  <2>4. RestMeans(t, x, i + 1, h) = v
    <3>1. RestMeans(t, x, i + 1, h) = Meant(t, "value", i + 1 + 1, h.ends, h.steps, 0)
      BY <2>2, RestOfElement
    <3>2. QED
      BY <1>9, <2>3, <3>1 DEF v
  <2>5. QED
    BY <1>3, <1>5, <1>8, <1>9, <2>1, <2>4, <2>2 DEF Fits
<1>12. h.rest = f.rest
  <2>1. RestMeans(t, e, i, f) = v \o r
    BY <1>7, SettingsRest DEF OfSettings
  <2>2. f.rest = (v \o r) \o g.rest
    BY <1>1, <2>1
  <2>3. QED
    <3>1. f2.rest = r \o g.rest
      BY <1>8
    <3>2. h.rest = v \o f2.rest
      BY <1>9
    <3>3. v \in Seq(Settled) /\ r \in Seq(Settled)
      BY <1>7
    <3>4. Regroups(v, r, g.rest)
      BY <3>3, RegroupsAny
    <3>5. QED
      BY <2>2, <3>1, <3>2, <3>4 DEF Regroups
<1>13. QED
  BY <1>8, <1>9, <1>10, <1>11, <1>12

-----------------------------------------------------------------------------
(* What a turn of the parser does to the frame of the element it is at.    *)
Opens(x, s) == \/ x.type = "[" /\ s = "in_list"
               \/ x.type = "{" /\ s = "in_map"
Shuts(x, s) == \/ x.type = "]" /\ s = "in_list"
               \/ x.type = "}" /\ s = "in_map"
Says(x) == x.type = "T_STRING"
Becomes(e, e2, s) == e2.s = s /\ e2.list_counter = e.list_counter
Counts1(e, e2) == e2.s = e.s /\ e2.list_counter = e.list_counter + 1

LEMMA ElementRest ==
    ASSUME NEW t, NEW e, NEW i, NEW f, NEW k, k = f.ends
    PROVE  /\ e.s = "exp_equals" =>
                RestMeans(t, e, i, f) = Meant(t, "value", i + 1, k, f.steps, 0)
           /\ e.s = "exp_value" =>
                RestMeans(t, e, i, f) = Meant(t, "value", i, k, f.steps, 0)
           /\ e.s = "in_map" =>
                RestMeans(t, e, i, f) = Meant(t, "settings", i, k - 1, f.steps, 0)
           /\ e.s = "in_list" =>
                RestMeans(t, e, i, f) =
                    Meant(t, "items", i, k - 1, f.steps, e.list_counter)
BY RestOfElement

LEMMA EqualsFits ==
    ASSUME NEW t \in Seq(TokenSet), NEW i \in 1 .. Len(t), NEW e, NEW e2,
           e.s = "exp_equals", Becomes(e, e2, "exp_value"),
           NEW f \in Frames(t), NEW g, Fits(t, e, i, f, g)
    PROVE  Fits(t, e2, i + 1, f, g)
<1>1. PICK k \in 0 .. Len(t) : k = f.ends
  BY FramesTyped
<1>2. /\ Remains(t, "exp_equals", i, k) /\ f.rest = RestMeans(t, e, i, f) \o g.rest
      /\ \E w \in WordSet : f.steps = Append(g.steps, w)
      /\ e2.list_counter = 0 /\ e2.s = "exp_value"
  BY <1>1 DEF Fits, Becomes
<1>3. Remains(t, "exp_value", i + 1, k)
  BY <1>2 DEF Remains
<1>4. RestMeans(t, e2, i + 1, f) = RestMeans(t, e, i, f)
  BY <1>1, <1>2, ElementRest
<1>5. QED
  BY <1>1, <1>2, <1>3, <1>4 DEF Fits

LEMMA TextMeant ==
    ASSUME NEW t \in Seq(TokenSet), NEW i \in 1 .. Len(t), Says(t[i]),
           NEW m \in 0 .. Len(t), IsValue(t, i, m), NEW steps \in Steps
    PROVE  /\ m = i
           /\ Meant(t, "value", i, m, steps, 0) =
                << [steps |-> steps, value |-> t[i].word] >>
           /\ t[i].word \in Seq(Kept)
<1>1. Len(t) \in Nat /\ t[i].type = "T_STRING"
  BY DEF Says
<1>2. m = i
  BY <1>1, ValueRemains
<1>3. QED
  BY <1>2, MeantValue, ValueParts

LEMMA TextFits ==
    ASSUME NEW t \in Seq(TokenSet), NEW i \in 1 .. Len(t), NEW e,
           e.s = "exp_value", Says(t[i]), NEW f \in Frames(t), NEW g, Fits(t, e, i, f, g)
    PROVE  /\ f.ends = i /\ t[i].word \in Seq(Kept)
           /\ f.rest = << [steps |-> f.steps, value |-> t[i].word] >> \o g.rest
<1>1. PICK k \in 0 .. Len(t), steps \in Steps : k = f.ends /\ steps = f.steps
  BY FramesTyped
<1>2. Remains(t, "exp_value", i, k) /\ f.rest = RestMeans(t, e, i, f) \o g.rest
  BY <1>1 DEF Fits
<1>3. IsValue(t, i, k)
  BY <1>2 DEF Remains
<1>4. RestMeans(t, e, i, f) = Meant(t, "value", i, k, steps, 0)
  BY <1>1, ElementRest
<1>5. /\ k = i /\ t[i].word \in Seq(Kept)
      /\ Meant(t, "value", i, k, steps, 0) = << [steps |-> steps, value |-> t[i].word] >>
  BY <1>3, TextMeant
<1>6. QED
  BY <1>1, <1>2, <1>4, <1>5

(* A value that is a list or a map, behind its bracket.                    *)
BehindBracket(t, i, s, m, x, h) ==
    /\ Remains(t, s, i + 1, m)
    /\ RestMeans(t, x, i + 1, h) = Meant(t, "value", i, m, h.steps, 0)
    /\ s = "in_list" => Left(t, i + 1, m - 1) <= Base

LEMMA ValueOpens ==
    ASSUME NEW t \in Seq(TokenSet), NEW i \in 1 .. Len(t), NEW s, Opens(t[i], s),
           NEW m \in 0 .. Len(t), IsValue(t, i, m), NEW x, x.s = s, x.list_counter = 0,
           NEW h \in Frames(t), h.ends = m, ~HasLongList(t)
    PROVE  BehindBracket(t, i, s, m, x, h)
<1>1. Len(t) \in Nat /\ i + 1 \in 1 .. Len(t) + 1 /\ m - 1 \in Int
  OBVIOUS
<1>2. PICK steps \in Steps : steps = h.steps
  BY FramesTyped
<1>3. CASE t[i].type = "[" /\ s = "in_list"
  <2>1. Remains(t, "in_list", i + 1, m)
    BY <1>1, <1>3, ValueRemains
  <2>2. i < m /\ i + 1 <= m
    BY <2>1 DEF Remains
  <2>3. Meant(t, "value", i, m, steps, 0) = Meant(t, "items", i + 1, m - 1, steps, 0)
    BY <1>3, <2>2, MeantValue
  <2>4. RestMeans(t, x, i + 1, h) = Meant(t, "items", i + 1, m - 1, steps, 0)
    BY <1>2, <1>3, ElementRest
  <2>5. IsItems(t, i + 1, m - 1)
    BY <2>1 DEF Remains
  <2>6. Left(t, i + 1, m - 1) \in Nat
    BY <1>1, <2>2, <2>5, LeftItems
  <2>7. ~(Items(t)[<<i + 1, m - 1>>] > Base)
    <3>1. i \in DOMAIN t /\ m \in DOMAIN t
      BY <2>2
    <3>2. QED
      BY <1>3, <3>1 DEF HasLongList
  <2>8. Base \in Nat
    BY LcfgAssumption
  <2>9. Left(t, i + 1, m - 1) <= Base
    BY <2>6, <2>7, <2>8 DEF Left
  <2>10. QED
    BY <1>2, <1>3, <2>1, <2>3, <2>4, <2>9 DEF BehindBracket
<1>4. CASE t[i].type = "{" /\ s = "in_map"
  <2>1. Remains(t, "in_map", i + 1, m) /\ t[i].type # "["
    BY <1>1, <1>4, ValueRemains, Zenon
  <2>2. i < m
    <3>1. i + 1 <= m
      BY <2>1, Zenon DEF Remains
    <3>2. QED
      BY <3>1
  <2>3. Meant(t, "value", i, m, steps, 0) = Meant(t, "settings", i + 1, m - 1, steps, 0)
    BY <2>1, <2>2, MeantValue
  <2>4. s = "in_map"
    BY <1>4, Zenon
  <2>5. RestMeans(t, x, i + 1, h) = Meant(t, "settings", i + 1, m - 1, steps, 0)
    BY <1>2, <2>4, ElementRest
  <2>6. QED
    BY <1>2, <2>1, <2>3, <2>4, <2>5 DEF BehindBracket
<1>5. QED
  BY <1>3, <1>4, Zenon DEF Opens

LEMMA EntersFits ==
    ASSUME NEW t \in Seq(TokenSet), NEW i \in 1 .. Len(t), NEW e, NEW e2, NEW s,
           e.s = "exp_value", Opens(t[i], s), Becomes(e, e2, s),
           NEW f \in Frames(t), NEW g, Fits(t, e, i, f, g), ~HasLongList(t)
    PROVE  Fits(t, e2, i + 1, f, g)
<1>1. PICK k \in 0 .. Len(t) : k = f.ends
  BY FramesTyped
<1>2. /\ Remains(t, "exp_value", i, k) /\ f.rest = RestMeans(t, e, i, f) \o g.rest
      /\ \E w \in WordSet : f.steps = Append(g.steps, w)
      /\ e2.list_counter = 0 /\ e2.s = s
  BY <1>1 DEF Fits, Becomes
<1>3. IsValue(t, i, k)
  BY <1>2 DEF Remains
<1>4. s \in {"in_list", "in_map"}
  BY Zenon DEF Opens
<1>5. /\ Remains(t, s, i + 1, k)
      /\ RestMeans(t, e2, i + 1, f) = Meant(t, "value", i, k, f.steps, 0)
      /\ s = "in_list" => Left(t, i + 1, k - 1) <= Base
  <2>1. f.ends = k /\ e2.s = s /\ e2.list_counter = 0 /\ IsValue(t, i, k)
    BY <1>1, <1>2, <1>3
  <2>2. BehindBracket(t, i, s, k, e2, f)
    BY <2>1, ValueOpens
  <2>3. QED
    BY <2>2 DEF BehindBracket
<1>6. RestMeans(t, e2, i + 1, f) = RestMeans(t, e, i, f)
  BY <1>1, <1>5, ElementRest
<1>7. s = "in_list" => Left(t, i + 1, k - 1) \in Nat
  <2>1. SUFFICES ASSUME s = "in_list" PROVE Left(t, i + 1, k - 1) \in Nat
    OBVIOUS
  <2>2. i + 1 <= k /\ IsItems(t, i + 1, k - 1)
    BY <1>5, <2>1 DEF Remains
  <2>3. i + 1 \in 1 .. Len(t) + 1 /\ k - 1 \in 0 .. Len(t)
    BY <2>2
  <2>4. QED
    BY <2>2, <2>3, LeftItems
<1>8. s = "in_list" => e2.list_counter + Left(t, i + 1, k - 1) <= Base
  BY <1>2, <1>5, <1>7
<1>9. QED
  BY <1>1, <1>2, <1>4, <1>5, <1>6, <1>8 DEF Fits

-----------------------------------------------------------------------------
(* The items of a list.                                                    *)
ListFrame(t, i, c, f, k, steps, g) ==
    /\ Remains(t, "in_list", i, k)
    /\ f.rest = Meant(t, "items", i, k - 1, steps, c) \o g.rest
    /\ \E w \in WordSet : f.steps = Append(g.steps, w)
    /\ c + Left(t, i, k - 1) <= Base

LEMMA ListFits ==
    ASSUME NEW t, NEW e, e.s = "in_list", NEW i, NEW c, c = e.list_counter, NEW f,
           NEW k, k = f.ends, NEW steps, steps = f.steps, NEW g
    PROVE  Fits(t, e, i, f, g) <=> ListFrame(t, i, c, f, k, steps, g)
<1>1. RestMeans(t, e, i, f) = Meant(t, "items", i, k - 1, steps, c)
  BY RestOfElement
<1>2. ASSUME Fits(t, e, i, f, g) PROVE ListFrame(t, i, c, f, k, steps, g)
  BY <1>1, <1>2 DEF Fits, ListFrame
<1>3. ASSUME ListFrame(t, i, c, f, k, steps, g) PROVE Fits(t, e, i, f, g)
  <2>1. e.s \notin {"top_level", "exp_equals", "exp_value"}
    OBVIOUS
  <2>2. QED
    BY <1>1, <1>3, <2>1 DEF Fits, ListFrame
<1>4. QED
  BY <1>2, <1>3

LEMMA ListLeft ==
    ASSUME NEW t \in Seq(TokenSet), NEW i \in 1 .. Len(t), NEW k \in 0 .. Len(t),
           Remains(t, "in_list", i, k)
    PROVE  /\ k - 1 \in 0 .. Len(t) /\ i <= k /\ IsItems(t, i, k - 1)
           /\ IsComma(t[i]) \/ Begins(t[i]) => i <= k - 1
           /\ IsComma(t[i]) => ~Begins(t[i])
<1>1. i <= k /\ t[k].type = "]" /\ IsItems(t, i, k - 1)
  BY DEF Remains
<1>2. IsComma(t[i]) \/ Begins(t[i]) => i # k
  BY <1>1, Zenon DEF IsComma, Begins
<1>3. IsComma(t[i]) => ~Begins(t[i])
  BY Zenon DEF IsComma, Begins
<1>4. QED
  BY <1>1, <1>2, <1>3

LEMMA CommaFits ==
    ASSUME NEW t \in Seq(TokenSet), NEW i \in 1 .. Len(t), NEW e \in Elements,
           e.s = "in_list", IsComma(t[i]), NEW f \in Frames(t), NEW g, Fits(t, e, i, f, g)
    PROVE  Fits(t, e, i + 1, f, g)
<1>1. PICK k \in 0 .. Len(t), steps \in Steps : k = f.ends /\ steps = f.steps
  BY FramesTyped
<1>2. PICK c \in Nat : c = e.list_counter
  BY DEF Elements
<1>3. /\ Remains(t, "in_list", i, k) /\ \E w \in WordSet : f.steps = Append(g.steps, w)
      /\ f.rest = Meant(t, "items", i, k - 1, steps, c) \o g.rest
      /\ c + Left(t, i, k - 1) <= Base
  <2>1. ListFrame(t, i, c, f, k, steps, g)
    BY <1>1, <1>2, ListFits
  <2>2. QED
    BY <1>1, <2>1 DEF ListFrame
<1>4. PICK j \in 0 .. Len(t) : j = k - 1
  BY <1>3, ListLeft
<1>5. i <= j /\ IsItems(t, i, j) /\ ~Begins(t[i]) /\ i \in 1 .. Len(t) + 1
  BY <1>3, <1>4, ListLeft
<1>6. Remains(t, "in_list", i + 1, k)
  <2>1. t[i].type = "," /\ Len(t) \in Nat
    <3>1. t[i].type = ","
      BY Zenon DEF IsComma
    <3>2. Len(t) \in Nat
      OBVIOUS
    <3>3. QED
      BY <3>1, <3>2, Zenon
  <2>2. QED
    BY <1>3, <1>5, <2>1, ListRemains, Zenon
<1>7. Meant(t, "items", i, j, steps, c) = Meant(t, "items", i + 1, j, steps, c)
  BY <1>5, MeantItems
<1>8. Left(t, i, j) = Left(t, i + 1, j)
  BY <1>5, LeftItems
<1>9. QED
  <2>1. ListFrame(t, i + 1, c, f, k, steps, g)
    BY <1>1, <1>3, <1>4, <1>6, <1>7, <1>8 DEF ListFrame
  <2>2. QED
    BY <1>1, <1>2, <2>1, ListFits

ItemThenItems(t, i, j, m, steps, c) ==
    Meant(t, "items", i, j, steps, c) =
        Meant(t, "value", i, m, Append(steps, Number[c]), 0)
            \o Meant(t, "items", m + 1, j, steps, c + 1)

LEMMA ItemMeant ==
    ASSUME NEW t \in Seq(TokenSet), NEW i \in 1 .. Len(t) + 1, NEW j \in 0 .. Len(t),
           NEW steps \in Steps, NEW c \in Nat, IsItems(t, i, j),
           NEW m, m = EndOf(t, "items", i, j), i <= j, ~IsComma(t[i])
    PROVE  ItemThenItems(t, i, j, m, steps, c)
BY MeantItems, ZenonT(30) DEF ItemThenItems

ItemOf(t, i, e, e2, f, g, m, f2) ==
    /\ IsValue(t, i, m) /\ e.list_counter \in 0 .. Base - 1
    /\ f2.ends = f.ends /\ f2.steps = f.steps /\ Fits(t, e2, m + 1, f2, g)
    /\ f.rest = Meant(t, "value", i, m, Append(f.steps, Number[e.list_counter]), 0)
                    \o f2.rest

LEMMA ItemFits ==
    ASSUME NEW t \in Seq(TokenSet), NEW i \in 1 .. Len(t), NEW e \in Elements, NEW e2,
           e.s = "in_list", Counts1(e, e2), Begins(t[i]),
           NEW f \in Frames(t), NEW g, g.rest \in Seq(Settled), Fits(t, e, i, f, g)
    PROVE  \E m \in 0 .. Len(t), f2 \in Frames(t) : ItemOf(t, i, e, e2, f, g, m, f2)
<1>1. PICK k \in 0 .. Len(t), steps \in WordSteps : k = f.ends /\ steps = f.steps
  BY FramesTyped
<1>2. PICK c \in Nat : c = e.list_counter
  BY DEF Elements
<1>3. /\ Remains(t, "in_list", i, k) /\ \E w \in WordSet : f.steps = Append(g.steps, w)
      /\ f.rest = Meant(t, "items", i, k - 1, steps, c) \o g.rest
      /\ c + Left(t, i, k - 1) <= Base
  <2>1. ListFrame(t, i, c, f, k, steps, g)
    BY <1>1, <1>2, ListFits
  <2>2. QED
    BY <1>1, <2>1 DEF ListFrame
<1>4. PICK j \in 0 .. Len(t) : j = k - 1
  BY <1>3, ListLeft
<1>5. i <= j /\ IsItems(t, i, j) /\ ~IsComma(t[i]) /\ i \in 1 .. Len(t) + 1
  BY <1>3, <1>4, ListLeft
<1>6. PICK m : m = EndOf(t, "items", i, j)
  OBVIOUS
<1>7. m \in 0 .. Len(t) /\ IsValue(t, i, m) /\ Remains(t, "in_list", m + 1, k)
  <2>1. Len(t) \in Nat
    OBVIOUS
  <2>2. QED
    BY <1>3, <1>4, <1>6, <2>1, ItemRemains
<1>8. steps \in Steps /\ Append(steps, Number[c]) \in Steps
  BY <1>2, NumberStep DEF WordSteps
<1>9. PICK v, r : /\ v = Meant(t, "value", i, m, Append(steps, Number[c]), 0)
                  /\ r = Meant(t, "items", m + 1, j, steps, c + 1)
  OBVIOUS
<1>10. /\ m + 1 \in 1 .. Len(t) + 1 /\ m + 1 <= k /\ IsItems(t, m + 1, j)
       /\ c + 1 \in Nat
  BY <1>4, <1>7 DEF Remains
<1>11. Meant(t, "items", i, j, steps, c) = v \o r
  <2>1. ItemThenItems(t, i, j, m, steps, c)
    BY <1>5, <1>6, <1>8, ItemMeant
  <2>2. QED
    BY <1>9, <2>1 DEF ItemThenItems
<1>12. v \in Seq(Settled)
  BY <1>7, <1>8, <1>9, MeantValue
<1>13. r \in Seq(Settled)
  BY <1>8, <1>9, <1>10, MeantItems
<1>14. /\ Left(t, m + 1, j) \in Nat /\ Left(t, i, j) = 1 + Left(t, m + 1, j)
  <2>1. Left(t, m + 1, j) \in Nat
    BY <1>10, LeftItems
  <2>2. Left(t, i, j) = 1 + Left(t, m + 1, j)
    BY <1>5, <1>6, LeftItems
  <2>3. QED
    BY <2>1, <2>2
<1>15. PICK f2 \in Frames(t) : f2.ends = k /\ f2.steps = steps /\ f2.rest = r \o g.rest
  <2>1. PICK rest \in Seq(Settled) : rest = r \o g.rest
    BY <1>13, ConcatProperties
  <2>2. \E x \in Frames(t) : x.ends = k /\ x.steps = steps /\ x.rest = rest
    BY AnyFrame
  <2>3. QED
    BY <2>1, <2>2
<1>16. Fits(t, e2, m + 1, f2, g)
  <2>1. e2.s = "in_list" /\ e2.list_counter = c + 1
    BY <1>2 DEF Counts1
  <2>2. (c + 1) + Left(t, m + 1, j) <= Base
    BY <1>3, <1>4, <1>14, LcfgAssumption
  <2>3. ListFrame(t, m + 1, c + 1, f2, k, steps, g)
    BY <1>1, <1>3, <1>4, <1>7, <1>9, <1>15, <2>2 DEF ListFrame
  <2>4. QED
    BY <1>15, <2>1, <2>3, ListFits
<1>17. c \in 0 .. Base - 1
  <2>1. Base \in Nat
    BY LcfgAssumption
  <2>2. QED
    BY <1>3, <1>4, <1>14, <2>1
<1>18. f.rest = v \o f2.rest
  <2>1. Regroups(v, r, g.rest)
    BY <1>12, <1>13, RegroupsAny
  <2>2. f.rest = (v \o r) \o g.rest
    BY <1>3, <1>4, <1>11
  <2>3. QED
    BY <1>15, <2>1, <2>2 DEF Regroups
<1>19. ItemOf(t, i, e, e2, f, g, m, f2)
  BY <1>1, <1>2, <1>7, <1>9, <1>15, <1>16, <1>17, <1>18 DEF ItemOf
<1>20. QED
  BY <1>7, <1>19

LEMMA OpensBegins ==
    ASSUME NEW x, NEW s, Opens(x, s)
    PROVE  Begins(x) /\ s \in {"in_list", "in_map"}
BY Zenon DEF Opens, Begins

LEMMA SaysBegins ==
    ASSUME NEW x, Says(x)
    PROVE  Begins(x)
BY Zenon DEF Says, Begins

LEMMA IndexWord ==
    ASSUME NEW c \in 0 .. Base - 1
    PROVE  c \in Nat /\ Number[c] \in WordSet
<1>1. <<>> \in Seq(Chars)
  BY EmptySeq
<1>2. Number[c] \in Seq(STRING) /\ NameWord(Number[c])
  BY <1>1, IndexStep
<1>3. c \in Nat
  BY LcfgAssumption
<1>4. QED
  BY <1>2, <1>3 DEF WordSet

(* A text in a list.                                                       *)
TextIn(t, i, e, e2, f, g, f2) ==
    /\ f2.ends = f.ends /\ f2.steps = f.steps /\ Fits(t, e2, i + 1, f2, g)
    /\ e.list_counter \in 0 .. Base - 1 /\ t[i].word \in Seq(Kept)
    /\ f.rest = << [steps |-> Append(f.steps, Number[e.list_counter]),
                    value |-> t[i].word] >> \o f2.rest

LEMMA ListTextFits ==
    ASSUME NEW t \in Seq(TokenSet), NEW i \in 1 .. Len(t), NEW e \in Elements, NEW e2,
           e.s = "in_list", Counts1(e, e2), Says(t[i]),
           NEW f \in Frames(t), NEW g, g.rest \in Seq(Settled), Fits(t, e, i, f, g)
    PROVE  \E f2 \in Frames(t) : TextIn(t, i, e, e2, f, g, f2)
<1>1. PICK m \in 0 .. Len(t), f2 \in Frames(t) : ItemOf(t, i, e, e2, f, g, m, f2)
  BY SaysBegins, ItemFits
<1>2. PICK c \in 0 .. Base - 1, steps \in Steps : c = e.list_counter /\ steps = f.steps
  BY <1>1, FramesTyped DEF ItemOf
<1>3. PICK s \in Steps : s = Append(steps, Number[c])
  BY IndexWord, NumberStep
<1>4. IsValue(t, i, m)
  BY <1>1 DEF ItemOf
<1>5. /\ m = i /\ t[i].word \in Seq(Kept)
      /\ Meant(t, "value", i, m, s, 0) = << [steps |-> s, value |-> t[i].word] >>
  BY <1>4, TextMeant
<1>6. TextIn(t, i, e, e2, f, g, f2)
  BY <1>1, <1>2, <1>3, <1>5 DEF ItemOf, TextIn
<1>7. QED
  BY <1>6

(* A list or a map in a list.                                              *)
MoreIn(t, i, s, e, e2, f, g, f2, h) ==
    /\ f2.ends = f.ends /\ f2.steps = f.steps /\ Fits(t, e2, h.ends + 1, f2, g)
    /\ Fits(t, Element(s), i + 1, h, f2) /\ h.rest = f.rest
    /\ e.list_counter \in 0 .. Base - 1
    /\ h.steps = Append(f.steps, Number[e.list_counter])

LEMMA ListMoreFits ==
    ASSUME NEW t \in Seq(TokenSet), NEW i \in 1 .. Len(t), NEW e \in Elements, NEW e2,
           NEW s, e.s = "in_list", Counts1(e, e2), Opens(t[i], s), ~HasLongList(t),
           NEW f \in Frames(t), NEW g, g.rest \in Seq(Settled), Fits(t, e, i, f, g)
    PROVE  \E f2, h \in Frames(t) : MoreIn(t, i, s, e, e2, f, g, f2, h)
<1>1. PICK m \in 0 .. Len(t), f2 \in Frames(t) : ItemOf(t, i, e, e2, f, g, m, f2)
  BY OpensBegins, ItemFits
<1>2. PICK c \in 0 .. Base - 1, steps \in WordSteps : c = e.list_counter /\ steps = f.steps
  BY <1>1, FramesTyped DEF ItemOf
<1>3. PICK w \in WordSet : w = Number[c]
  BY IndexWord
<1>4. PICK to \in WordSteps : to = Append(steps, w)
  BY JoinedPush DEF WordSet
<1>5. /\ IsValue(t, i, m) /\ f2.ends = f.ends /\ f2.steps = f.steps
      /\ Fits(t, e2, m + 1, f2, g)
      /\ f.rest = Meant(t, "value", i, m, to, 0) \o f2.rest
  BY <1>1, <1>2, <1>3, <1>4 DEF ItemOf
<1>6. to \in Steps
  BY DEF WordSteps
<1>7. Meant(t, "value", i, m, to, 0) \in Seq(Settled)
  BY <1>5, <1>6, MeantValue
<1>8. PICK h \in Frames(t) : h.ends = m /\ h.steps = to /\ h.rest = f.rest
  <2>1. PICK rest \in Seq(Settled) : rest = f.rest
    BY FramesTyped
  <2>2. \E x \in Frames(t) : x.ends = m /\ x.steps = to /\ x.rest = rest
    BY AnyFrame
  <2>3. QED
    BY <2>1, <2>2
<1>9. Fits(t, Element(s), i + 1, h, f2)
  <2>1. PICK x : x = Element(s)
    OBVIOUS
  <2>2. x.s = s /\ x.list_counter = 0
    BY <2>1 DEF Element
  <2>3. s \in {"in_list", "in_map"}
    BY OpensBegins
  <2>4. BehindBracket(t, i, s, m, x, h)
    BY <1>5, <1>8, <2>2, ValueOpens
  <2>5. h.rest = RestMeans(t, x, i + 1, h) \o f2.rest
    BY <1>5, <1>8, <2>4 DEF BehindBracket
  <2>6. s = "in_list" => Left(t, i + 1, m - 1) \in Nat
    <3>1. SUFFICES ASSUME s = "in_list" PROVE Left(t, i + 1, m - 1) \in Nat
      OBVIOUS
    <3>2. i + 1 <= m /\ IsItems(t, i + 1, m - 1)
      BY <2>4, <3>1 DEF BehindBracket, Remains
    <3>3. i + 1 \in 1 .. Len(t) + 1 /\ m - 1 \in 0 .. Len(t)
      BY <3>2
    <3>4. QED
      BY <3>2, <3>3, LeftItems
  <2>7. s = "in_list" => x.list_counter + Left(t, i + 1, m - 1) <= Base
    BY <2>2, <2>4, <2>6 DEF BehindBracket
  <2>8. \E v \in WordSet : h.steps = Append(f2.steps, v)
    BY <1>2, <1>4, <1>5, <1>8
  <2>9. Fits(t, x, i + 1, h, f2)
    BY <1>8, <2>2, <2>3, <2>4, <2>5, <2>7, <2>8 DEF Fits, BehindBracket
  <2>10. QED
    BY <2>1, <2>9
<1>10. MoreIn(t, i, s, e, e2, f, g, f2, h)
  BY <1>2, <1>3, <1>4, <1>5, <1>8, <1>9 DEF MoreIn
<1>11. QED
  BY <1>10

(* The end of a list or a map.                                             *)
LEMMA ShutsFits ==
    ASSUME NEW t \in Seq(TokenSet), NEW i \in 1 .. Len(t), NEW e \in Elements,
           Shuts(t[i], e.s), NEW f \in Frames(t), NEW g, g.rest \in Seq(Settled),
           Fits(t, e, i, f, g)
    PROVE  f.ends = i /\ f.rest = g.rest
<1>1. PICK k \in 0 .. Len(t), steps \in Steps : k = f.ends /\ steps = f.steps
  BY FramesTyped
<1>2. PICK r \in Seq(Settled) : r = g.rest
  OBVIOUS
<1>3. PICK c \in Nat : c = e.list_counter
  BY DEF Elements
<1>4. Remains(t, e.s, i, k) /\ f.rest = RestMeans(t, e, i, f) \o r
  BY <1>1, <1>2 DEF Fits
<1>5. Len(t) \in Nat /\ i \in 1 .. Len(t) + 1 /\ i - 1 \in 0 .. Len(t) /\ i > i - 1
  OBVIOUS
<1>6. CASE t[i].type = "]" /\ e.s = "in_list"
  <2>1. ~Begins(t[i])
    BY <1>6, Zenon DEF Begins
  <2>2. k = i
    <3>1. Remains(t, "in_list", i, k) <=> k = i
      BY <1>5, <1>6, <2>1, ListRemains, Zenon
    <3>2. QED
      BY <1>4, <1>6, <3>1
  <2>3. IsItems(t, i, i - 1)
    BY <1>4, <1>6, <2>2 DEF Remains
  <2>4. Meant(t, "items", i, i - 1, steps, c) = <<>>
    BY <1>5, <2>3, MeantItems
  <2>5. RestMeans(t, e, i, f) = <<>>
    <3>1. RestMeans(t, e, i, f) =
                Meant(t, "items", i, k - 1, f.steps, e.list_counter)
      BY <1>1, <1>6, RestOfElement
    <3>2. QED
      BY <1>1, <1>3, <2>2, <2>4, <3>1
  <2>6. QED
    BY <1>1, <1>2, <1>4, <2>2, <2>5, Regrouped
<1>7. CASE t[i].type = "}" /\ e.s = "in_map"
  <2>1. t[i].type # "T_IDENTIFIER" /\ e.s = "in_map"
    BY <1>7, Zenon
  <2>2. k = i
    <3>1. Remains(t, "in_map", i, k) <=> k = i
      BY <1>5, <1>7, <2>1, SettingsRemain, Zenon
    <3>2. QED
      BY <1>4, <2>1, <3>1
  <2>3. IsSettings(t, i, i - 1)
    <3>1. Remains(t, "in_map", i, i)
      BY <1>4, <2>1, <2>2
    <3>2. QED
      BY <3>1, Zenon DEF Remains
  <2>4. Meant(t, "settings", i, i - 1, steps, 0) = <<>>
    BY <1>5, <2>3, MeantSettings
  <2>5. RestMeans(t, e, i, f) = <<>>
    <3>1. RestMeans(t, e, i, f) = Meant(t, "settings", i, k - 1, f.steps, 0)
      BY <1>1, <2>1, RestOfElement
    <3>2. QED
      BY <1>1, <2>2, <2>4, <3>1
  <2>6. QED
    BY <1>1, <1>2, <1>4, <2>2, <2>5, Regrouped
<1>8. QED
  BY <1>6, <1>7, Zenon DEF Shuts

-----------------------------------------------------------------------------
(* The values so far, and those that the frames promise, are the meaning.  *)
Wordy == [steps : WordSteps \ {<<>>}, value : Seq(Kept)]
KeyOf(v) == [key |-> Joined[v.steps], value |-> v.value]
Keyed(V) == [i \in DOMAIN V |-> KeyOf(V[i])]

Promised(t, st, p, vals, i, F, V) ==
    /\ Filled(t, st, i, F)
    /\ V \in Seq(Wordy) /\ vals = Keyed(V)
    /\ p = Joined[F[Len(st)].steps]
    /\ Meaning(t) = V \o F[Len(st)].rest

LEMMA KeyedMore ==
    ASSUME NEW V \in Seq(Wordy), NEW v \in Wordy, NEW k, k = KeyOf(v)
    PROVE  Append(V, v) \in Seq(Wordy) /\ Keyed(Append(V, v)) = Append(Keyed(V), k)
<1>1. /\ Append(V, v) \in Seq(Wordy) /\ Len(Append(V, v)) = Len(V) + 1
      /\ Append(V, v)[Len(V) + 1] = v /\ \A i \in 1 .. Len(V) : Append(V, v)[i] = V[i]
      /\ Len(V) \in Nat
  OBVIOUS
<1>2. PICK n \in Nat : n = Len(V)
  OBVIOUS
<1>3. PICK W : W = Append(V, v)
  OBVIOUS
<1>4. DOMAIN W = 1 .. n + 1 /\ DOMAIN V = 1 .. n
  BY <1>1, <1>2, <1>3
<1>5. Keyed(W) = [i \in 1 .. n + 1 |-> KeyOf(W[i])] /\ Keyed(V) = [i \in 1 .. n |-> KeyOf(V[i])]
  BY <1>4 DEF Keyed
<1>6. PICK Y, X : Y = Keyed(W) /\ X = Keyed(V)
  OBVIOUS
<1> DEFINE key(j) == KeyOf(j)
<1> HIDE DEF key
<1>7. /\ Y = [i \in 1 .. n + 1 |-> key(W[i])] /\ X = [i \in 1 .. n |-> key(V[i])]
      /\ k = key(v)
  BY <1>5, <1>6 DEF key
<1>8. PICK S : S = {key(W[i]) : i \in 1 .. n + 1}
  OBVIOUS
<1>9. \A i \in 1 .. n + 1 : key(W[i]) \in S
  BY <1>8
<1>10. k \in S /\ \A i \in 1 .. n : key(V[i]) \in S /\ key(V[i]) = key(W[i])
  <2>1. W[n + 1] = v /\ n + 1 \in 1 .. n + 1
    BY <1>1, <1>2, <1>3
  <2>2. \A i \in 1 .. n : i \in 1 .. n + 1 /\ W[i] = V[i]
    BY <1>1, <1>2, <1>3
  <2>3. QED
    BY <1>7, <1>9, <2>1, <2>2
<1>11. X \in Seq(S) /\ Len(X) = n
  BY <1>7, <1>10
<1>12. PICK Z \in Seq(S) : Z = Append(X, k)
  <2>1. k \in S /\ X \in Seq(S)
    BY <1>10, <1>11
  <2>2. Append(X, k) \in Seq(S)
    BY <2>1, AppendProperties
  <2>3. QED
    BY <2>2
<1>13. Len(Z) = n + 1 /\ \A i \in 1 .. n + 1 : Z[i] = key(W[i])
  <2>1. Z[n + 1] = k /\ \A i \in 1 .. n : Z[i] = X[i]
    BY <1>10, <1>11, <1>12
  <2>2. ASSUME NEW i \in 1 .. n + 1 PROVE Z[i] = key(W[i])
    <3>1. CASE i = n + 1
      BY <1>1, <1>2, <1>3, <1>7, <2>1, <3>1
    <3>2. CASE i # n + 1
      <4>1. i \in 1 .. n
        BY <3>2
      <4>2. QED
        BY <1>7, <1>10, <2>1, <4>1
    <3>3. QED
      BY <3>1, <3>2
  <2>3. QED
    BY <1>11, <1>12, <2>2
<1>14. Y = Z
  BY <1>7, <1>13
<1>15. QED
  BY <1>1, <1>3, <1>6, <1>12, <1>14

StandsOn(t, F, n) ==
    n - 1 \in Nat \ {0} /\ Under(F, n) = F[n - 1] /\ F[n - 1] \in Frames(t)

LEMMA TopFrame ==
    ASSUME NEW t, Automaton, NEW p, NEW vals, NEW i, NEW F, NEW V,
           NEW n, n = Len(stack), Promised(t, stack, p, vals, i, F, V)
    PROVE  /\ n \in Nat \ {0} /\ Top = stack[n] /\ Top \in Elements /\ stack \in Seq(Elements)
           /\ F[n] \in Frames(t) /\ Under(F, n).rest \in Seq(Settled)
           /\ Under(F, n).steps \in WordSteps
           /\ Fits(t, Top, i, F[n], Under(F, n))
           /\ Top.s \notin {"top_level", "invalid"} => StandsOn(t, F, n)
<1>1. /\ n \in Nat \ {0} /\ Top = stack[n] /\ Top \in Elements /\ stack \in Seq(Elements)
      /\ Top.s \notin {"top_level", "invalid"} => n >= 2
  BY StackShapes
<1>2. F \in Seq(Frames(t)) /\ Len(F) = n /\ F[n] \in Frames(t)
      /\ Fits(t, Top, i, F[n], Under(F, n))
  <2>1. Filled(t, stack, i, F)
    BY DEF Promised
  <2>2. QED
    BY <1>1, <2>1, FilledTop
<1>3. n # 1 => n - 1 \in 1 .. n /\ n - 1 \in Nat \ {0}
  BY <1>1
<1>4. n # 1 => Under(F, n) = F[n - 1] /\ F[n - 1] \in Frames(t)
  BY <1>1, <1>2, <1>3 DEF Under
<1>5. Ground.rest \in Seq(Settled) /\ Ground.steps \in WordSteps
  <2>1. Ground.rest = <<>> /\ Ground.steps = <<>>
    BY DEF Ground
  <2>2. <<>> \in WordSteps
    BY EmptySeq DEF WordSteps, Steps
  <2>3. QED
    BY <2>1, <2>2, EmptySeq
<1>6. Under(F, n).rest \in Seq(Settled) /\ Under(F, n).steps \in WordSteps
  <2>1. CASE n = 1
    BY <1>5, <2>1 DEF Under
  <2>2. CASE n # 1
    BY <1>4, <2>2, FramesTyped
  <2>3. QED
    BY <2>1, <2>2
<1>7. QED
  BY <1>1, <1>2, <1>3, <1>4, <1>6 DEF StandsOn

(* The turns that keep the height of the stack, that add an element, and   *)
(* that take one away.                                                     *)
LEMMA StayPromised ==
    ASSUME NEW t, NEW st, NEW p, NEW vals, NEW i, NEW F, NEW V, NEW n \in Nat \ {0},
           n = Len(st), Promised(t, st, p, vals, i, F, V),
           NEW st2, n = Len(st2), AlikeBelow(st, st2, n), NEW i2,
           NEW f \in Frames(t), f.ends = F[n].ends, f.steps = F[n].steps,
           Fits(t, st2[n], i2, f, Under(F, n)),
           NEW W \in Seq(Wordy), W \o f.rest = V \o F[n].rest
    PROVE  Promised(t, st2, p, Keyed(W), i2, [F EXCEPT ![n] = f], W)
<1>1. Filled(t, st, i, F)
  BY DEF Promised
<1>2. PICK G : G = [F EXCEPT ![n] = f]
  OBVIOUS
<1>3. Filled(t, st2, i2, G) /\ G[n] = f
  <2>1. Holds(t, st2, i2, [F EXCEPT ![n] = f], n, f)
    BY <1>1, Restack
  <2>2. QED
    BY <1>2, <2>1 DEF Holds
<1>4. p = Joined[f.steps] /\ Meaning(t) = W \o f.rest
  BY DEF Promised
<1>5. Promised(t, st2, p, Keyed(W), i2, G, W)
  BY <1>3, <1>4 DEF Promised
<1>6. QED
  BY <1>2, <1>5

LEMMA PushPromised ==
    ASSUME NEW t, NEW st, NEW p, NEW vals, NEW i, NEW F, NEW V, NEW n \in Nat \ {0},
           n = Len(st), Promised(t, st, p, vals, i, F, V),
           NEW st2 \in Seq(Elements), n = Len(st2), AlikeBelow(st, st2, n),
           NEW f \in Frames(t), f.ends = F[n].ends, NEW h \in Frames(t),
           Fits(t, st2[n], h.ends + 1, f, Under(F, n)),
           NEW e \in Elements, NEW i2, Fits(t, e, i2, h, f), h.rest = F[n].rest
    PROVE  Promised(t, Append(st2, e), Joined[h.steps], vals, i2,
                    Append([F EXCEPT ![n] = f], h), V)
<1>1. Filled(t, st, i, F) /\ V \in Seq(Wordy) /\ vals = Keyed(V) /\ Meaning(t) = V \o h.rest
  BY DEF Promised
<1>2. PICK G : G = [F EXCEPT ![n] = f]
  OBVIOUS
<1>3. Filled(t, st2, h.ends + 1, G) /\ G[n] = f
  <2>1. PICK j : j = h.ends + 1
    OBVIOUS
  <2>2. Fits(t, st2[n], j, f, Under(F, n))
    BY <2>1
  <2>3. Holds(t, st2, j, [F EXCEPT ![n] = f], n, f)
    BY <1>1, <2>2, Restack
  <2>4. QED
    BY <1>2, <2>1, <2>3 DEF Holds
<1>4. PICK H, st3 : H = Append(G, h) /\ st3 = Append(st2, e)
  OBVIOUS
<1>5. Filled(t, st3, i2, H) /\ H[n + 1] = h
  <2>1. Fits(t, e, i2, h, G[n])
    BY <1>3
  <2>2. Holds(t, Append(st2, e), i2, Append(G, h), n + 1, h)
    BY <1>3, <2>1, Stack
  <2>3. QED
    BY <1>4, <2>2 DEF Holds
<1>6. Len(st3) = n + 1
  BY <1>4
<1>7. Promised(t, st3, Joined[h.steps], vals, i2, H, V)
  BY <1>1, <1>5, <1>6 DEF Promised
<1>8. QED
  BY <1>2, <1>4, <1>7

LEMMA PopPromised ==
    ASSUME NEW t, NEW st \in Seq(Elements), NEW p, NEW vals, NEW i, NEW F, NEW V,
           NEW n \in Nat \ {0}, n + 1 = Len(st), Promised(t, st, p, vals, i, F, V),
           NEW W \in Seq(Wordy), W \o F[n].rest = V \o F[n + 1].rest
    PROVE  Promised(t, Front(st), Joined[F[n].steps], Keyed(W), F[n + 1].ends + 1,
                    Front(F), W)
<1>1. Filled(t, st, i, F) /\ Meaning(t) = W \o F[n].rest
  BY DEF Promised
<1>2. PICK G, st2, i2 : G = Front(F) /\ st2 = Front(st) /\ i2 = F[n + 1].ends + 1
  OBVIOUS
<1>3. Filled(t, st2, i2, G) /\ G[n] = F[n] /\ Len(st2) = n
  <2>1. LET K == Front(F) IN
        /\ Filled(t, Front(st), F[n + 1].ends + 1, K) /\ K[n] = F[n]
        /\ Len(Front(st)) = n
    BY <1>1, Unstack
  <2>2. QED
    BY <1>2, <2>1
<1>4. Promised(t, st2, Joined[F[n].steps], Keyed(W), i2, G, W)
  BY <1>1, <1>3 DEF Promised
<1>5. QED
  BY <1>2, <1>4

-----------------------------------------------------------------------------
(* Each turn keeps that.                                                   *)
KeepsPromise(t, i) == \E G, W : Promised(t, stack', path', values', i, G, W)

LEMMA BecomeShape ==
    ASSUME Automaton, NEW s, NEW n, n = Len(stack)
    PROVE  /\ n = Len(Become(s)) /\ AlikeBelow(stack, Become(s), n)
           /\ Becomes(Top, Become(s)[n], s)
BY StackShapes DEF SameBelow, AlikeBelow, Becomes

LEMMA CountedShape ==
    ASSUME Automaton, NEW n, n = Len(stack)
    PROVE  /\ n = Len(Counted) /\ AlikeBelow(stack, Counted, n)
           /\ Counts1(Top, Counted[n]) /\ Counted \in Seq(Elements)
BY StackShapes DEF SameBelow, AlikeBelow, Counts1

(* The frame stays as it is.                                               *)
LEMMA FrameStays ==
    ASSUME NEW t \in Seq(TokenSet), NEW i, Automaton, NEW F, NEW V,
           Promised(t, stack, path, values, i, F, V), NEW n, n = Len(stack),
           n = Len(stack'), AlikeBelow(stack, stack', n),
           Fits(t, stack'[n], i + 1, F[n], Under(F, n)), UNCHANGED <<path, values>>
    PROVE  KeepsPromise(t, i + 1)
<1>1. n \in Nat \ {0} /\ F[n] \in Frames(t)
  BY TopFrame
<1>2. PICK f \in Frames(t) : f = F[n]
  BY <1>1
<1>3. PICK j, st2 : j = i + 1 /\ st2 = stack'
  OBVIOUS
<1>4. V \in Seq(Wordy) /\ values = Keyed(V) /\ V \o f.rest = V \o F[n].rest
  BY <1>2 DEF Promised
<1>5. /\ Fits(t, st2[n], j, f, Under(F, n)) /\ f.ends = F[n].ends /\ f.steps = F[n].steps
      /\ n = Len(st2) /\ AlikeBelow(stack, st2, n)
  BY <1>2, <1>3
<1>6. Promised(t, st2, path, Keyed(V), j, [F EXCEPT ![n] = f], V)
  BY <1>1, <1>4, <1>5, StayPromised
<1>7. QED
  BY <1>3, <1>4, <1>6 DEF KeepsPromise

LEMMA EqualsKeeps ==
    ASSUME NEW t \in Seq(TokenSet), NEW i, HasRead(t, i), Automaton, NEW F, NEW V,
           Promised(t, stack, path, values, i, F, V), Equals
    PROVE  KeepsPromise(t, i + 1)
<1>1. PICK n : n = Len(stack)
  OBVIOUS
<1>2. i \in 1 .. Len(t) /\ F[n] \in Frames(t) /\ Fits(t, Top, i, F[n], Under(F, n))
  BY <1>1, TopFrame DEF HasRead
<1>3. /\ Top.s = "exp_equals" /\ stack' = Become("exp_value")
      /\ UNCHANGED <<path, values>>
  BY DEF Equals
<1>4. /\ n = Len(stack') /\ AlikeBelow(stack, stack', n)
      /\ Becomes(Top, stack'[n], "exp_value")
  BY <1>1, <1>3, BecomeShape
<1>5. Fits(t, stack'[n], i + 1, F[n], Under(F, n))
  BY <1>2, <1>3, <1>4, EqualsFits
<1>6. QED
  BY <1>1, <1>3, <1>4, <1>5, FrameStays

LEMMA EntersKeeps ==
    ASSUME NEW t \in Seq(TokenSet), NEW i, HasRead(t, i), Automaton, NEW F, NEW V,
           Promised(t, stack, path, values, i, F, V), Enters, ~HasLongList(t)
    PROVE  KeepsPromise(t, i + 1)
<1>1. PICK n : n = Len(stack)
  OBVIOUS
<1>2. /\ i \in 1 .. Len(t) /\ F[n] \in Frames(t) /\ Fits(t, Top, i, F[n], Under(F, n))
      /\ token = t[i]
  BY <1>1, TopFrame DEF HasRead
<1>3. PICK s : stack' = Become(s) /\ Opens(t[i], s)
  <2>1. \/ token.type = "[" /\ stack' = Become("in_list")
        \/ token.type = "{" /\ stack' = Become("in_map")
    BY Zenon DEF Enters
  <2>2. CASE token.type = "[" /\ stack' = Become("in_list")
    <3>1. t[i].type = "["
      BY <1>2, <2>2, Zenon
    <3>2. Opens(t[i], "in_list")
      BY <3>1, Zenon DEF Opens
    <3>3. QED
      BY <2>2, <3>2, Zenon
  <2>3. CASE token.type = "{" /\ stack' = Become("in_map")
    <3>1. Opens(t[i], "in_map")
      BY <1>2, <2>3, Zenon DEF Opens
    <3>2. QED
      BY <2>3, <3>1, Zenon
  <2>4. QED
    BY <2>1, <2>2, <2>3, Zenon
<1>4. Top.s = "exp_value" /\ UNCHANGED <<path, values>>
  BY Zenon DEF Enters
<1>5. /\ n = Len(stack') /\ AlikeBelow(stack, stack', n) /\ Becomes(Top, stack'[n], s)
  BY <1>1, <1>3, BecomeShape
<1>6. Fits(t, stack'[n], i + 1, F[n], Under(F, n))
  BY <1>2, <1>3, <1>4, <1>5, EntersFits
<1>7. QED
  BY <1>1, <1>4, <1>5, <1>6, FrameStays

LEMMA CommasKeeps ==
    ASSUME NEW t \in Seq(TokenSet), NEW i, HasRead(t, i), Automaton, NEW F, NEW V,
           Promised(t, stack, path, values, i, F, V), Commas
    PROVE  KeepsPromise(t, i + 1)
<1>1. PICK n : n = Len(stack)
  OBVIOUS
<1>2. /\ i \in 1 .. Len(t) /\ F[n] \in Frames(t) /\ Fits(t, Top, i, F[n], Under(F, n))
      /\ token = t[i] /\ Top = stack[n] /\ Top \in Elements
  BY <1>1, TopFrame DEF HasRead
<1>3. /\ Top.s = "in_list" /\ IsComma(t[i]) /\ stack' = stack /\ UNCHANGED <<path, values>>
  BY <1>2, Zenon DEF Commas, IsComma
<1>4. AlikeBelow(stack, stack', n)
  BY <1>3 DEF AlikeBelow
<1>5. Fits(t, Top, i + 1, F[n], Under(F, n))
  BY <1>2, <1>3, CommaFits
<1>6. n = Len(stack') /\ Fits(t, stack'[n], i + 1, F[n], Under(F, n))
  BY <1>1, <1>2, <1>3, <1>5
<1>7. QED
  BY <1>1, <1>3, <1>4, <1>6, FrameStays

-----------------------------------------------------------------------------
(* A name is one step more, and the last of them until its value ends.     *)
LEMMA StepTo ==
    ASSUME NEW steps \in WordSteps, NEW w \in WordSet, NEW to, to = Append(steps, w)
    PROVE  /\ to \in WordSteps \ {<<>>} /\ Joined[to] = PushName(Joined[steps], w)
           /\ Pop(Joined[to]) = Joined[steps] /\ Joined[steps] \in Seq(Chars)
<1>1. w \in Seq(STRING) /\ NameWord(w)
  BY DEF WordSet
<1>2. QED
  BY <1>1, JoinedPush, JoinedFull

LEMMA WordOfName ==
    ASSUME NEW t \in Seq(TokenSet), NEW i \in 1 .. Len(t), Identifies(t[i])
    PROVE  t[i].word \in WordSet
<1>1. t[i] \in TokenSet
  OBVIOUS
<1>2. QED
  BY <1>1 DEF TokenSet, IsName, Identifies, WordSet

LEMMA NamesKeeps ==
    ASSUME NEW t \in Seq(TokenSet), NEW i, HasRead(t, i), Automaton, NEW F, NEW V,
           Promised(t, stack, path, values, i, F, V), NamesSetting
    PROVE  KeepsPromise(t, i + 1)
<1>1. PICK n, f, g, e : n = Len(stack) /\ f = F[n] /\ g = Under(F, n) /\ e = Top
  OBVIOUS
<1>2. /\ i \in 1 .. Len(t) /\ f \in Frames(t) /\ Fits(t, e, i, f, g)
      /\ token = t[i] /\ e = stack[n] /\ e \in Elements /\ g.rest \in Seq(Settled)
      /\ n \in Nat \ {0} /\ stack \in Seq(Elements)
  BY <1>1, TopFrame DEF HasRead
<1>3. /\ OfSettings(e) /\ Identifies(t[i])
      /\ stack' = Append(stack, Element("exp_equals"))
      /\ path' = PushName(path, t[i].word) /\ values' = values
  BY <1>1, <1>2, Zenon DEF NamesSetting, OfSettings, Identifies
<1>4. PICK f2, h \in Frames(t) :
        /\ f2.ends = f.ends /\ Fits(t, e, h.ends + 1, f2, g)
        /\ Fits(t, Element("exp_equals"), i + 1, h, f2)
        /\ h.rest = f.rest /\ h.steps = Append(f.steps, t[i].word)
  BY <1>2, <1>3, NameFits
<1>5. PICK x, j : x = Element("exp_equals") /\ j = i + 1
  OBVIOUS
<1>6. x \in Elements
  BY <1>5 DEF Element, Elements
<1>7. AlikeBelow(stack, stack, n)
  BY DEF AlikeBelow
<1>8. /\ f2.ends = F[n].ends /\ Fits(t, stack[n], h.ends + 1, f2, Under(F, n))
      /\ Fits(t, x, j, h, f2) /\ h.rest = F[n].rest
  BY <1>1, <1>2, <1>4, <1>5
<1>9. Promised(t, Append(stack, x), Joined[h.steps], values, j,
                Append([F EXCEPT ![n] = f2], h), V)
  BY <1>1, <1>2, <1>6, <1>7, <1>8, PushPromised
<1>10. path' = Joined[h.steps]
  <2>1. path = Joined[f.steps] /\ f.steps \in WordSteps
    BY <1>1, <1>2, FramesTyped DEF Promised
  <2>2. PICK steps \in WordSteps, w \in WordSet : steps = f.steps /\ w = t[i].word
    BY <1>2, <1>3, <2>1, WordOfName
  <2>3. PICK to : to = Append(steps, w)
    OBVIOUS
  <2>4. Joined[to] = PushName(Joined[steps], w)
    BY <2>3, StepTo
  <2>5. QED
    BY <1>3, <1>4, <2>1, <2>2, <2>3, <2>4
<1>11. QED
  BY <1>3, <1>5, <1>9, <1>10 DEF KeepsPromise

(* The path of an item of a list, and back.                                *)
ItemAt(steps, c, to) ==
    /\ to \in WordSteps \ {<<>>} /\ PushInt(Joined[steps], c) = Joined[to]
    /\ Pop(Joined[to]) = Joined[steps]

LEMMA ItemPath ==
    ASSUME NEW steps \in WordSteps, NEW c \in 0 .. Base - 1, NEW to,
           to = Append(steps, Number[c])
    PROVE  ItemAt(steps, c, to)
<1>1. PICK w \in WordSet : w = Number[c]
  BY IndexWord
<1>2. /\ to \in WordSteps \ {<<>>} /\ Joined[to] = PushName(Joined[steps], w)
      /\ Pop(Joined[to]) = Joined[steps] /\ Joined[steps] \in Seq(Chars)
  BY <1>1, StepTo
<1>3. PushInt(Joined[steps], c) = PushName(Joined[steps], Number[c])
  BY <1>2, IndexStep
<1>4. QED
  BY <1>1, <1>2, <1>3 DEF ItemAt

LEMMA MoreKeeps ==
    ASSUME NEW t \in Seq(TokenSet), NEW i, HasRead(t, i), Automaton, NEW F, NEW V,
           Promised(t, stack, path, values, i, F, V), ListsMore, ~HasLongList(t)
    PROVE  KeepsPromise(t, i + 1)
<1>1. PICK n, f, g, e : n = Len(stack) /\ f = F[n] /\ g = Under(F, n) /\ e = Top
  OBVIOUS
<1>2. /\ i \in 1 .. Len(t) /\ f \in Frames(t) /\ Fits(t, e, i, f, g)
      /\ token = t[i] /\ e = stack[n] /\ e \in Elements /\ g.rest \in Seq(Settled)
      /\ n \in Nat \ {0} /\ stack \in Seq(Elements)
  BY <1>1, TopFrame DEF HasRead
<1>3. PICK s : stack' = Append(Counted, Element(s)) /\ Opens(t[i], s)
  <2>1. \/ token.type = "[" /\ stack' = Append(Counted, Element("in_list"))
        \/ token.type = "{" /\ stack' = Append(Counted, Element("in_map"))
    BY Zenon DEF ListsMore
  <2>2. CASE token.type = "[" /\ stack' = Append(Counted, Element("in_list"))
    <3>1. Opens(t[i], "in_list")
      BY <1>2, <2>2, Zenon DEF Opens
    <3>2. QED
      BY <2>2, <3>1, Zenon
  <2>3. CASE token.type = "{" /\ stack' = Append(Counted, Element("in_map"))
    <3>1. Opens(t[i], "in_map")
      BY <1>2, <2>3, Zenon DEF Opens
    <3>2. QED
      BY <2>3, <3>1, Zenon
  <2>4. QED
    BY <2>1, <2>2, <2>3, Zenon
<1>4. e.s = "in_list" /\ values' = values /\ path' = PushInt(path, e.list_counter)
  BY <1>1, Zenon DEF ListsMore
<1>5. PICK st2 \in Seq(Elements) : st2 = Counted
  BY <1>1, CountedShape
<1>6. n = Len(st2) /\ AlikeBelow(stack, st2, n) /\ Counts1(e, st2[n])
  BY <1>1, <1>5, CountedShape
<1>7. PICK f2, h \in Frames(t) : MoreIn(t, i, s, e, st2[n], f, g, f2, h)
  BY <1>2, <1>3, <1>4, <1>6, ListMoreFits
<1>8. PICK x, j : x = Element(s) /\ j = i + 1
  OBVIOUS
<1>9. x \in Elements
  <2>1. s \in {"in_list", "in_map"}
    BY <1>3, OpensBegins
  <2>2. QED
    BY <1>8, <2>1 DEF Element, Elements
<1>10. /\ f2.ends = F[n].ends /\ Fits(t, st2[n], h.ends + 1, f2, Under(F, n))
       /\ Fits(t, x, j, h, f2) /\ h.rest = F[n].rest
       /\ e.list_counter \in 0 .. Base - 1
       /\ h.steps = Append(f.steps, Number[e.list_counter])
  BY <1>1, <1>7, <1>8 DEF MoreIn
<1>11. Promised(t, Append(st2, x), Joined[h.steps], values, j,
                Append([F EXCEPT ![n] = f2], h), V)
  BY <1>1, <1>2, <1>6, <1>9, <1>10, PushPromised
<1>12. path' = Joined[h.steps]
  <2>1. path = Joined[f.steps] /\ f.steps \in WordSteps
    BY <1>1, <1>2, FramesTyped DEF Promised
  <2>2. PICK steps \in WordSteps, c \in 0 .. Base - 1 :
            steps = f.steps /\ c = e.list_counter
    BY <1>10, <2>1
  <2>3. PICK to : to = Append(steps, Number[c])
    OBVIOUS
  <2>4. PushInt(Joined[steps], c) = Joined[to]
    <3>1. ItemAt(steps, c, to)
      BY <2>3, ItemPath
    <3>2. QED
      BY <3>1 DEF ItemAt
  <2>5. QED
    BY <1>4, <1>10, <2>1, <2>2, <2>3, <2>4
<1>13. QED
  BY <1>3, <1>4, <1>5, <1>8, <1>11, <1>12 DEF KeepsPromise

-----------------------------------------------------------------------------
(* A value that is kept is no longer promised.                             *)
Moves(V, v, f, r) == Append(V, v) \o r = V \o f

LEMMA MovesOver ==
    ASSUME NEW V \in Seq(Wordy), NEW v \in Wordy, NEW r \in Seq(Settled),
           NEW f, f = <<v>> \o r
    PROVE  Moves(V, v, f, r)
<1>1. \A x \in Wordy : x \in Settled
  BY DEF Wordy, Settled, WordSteps
<1>2. V \in Seq(Settled) /\ <<v>> \in Seq(Settled)
  BY <1>1
<1>3. Append(V, v) = V \o <<v>>
  BY <1>2, AppendIsConcat
<1>4. Regroups(V, <<v>>, r)
  BY <1>2, RegroupsAny
<1>5. QED
  BY <1>3, <1>4 DEF Regroups, Moves

LEMMA ListTextKeeps ==
    ASSUME NEW t \in Seq(TokenSet), NEW i, HasRead(t, i), Automaton, NEW F, NEW V,
           Promised(t, stack, path, values, i, F, V), ListsText
    PROVE  KeepsPromise(t, i + 1)
<1>1. PICK n, f, g, e : n = Len(stack) /\ f = F[n] /\ g = Under(F, n) /\ e = Top
  OBVIOUS
<1>2. /\ i \in 1 .. Len(t) /\ f \in Frames(t) /\ Fits(t, e, i, f, g)
      /\ token = t[i] /\ e = stack[n] /\ e \in Elements /\ g.rest \in Seq(Settled)
      /\ n \in Nat \ {0} /\ stack \in Seq(Elements)
  BY <1>1, TopFrame DEF HasRead
<1>3. e.s = "in_list" /\ Says(t[i]) /\ stack' = Counted
  BY <1>1, <1>2, Zenon DEF ListsText, Says
<1>4. n = Len(stack') /\ AlikeBelow(stack, stack', n) /\ Counts1(e, stack'[n])
  BY <1>1, <1>3, CountedShape
<1>5. PICK f2 \in Frames(t) : TextIn(t, i, e, stack'[n], f, g, f2)
  BY <1>2, <1>3, <1>4, ListTextFits
<1>6. PICK steps \in WordSteps, c \in 0 .. Base - 1, w \in Seq(Kept) :
        steps = f.steps /\ c = e.list_counter /\ w = t[i].word
  BY <1>2, <1>5, FramesTyped DEF TextIn
<1>7. PICK to : to = Append(steps, Number[c])
  OBVIOUS
<1>8. ItemAt(steps, c, to)
  BY <1>7, ItemPath
<1>9. PICK v \in Wordy : v = [steps |-> to, value |-> w]
  BY <1>8 DEF ItemAt, Wordy
<1>10. path = Joined[steps] /\ V \in Seq(Wordy) /\ values = Keyed(V)
  BY <1>1, <1>6 DEF Promised
<1>11. path' = path /\ values' = Append(values, KeyOf(v))
  <2>1. path' = Pop(PushInt(path, c))
        /\ values' = Append(values, [key |-> PushInt(path, c), value |-> w])
    BY <1>1, <1>2, <1>6 DEF ListsText, AddValue
  <2>2. PushInt(path, c) = Joined[to] /\ Pop(Joined[to]) = path
    BY <1>8, <1>10 DEF ItemAt
  <2>3. KeyOf(v) = [key |-> Joined[to], value |-> w]
    BY <1>9 DEF KeyOf
  <2>4. QED
    BY <2>1, <2>2, <2>3
<1>12. PICK W : W = Append(V, v)
  OBVIOUS
<1>13. W \in Seq(Wordy) /\ Keyed(W) = Append(Keyed(V), KeyOf(v))
  BY <1>10, <1>12, KeyedMore
<1>14. W \o f2.rest = V \o F[n].rest
  <2>1. PICK r, q : r \in Seq(Settled) /\ r = f2.rest /\ q = f.rest
    BY FramesTyped
  <2>2. q = <<v>> \o r
    BY <1>5, <1>6, <1>7, <1>9, <2>1 DEF TextIn
  <2>3. Moves(V, v, q, r)
    BY <1>10, <2>1, <2>2, MovesOver
  <2>4. QED
    BY <1>1, <1>12, <2>1, <2>3 DEF Moves
<1>15. PICK j, st2 : j = i + 1 /\ st2 = stack'
  OBVIOUS
<1>16. /\ f2.ends = F[n].ends /\ f2.steps = F[n].steps /\ n = Len(st2)
       /\ Fits(t, st2[n], j, f2, Under(F, n)) /\ AlikeBelow(stack, st2, n)
  BY <1>1, <1>4, <1>5, <1>15 DEF TextIn
<1>17. Promised(t, st2, path, Keyed(W), j, [F EXCEPT ![n] = f2], W)
  BY <1>1, <1>2, <1>13, <1>14, <1>16, StayPromised
<1>18. path' = path /\ values' = Keyed(W)
  BY <1>10, <1>11, <1>13
<1>19. QED
  BY <1>15, <1>17, <1>18 DEF KeepsPromise

(* The element under the one that ends.                                    *)
LEMMA FrameStands ==
    ASSUME NEW t, Automaton, NEW p, NEW vals, NEW i, NEW F, NEW V,
           Promised(t, stack, p, vals, i, F, V), NEW n, n = Len(stack),
           Top.s \notin {"top_level", "invalid"}
    PROVE  StandsOn(t, F, n)
BY TopFrame

Ends(t, i, F, V, n) ==
    /\ n - 1 \in Nat \ {0} /\ stack \in Seq(Elements) /\ F[n].ends = i
    /\ F[n - 1] \in Frames(t) /\ Pop(path) = Joined[F[n - 1].steps]

LEMMA EndsAt ==
    ASSUME NEW t, NEW i, Automaton, NEW F, NEW V,
           Promised(t, stack, path, values, i, F, V), NEW n, n = Len(stack),
           Top.s \notin {"top_level", "invalid"}, F[n].ends = i
    PROVE  Ends(t, i, F, V, n)
<1>1. PICK f, g : f = F[n] /\ g = Under(F, n)
  OBVIOUS
<1>2. /\ f \in Frames(t) /\ Fits(t, Top, i, f, g) /\ g.steps \in WordSteps
      /\ n - 1 \in Nat \ {0} /\ g = F[n - 1] /\ g \in Frames(t) /\ stack \in Seq(Elements)
  <2>1. /\ f \in Frames(t) /\ Fits(t, Top, i, f, g) /\ g.steps \in WordSteps
        /\ stack \in Seq(Elements)
    BY <1>1, TopFrame
  <2>2. StandsOn(t, F, n)
    BY FrameStands
  <2>3. QED
    BY <1>1, <2>1, <2>2 DEF StandsOn
<1>3. PICK w \in WordSet : f.steps = Append(g.steps, w)
  BY <1>2 DEF Fits
<1>4. path = Joined[f.steps]
  BY <1>1 DEF Promised
<1>5. PICK steps, to : steps \in WordSteps /\ steps = g.steps /\ to = Append(steps, w)
  BY <1>2
<1>6. Pop(Joined[to]) = Joined[steps]
  BY <1>5, StepTo
<1>7. QED
  BY <1>1, <1>2, <1>3, <1>4, <1>5, <1>6 DEF Ends

LEMMA ElementEnds ==
    ASSUME NEW t, NEW i, Automaton, NEW F, NEW V,
           Promised(t, stack, path, values, i, F, V), NEW n, n = Len(stack),
           Ends(t, i, F, V, n), stack' = Front(stack), path' = Pop(path),
           NEW W \in Seq(Wordy), values' = Keyed(W), W \o F[n - 1].rest = V \o F[n].rest
    PROVE  KeepsPromise(t, i + 1)
<1>1. PICK m \in Nat \ {0} : m = n - 1 /\ m + 1 = n
  <2>1. n - 1 \in Nat \ {0} /\ n \in Nat
    BY TopFrame DEF Ends
  <2>2. PICK m \in Nat \ {0} : m = n - 1
    BY <2>1
  <2>3. m + 1 = n
    BY <2>1, <2>2
  <2>4. QED
    BY <2>2, <2>3
<1>2. /\ stack \in Seq(Elements) /\ m + 1 = Len(stack) /\ F[m + 1].ends = i
      /\ W \o F[m].rest = V \o F[m + 1].rest /\ path' = Joined[F[m].steps]
  BY <1>1 DEF Ends
<1>3. Promised(t, Front(stack), Joined[F[m].steps], Keyed(W), F[m + 1].ends + 1, Front(F), W)
  BY <1>2, PopPromised
<1>4. QED
  BY <1>2, <1>3 DEF KeepsPromise

LEMMA ClosesKeeps ==
    ASSUME NEW t \in Seq(TokenSet), NEW i, HasRead(t, i), Automaton, NEW F, NEW V,
           Promised(t, stack, path, values, i, F, V), Closes
    PROVE  KeepsPromise(t, i + 1)
<1>1. PICK n, f, g, e : n = Len(stack) /\ f = F[n] /\ g = Under(F, n) /\ e = Top
  OBVIOUS
<1>2. /\ i \in 1 .. Len(t) /\ f \in Frames(t) /\ Fits(t, e, i, f, g)
      /\ token = t[i] /\ e \in Elements /\ g.rest \in Seq(Settled)
  BY <1>1, TopFrame DEF HasRead
<1>3. /\ Shuts(t[i], e.s) /\ stack' = Front(stack) /\ path' = Pop(path) /\ values' = values
      /\ e.s \in {"in_list", "in_map"}
  BY <1>1, <1>2, Zenon DEF Closes, Shuts
<1>4. f.ends = i /\ f.rest = g.rest
  BY <1>2, <1>3, ShutsFits
<1>5. Top.s \notin {"top_level", "invalid"}
  BY <1>1, <1>3
<1>6. Ends(t, i, F, V, n)
  BY <1>1, <1>4, <1>5, EndsAt
<1>7. g = F[n - 1]
  <2>1. StandsOn(t, F, n)
    BY <1>1, <1>5, FrameStands
  <2>2. QED
    BY <1>1, <2>1 DEF StandsOn
<1>8. V \in Seq(Wordy) /\ values' = Keyed(V) /\ V \o F[n - 1].rest = V \o F[n].rest
  BY <1>1, <1>3, <1>4, <1>7 DEF Promised
<1>9. QED
  BY <1>1, <1>3, <1>6, <1>8, ElementEnds

LEMMA TextKeeps ==
    ASSUME NEW t \in Seq(TokenSet), NEW i, HasRead(t, i), Automaton, NEW F, NEW V,
           Promised(t, stack, path, values, i, F, V), IsText
    PROVE  KeepsPromise(t, i + 1)
<1>1. PICK n, f, g, e : n = Len(stack) /\ f = F[n] /\ g = Under(F, n) /\ e = Top
  OBVIOUS
<1>2. /\ i \in 1 .. Len(t) /\ f \in Frames(t) /\ Fits(t, e, i, f, g)
      /\ token = t[i] /\ e \in Elements /\ g.rest \in Seq(Settled) /\ g.steps \in WordSteps
  BY <1>1, TopFrame DEF HasRead
<1>3. /\ Says(t[i]) /\ stack' = Front(stack) /\ path' = Pop(path) /\ e.s = "exp_value"
  BY <1>1, <1>2, Zenon DEF IsText, Says
<1>4. /\ f.ends = i /\ t[i].word \in Seq(Kept)
      /\ f.rest = << [steps |-> f.steps, value |-> t[i].word] >> \o g.rest
  BY <1>2, <1>3, TextFits
<1>5. Top.s \notin {"top_level", "invalid"}
  BY <1>1, <1>3
<1>6. Ends(t, i, F, V, n)
  BY <1>1, <1>4, <1>5, EndsAt
<1>7. g = F[n - 1]
  <2>1. StandsOn(t, F, n)
    BY <1>1, <1>5, FrameStands
  <2>2. QED
    BY <1>1, <2>1 DEF StandsOn
<1>8. f.steps \in WordSteps \ {<<>>}
  <2>1. PICK u \in WordSet : f.steps = Append(g.steps, u)
    BY <1>2, <1>3 DEF Fits
  <2>2. PICK s, to : s \in WordSteps /\ s = g.steps /\ to = Append(s, u)
    BY <1>2
  <2>3. to \in WordSteps \ {<<>>}
    BY <2>2, StepTo
  <2>4. QED
    BY <2>1, <2>2, <2>3
<1>9. PICK v \in Wordy : v = [steps |-> f.steps, value |-> t[i].word]
  BY <1>4, <1>8 DEF Wordy
<1>10. path = Joined[f.steps] /\ V \in Seq(Wordy) /\ values = Keyed(V)
  BY <1>1 DEF Promised
<1>11. values' = Append(Keyed(V), KeyOf(v))
  <2>1. values' = Append(values, [key |-> path, value |-> t[i].word])
    BY <1>2 DEF IsText, AddValue
  <2>2. KeyOf(v) = [key |-> path, value |-> t[i].word]
    BY <1>9, <1>10 DEF KeyOf
  <2>3. QED
    BY <1>10, <2>1, <2>2
<1>12. PICK W : W = Append(V, v)
  OBVIOUS
<1>13. W \in Seq(Wordy) /\ values' = Keyed(W)
  BY <1>10, <1>11, <1>12, KeyedMore
<1>14. W \o F[n - 1].rest = V \o F[n].rest
  <2>1. PICK r, q : r \in Seq(Settled) /\ r = g.rest /\ q = f.rest
    BY <1>2
  <2>2. q = <<v>> \o r
    BY <1>4, <1>9, <2>1
  <2>3. Moves(V, v, q, r)
    BY <1>10, <2>1, <2>2, MovesOver
  <2>4. QED
    BY <1>1, <1>7, <1>12, <2>1, <2>3 DEF Moves
<1>15. QED
  BY <1>1, <1>3, <1>6, <1>13, <1>14, ElementEnds

-----------------------------------------------------------------------------
(* What the frames promise can be completed: a turn that rejects the token *)
(* breaks no promise, there is none.                                       *)
LEMMA FilledCompletes ==
    ASSUME NEW t, NEW st, NEW i, NEW F, Len(st) \in Nat, Filled(t, st, i, F)
    PROVE  \E q : Completes(t, st, i, q)
<1>1. F \in Seq(Frames(t)) /\ Len(F) = Len(st)
  BY DEF Filled
<1>2. PICK q : q = [l \in 1 .. Len(st) |-> F[l].ends]
  OBVIOUS
<1>3. \A l \in 1 .. Len(st) : q[l] = F[l].ends /\ q[l] \in 0 .. Len(t)
  BY <1>1, <1>2, FramesTyped
<1>4. q \in Seq(0 .. Len(t)) /\ Len(q) = Len(st)
  BY <1>2, <1>3
<1>5. ASSUME NEW l \in 1 .. Len(st)
      PROVE  Remains(t, st[l].s, From(q, i, l), q[l])
  <2>1. Remains(t, st[l].s, Starts(F, i, l), F[l].ends)
    BY DEF Filled, Fits
  <2>2. Starts(F, i, l) = From(q, i, l)
    <3>1. l # Len(st) => l + 1 \in 1 .. Len(st)
      OBVIOUS
    <3>2. QED
      BY <1>1, <1>3, <1>4, <3>1 DEF Starts, From
  <2>3. QED
    BY <1>3, <2>1, <2>2
<1>6. Completes(t, st, i, q)
  BY <1>4, <1>5 DEF Completes
<1>7. QED
  BY <1>6

LEMMA TurnKeeps ==
    ASSUME NEW t \in Seq(TokenSet), NEW i, HasRead(t, i), Automaton, NEW F, NEW V,
           Promised(t, stack, path, values, i, F, V), Handle, token # Null,
           ~HasLongList(t)
    PROVE  KeepsPromise(t, i + 1)
<1>1. CASE NamesSetting
  BY <1>1, NamesKeeps
<1>2. CASE Equals
  BY <1>2, EqualsKeeps
<1>3. CASE IsText
  BY <1>3, TextKeeps
<1>4. CASE Enters
  BY <1>4, EntersKeeps
<1>5. CASE Commas
  BY <1>5, CommasKeeps
<1>6. CASE ListsText
  BY <1>6, ListTextKeeps
<1>7. CASE ListsMore
  BY <1>7, MoreKeeps
<1>8. CASE Closes
  BY <1>8, ClosesKeeps
<1>9. CASE Rejects
  <2>1. \A q : ~Completes(t, stack, i, q)
    BY <1>9, RejectTurn
  <2>2. Filled(t, stack, i, F) /\ Len(stack) \in Nat
    BY StackShapes DEF Promised
  <2>3. QED
    BY <2>1, <2>2, FilledCompletes
<1>10. QED
  BY <1>1, <1>2, <1>3, <1>4, <1>5, <1>6, <1>7, <1>8, <1>9, Turns

(* Before the first token and after the last.                              *)
LEMMA FirstPromised ==
    ASSUME NEW t \in Seq(TokenSet), WellFormed(t)
    PROVE  \E F, V : Promised(t, <<Element("top_level")>>, <<>>, <<>>, 1, F, V)
<1>1. PICK k \in 0 .. Len(t) : k = Len(t)
  OBVIOUS
<1>2. Len(t) \in Nat /\ 1 \in 1 .. Len(t) + 1
  OBVIOUS
<1>3. <<>> \in WordSteps /\ <<>> \in Steps
  BY EmptySeq DEF WordSteps, Steps
<1>4. IsSettings(t, 1, k)
  BY <1>1 DEF WellFormed
<1>5. PICK rest \in Seq(Settled) : rest = Meant(t, "settings", 1, k, <<>>, 0)
  BY <1>2, <1>3, <1>4, MeantSettings
<1>6. PICK f \in Frames(t) : f.ends = k /\ f.steps = <<>> /\ f.rest = rest
  BY <1>3, AnyFrame
<1>7. PICK e : e = Element("top_level")
  OBVIOUS
<1>8. e.s = "top_level" /\ e.list_counter = 0
  BY <1>7 DEF Element
<1>9. Fits(t, e, 1, f, Ground)
  <2>1. Remains(t, "top_level", 1, k)
    BY <1>1, <1>2, <1>4 DEF Remains
  <2>2. RestMeans(t, e, 1, f) = rest
    BY <1>5, <1>6, <1>8, RestOfElement
  <2>3. f.rest = RestMeans(t, e, 1, f) \o Ground.rest
    BY <1>6, <2>2, Regrouped DEF Ground
  <2>4. QED
    BY <1>6, <1>8, <2>1, <2>3 DEF Fits
<1>10. PICK st, F : st = <<e>> /\ F = <<f>>
  OBVIOUS
<1>11. Len(st) = 1 /\ st[1] = e /\ Len(F) = 1 /\ F[1] = f /\ F \in Seq(Frames(t))
  BY <1>10
<1>12. Filled(t, st, 1, F)
  <2>1. ASSUME NEW l \in 1 .. Len(st) PROVE Fits(t, st[l], Starts(F, 1, l), F[l], Under(F, l))
    <3>1. l = 1
      BY <1>11
    <3>2. QED
      BY <1>9, <1>11, <3>1 DEF Starts, Under
  <2>2. QED
    BY <1>11, <2>1 DEF Filled
<1>13. <<>> \in Seq(Wordy) /\ <<>> = Keyed(<<>>)
  BY EmptySeq DEF Keyed
<1>14. Joined[<<>>] = <<>>
  BY <1>3, JoinedFull
<1>15. Meaning(t) = <<>> \o f.rest
  BY <1>1, <1>5, <1>6, Regrouped DEF Meaning, Meant
<1>16. Promised(t, st, <<>>, <<>>, 1, F, <<>>)
  BY <1>6, <1>11, <1>12, <1>13, <1>14, <1>15 DEF Promised
<1>17. QED
  BY <1>7, <1>10, <1>16

LEMMA LastPromised ==
    ASSUME NEW t \in Seq(TokenSet), NEW p, NEW vals, NEW F, NEW V,
           Promised(t, <<Element("top_level")>>, p, vals, Len(t) + 1, F, V)
    PROVE  Meaning(t) \in Seq(Wordy) /\ vals = Keyed(Meaning(t))
<1>1. PICK e, st : e = Element("top_level") /\ st = <<e>>
  OBVIOUS
<1>2. Len(st) = 1 /\ st[1] = e /\ e.s = "top_level"
  BY <1>1 DEF Element
<1>3. Filled(t, st, Len(t) + 1, F) /\ V \in Seq(Wordy) /\ vals = Keyed(V)
      /\ Meaning(t) = V \o F[1].rest
  BY <1>1, <1>2 DEF Promised
<1>4. PICK f \in Frames(t) : f = F[1]
  <2>1. F \in Seq(Frames(t)) /\ Len(F) = 1
    BY <1>2, <1>3 DEF Filled
  <2>2. 1 \in 1 .. Len(F)
    BY <2>1
  <2>3. F[1] \in Frames(t)
    BY <2>1, <2>2, ElementOfSeq, Zenon
  <2>4. QED
    BY <2>3
<1>5. Fits(t, e, Len(t) + 1, f, Ground)
  <2>1. Fits(t, st[1], Starts(F, Len(t) + 1, 1), F[1], Under(F, 1)) /\ Len(F) = 1
    BY <1>2, <1>3 DEF Filled
  <2>2. QED
    BY <1>2, <1>4, <2>1 DEF Starts, Under
<1>6. PICK k \in 0 .. Len(t), steps \in Steps : k = f.ends /\ steps = f.steps
  BY FramesTyped
<1>7. k = Len(t) /\ IsSettings(t, Len(t) + 1, k)
  BY <1>2, <1>5, <1>6 DEF Fits, Remains
<1>8. Meant(t, "settings", Len(t) + 1, k, steps, 0) = <<>>
  <2>1. Len(t) + 1 \in 1 .. Len(t) + 1 /\ Len(t) + 1 > k
    BY <1>7
  <2>2. QED
    BY <1>7, <2>1, MeantSettings
<1>9. f.rest = <<>>
  <2>1. RestMeans(t, e, Len(t) + 1, f) = <<>>
    BY <1>2, <1>6, <1>8, RestOfElement
  <2>2. f.rest = RestMeans(t, e, Len(t) + 1, f) \o <<>>
    BY <1>5 DEF Fits, Ground
  <2>3. QED
    BY <2>1, <2>2, Regrouped, EmptySeq
<1>10. V \o <<>> = V
  BY <1>3
<1>11. QED
  BY <1>3, <1>4, <1>9, <1>10

-----------------------------------------------------------------------------
(* Until the answer the values are kept that the tokens read so far mean,  *)
(* and the rest is promised; then they are the meaning of the file.        *)
Promise(t, m) ==
    WellFormed(t) /\ ~HasLongList(t) =>
        \E F, V : Promised(t, stack, path, values, m + 1, F, V)
KeepsAll(t) ==
    ~HasLongList(t) => Meaning(t) \in Seq(Wordy) /\ values = Keyed(Meaning(t))

Story ==
    /\ status = "writing" => Unopened
    /\ status \in {"scanning", "parsing"} =>
         \E m \in Nat : Halfway(text, Tokens(text), m) /\ Promise(Tokens(text), m)
    /\ status \in Accepted => KeepsAll(Tokens(text))

LEMMA SamePromise ==
    ASSUME NEW t, NEW m, UNCHANGED <<stack, path, values>>, Promise(t, m)
    PROVE  Promise(t, m)'
BY DEF Promise

LEMMA ParsePromise ==
    ASSUME NEW t, NEW T, NEW m, NEW k, k = m + Count(token), OfText(t, T), IInv, Words, Parse,
           UNCHANGED <<visited, config>>, Halfway(t, T, m), Promise(T, m)
    PROVE  /\ Promise(T, k)'
           /\ status' = "parsed" => KeepsAll(T)'
<1>1. status = "parsing" /\ Handle /\ GoOn
  BY DEF Parse
<1>2. T \in Seq(TokenSet) /\ Len(T) \in Nat
  BY TokensTyped
<1>3. /\ m \in Nat /\ Taken(m) <= Len(T) /\ Taken(m) = m + Count(token) + Count(prepared)
      /\ Count(token) \in {0, 1} /\ Count(prepared) \in {0, 1}
  BY Counts DEF Halfway, Taken
<1>4. Automaton
  BY DEF IInv
<1>5. ASSUME WellFormed(T), ~HasLongList(T)
      PROVE  KeepsPromise(T, k + 1)
  <2>1. PICK F, V : Promised(T, stack, path, values, m + 1, F, V)
    BY <1>5 DEF Promise
  <2>2. CASE token = Null
    <3>1. UNCHANGED <<stack, path, values>> /\ Count(token) = 0
      BY <1>1, <2>2, Counts DEF Handle
    <3>2. k = m
      BY <1>3, <3>1
    <3>3. QED
      BY <2>1, <3>1, <3>2 DEF KeepsPromise
  <2>3. CASE token # Null
    <3>1. Count(token) = 1 /\ token = T[m + 1]
      BY <2>3 DEF Halfway
    <3>2. k = m + 1 /\ m + 1 \in 1 .. Len(T)
      BY <1>2, <1>3, <3>1
    <3>3. HasRead(T, m + 1)
      BY <1>2, <3>1, <3>2 DEF HasRead
    <3>4. PICK i : i = m + 1
      OBVIOUS
    <3>5. HasRead(T, i) /\ Promised(T, stack, path, values, i, F, V)
      BY <2>1, <3>3, <3>4
    <3>6. KeepsPromise(T, i + 1)
      BY <1>1, <1>2, <1>4, <1>5, <2>3, <3>5, TurnKeeps
    <3>7. QED
      BY <3>2, <3>4, <3>6
  <2>4. QED
    BY <2>2, <2>3
<1>6. Promise(T, k)'
  <2>1. WellFormed(T) /\ ~HasLongList(T) =>
            \E F, V : Promised(T, stack', path', values', k + 1, F, V)
    BY <1>5 DEF KeepsPromise
  <2>2. QED
    BY <2>1 DEF Promise
<1>7. ASSUME status' = "parsed", ~HasLongList(T)
      PROVE  Meaning(T) \in Seq(Wordy) /\ values' = Keyed(Meaning(T))
  <2>1. WellFormed(T) /\ k = Len(T)
    BY <1>7, ParseHalfway
  <2>2. stack' = <<Element("top_level")>>
    BY <1>1, <1>7 DEF GoOn
  <2>3. PICK F, V : Promised(T, stack', path', values', k + 1, F, V)
    BY <1>5, <1>7, <2>1 DEF KeepsPromise
  <2>4. PICK p, vals : p = path' /\ vals = values'
    OBVIOUS
  <2>5. Promised(T, <<Element("top_level")>>, p, vals, Len(T) + 1, F, V)
    BY <2>1, <2>2, <2>3, <2>4
  <2>6. Meaning(T) \in Seq(Wordy) /\ vals = Keyed(Meaning(T))
    BY <1>2, <2>5, LastPromised
  <2>7. QED
    BY <2>4, <2>6
<1>8. status' = "parsed" => KeepsAll(T)'
  BY <1>7 DEF KeepsAll
<1>9. QED
  BY <1>6, <1>8

LEMMA StoryStep ==
    ASSUME IInv, Words, Story, [Next]_vars
    PROVE  Story'
<1>1. PICK t, T : t = text /\ T = Tokens(t)
  OBVIOUS
<1>2. OfText(t, T)
  BY <1>1 DEF OfText, IInv, Types
<1>3. ASSUME text' = t, status' \in {"scanning", "parsing"}, NEW m \in Nat,
             Halfway(t, T, m)', Promise(T, m)'
      PROVE  Story'
  <2>1. Tokens(text)' = T /\ text' = t
    BY <1>1, <1>3
  <2>2. \E k \in Nat : Halfway(t, T, k)' /\ Promise(T, k)'
    BY <1>3
  <2>3. (\E k \in Nat : Halfway(text, Tokens(text), k) /\ Promise(Tokens(text), k))'
    BY <2>1, <2>2 DEF Halfway, Promise
  <2>4. QED
    BY <1>3, <2>3 DEF Story, Accepted
<1>4. ASSUME text' = t, status' \in {"parsed", "error"},
             status' = "parsed" => KeepsAll(T)'
      PROVE  Story'
  <2>1. Tokens(text)' = T
    BY <1>1, <1>4
  <2>2. status' = "parsed" => KeepsAll(Tokens(text))'
    BY <1>4, <2>1 DEF KeepsAll
  <2>3. QED
    BY <1>4, <2>2 DEF Story, Accepted
<1>5. status \in {"scanning", "parsing"} =>
        \E m \in Nat : Halfway(t, T, m) /\ Promise(T, m)
  BY <1>1 DEF Story
<1>6. CASE Write \/ OpenFails
  <2>1. status' \in {"writing", "no file"} /\ status = "writing"
        /\ UNCHANGED <<prepared, token, fsm, stack, path, values>>
    BY <1>6 DEF Write, OpenFails, scanner, parser
  <2>2. Unopened'
    BY <2>1 DEF Story, Unopened
  <2>3. QED
    BY <2>1, <2>2 DEF Story, Accepted
<1>7. CASE Open
  <2>1. /\ status = "writing" /\ status' = "scanning" /\ text' = t
        /\ UNCHANGED <<stack, path, values>> /\ Unopened
    BY <1>1, <1>7 DEF Open, file, parser, Story
  <2>2. Halfway(t, T, 0)'
    BY <1>1, <1>2, <1>7, <2>1, OpenHalfway
  <2>3. Promise(T, 0)'
    <3>1. T \in Seq(TokenSet)
      BY <1>2, TokensTyped
    <3>2. stack' = <<Element("top_level")>> /\ path' = <<>> /\ values' = <<>>
      BY <2>1 DEF Unopened
    <3>3. WellFormed(T) =>
            \E F, V : Promised(T, <<Element("top_level")>>, <<>>, <<>>, 1, F, V)
      BY <3>1, FirstPromised
    <3>4. QED
      BY <3>2, <3>3 DEF Promise
  <2>4. QED
    BY <1>3, <2>1, <2>2, <2>3
<1>8. CASE (Fill \/ ScanChar) /\ UNCHANGED <<visited, config>>
  <2>1. /\ status = "scanning" /\ status' = "scanning" /\ text' = t
        /\ UNCHANGED <<stack, path, values>>
    BY <1>1, <1>8 DEF Fill, ScanChar, Reading, file, parser
  <2>2. PICK m \in Nat : Halfway(t, T, m) /\ Promise(T, m)
    BY <1>5, <2>1
  <2>3. Halfway(t, T, m)'
    BY <1>2, <1>8, <2>2, FillHalfway, ScanCharHalfway
  <2>4. Promise(T, m)'
    BY <2>1, <2>2, SamePromise
  <2>5. QED
    BY <1>3, <2>1, <2>3, <2>4
<1>9. CASE ScanEnd
  <2>1. status = "scanning" /\ text' = t /\ UNCHANGED <<stack, path, values>>
    BY <1>1, <1>9 DEF ScanEnd, file, parser
  <2>2. PICK m \in Nat : Halfway(t, T, m) /\ Promise(T, m)
    BY <1>5, <2>1
  <2>3. /\ status' = "parsing" => Halfway(t, T, m)'
        /\ status' \in {"parsing", "error"}
    BY <1>2, <1>9, <2>2, ScanEndHalfway
  <2>4. Promise(T, m)'
    BY <2>1, <2>2, SamePromise
  <2>5. QED
    BY <1>3, <1>4, <2>1, <2>3, <2>4
<1>10. CASE Parse /\ UNCHANGED <<visited, config>>
  <2>1. status = "parsing" /\ text' = t
    BY <1>1, <1>10 DEF Parse, file
  <2>2. PICK m \in Nat : Halfway(t, T, m) /\ Promise(T, m)
    BY <1>5, <2>1
  <2>3. PICK k : k = m + Count(token)
    OBVIOUS
  <2>4. k \in Nat
    BY <2>3, Counts
  <2>5. /\ status' = "scanning" => Halfway(t, T, k)'
        /\ status' \in {"scanning", "parsed", "error"}
    BY <1>2, <1>10, <2>2, <2>3, ParseHalfway
  <2>6. Promise(T, k)' /\ (status' = "parsed" => KeepsAll(T)')
    BY <1>2, <1>10, <2>2, <2>3, ParsePromise
  <2>7. QED
    BY <1>3, <1>4, <2>1, <2>4, <2>5, <2>6
<1>11. CASE Visit \/ Return
  <2>1. status = "parsed" /\ status' \in Accepted /\ UNCHANGED <<text, values>>
    BY <1>11 DEF Visit, Return, Accepted, file, parser
  <2>2. KeepsAll(Tokens(text))
    BY <2>1 DEF Story, Accepted
  <2>3. KeepsAll(Tokens(text))'
    BY <2>1, <2>2 DEF KeepsAll
  <2>4. QED
    BY <2>1, <2>3 DEF Story, Accepted
<1>12. CASE UNCHANGED vars
  <2>1. UNCHANGED <<text, status, at, buffer, offset, fsm, hex, prepared, token, stack, path,
                    values>>
    BY <1>12 DEF vars, lcfgVars, file, input, scanner, parser
  <2>2. Unopened' <=> Unopened
    BY <2>1 DEF Unopened
  <2>3. ASSUME NEW m \in Nat, Halfway(t, T, m), Promise(T, m)
        PROVE  Halfway(t, T, m)' /\ Promise(T, m)'
    <3>1. Position' = Position /\ Taken(m)' = Taken(m) /\ (Tops <=> Tops')
      BY <2>1 DEF Position, Taken, Tops
    <3>2. Halfway(t, T, m)'
      BY <2>1, <2>3, <3>1 DEF Halfway
    <3>3. Promise(T, m)'
      BY <2>1, <2>3, SamePromise
    <3>4. QED
      BY <3>2, <3>3
  <2>4. CASE status \in {"scanning", "parsing"}
    <3>1. PICK m \in Nat : Halfway(t, T, m) /\ Promise(T, m)
      BY <1>5, <2>4
    <3>2. Halfway(t, T, m)' /\ Promise(T, m)'
      BY <2>3, <3>1
    <3>3. QED
      BY <1>1, <1>3, <2>1, <2>4, <3>2
  <2>5. CASE status \notin {"scanning", "parsing"}
    <3>1. KeepsAll(Tokens(text))' <=> KeepsAll(Tokens(text))
      BY <2>1 DEF KeepsAll
    <3>2. QED
      BY <2>1, <2>2, <2>5, <3>1 DEF Story
  <2>6. QED
    BY <2>4, <2>5
<1>13. QED
  BY <1>6, <1>7, <1>8, <1>9, <1>10, <1>11, <1>12 DEF Next, LcfgNext, Read

LEMMA InitStory == Init => Story
BY DEF Init, LcfgInit, Story, Unopened, Accepted, Element

LEMMA StoryInvariant == Spec => [](IInv /\ Words /\ Story)
<1>1. Init => Words
  BY InitPath
<1>2. IInv /\ Words /\ [Next]_vars => Words'
  BY WordsStep
<1>3. QED
  BY <1>1, <1>2, Invariant, InitStory, StoryStep, PTL DEF Spec

(* Every value of an accepted file is kept, once, in order, under its path *)
(* (PATH_PUSH_STR, PATH_PUSH_INT, PATH_POP), as long as no list has more   *)
(* than ten items.                                                         *)
THEOREM KeepsTheValues == Spec => []ValuesAsWritten
<1>1. Story => ValuesAsWritten
  <2>1. ASSUME Story, status \in Accepted, NoLongList
        PROVE  values = [i \in DOMAIN Written |->
                            [key |-> Joined[Written[i].steps], value |-> Written[i].value]]
    <3>1. KeepsAll(Tokens(text)) /\ ~HasLongList(Tokens(text))
      BY <2>1 DEF Story, NoLongList
    <3>2. values = Keyed(Written)
      BY <3>1 DEF KeepsAll, Written
    <3>3. QED
      BY <3>2 DEF Keyed, KeyOf
  <2>2. QED
    BY <2>1 DEF ValuesAsWritten
<1>2. QED
  BY <1>1, StoryInvariant, PTL

-----------------------------------------------------------------------------
(* The first two steps of a path are the section and the name of a         *)
(* setting, and the dot between them is its first.                         *)
TwoSteps(p, s, w) ==
    /\ Len(p) >= Len(s) + 1 + Len(w)
    /\ \A i \in 1 .. Len(s) : p[i] = s[i]
    /\ p[Len(s) + 1] = "."
    /\ \A i \in 1 .. Len(w) : p[Len(s) + 1 + i] = w[i]
    /\ Len(p) > Len(s) + 1 + Len(w) => p[Len(s) + 1 + Len(w) + 1] = "."

LEMMA JoinedLast ==
    ASSUME NEW steps \in WordSteps, NEW n \in Nat, n = Len(steps), n >= 2,
           NEW q, q = Front(steps), NEW w, w = Last(steps)
    PROVE  /\ q \in WordSteps /\ Len(q) = n - 1 /\ \A i \in 1 .. n - 1 : q[i] = steps[i]
           /\ w = steps[n] /\ NameWord(w) /\ w \in Seq(Chars)
           /\ Joined[q] \in Seq(Chars) \ {<<>>} /\ Joined[steps] = PushName(Joined[q], w)
<1>1. steps \in Steps /\ \A i \in 1 .. Len(steps) : NameWord(steps[i])
  BY DEF WordSteps
<1>2. steps # <<>> /\ Len(steps) # 1 /\ n \in 1 .. n
  OBVIOUS
<1>3. /\ q \in Steps /\ w \in Seq(STRING) /\ Len(q) = n - 1 /\ w = steps[n]
      /\ \A i \in 1 .. n - 1 : q[i] = steps[i]
  BY <1>1, <1>2, FrontShorter DEF Shorter, Below
<1>4. \A i \in 1 .. n - 1 : i \in 1 .. n
  OBVIOUS
<1>5. q \in WordSteps
  BY <1>1, <1>3, <1>4 DEF WordSteps
<1>6. NameWord(w) /\ w \in Seq(Chars)
  BY <1>1, <1>2, <1>3 DEF NameWord
<1>7. q # <<>>
  BY <1>3
<1>8. Joined[q] \in Seq(Chars) \ {<<>>}
  BY <1>5, <1>7, JoinedFull
<1>9. Joined[steps] = JoinedOf(Joined, steps)
  BY <1>1, JoinedIs
<1>10. Joined[steps] = Joined[q] \o <<".">> \o w
  BY <1>2, <1>9, MoreSteps
<1>11. PICK p \in Seq(Chars) : p = Joined[q] /\ p # <<>>
  BY <1>8
<1>12. PICK dot \in Chars : dot = "."
  BY DEF Chars
<1>13. Append(p, dot) = p \o <<dot>>
  BY AppendIsConcat
<1>14. PushName(p, w) = p \o <<".">> \o w
  BY <1>11, <1>12, <1>13 DEF PushName, Dotted
<1>15. QED
  BY <1>3, <1>5, <1>6, <1>8, <1>10, <1>11, <1>14

LEMMA PushedTwo ==
    ASSUME NEW p \in Seq(Chars) \ {<<>>}, NEW x \in Seq(Chars), NEW s \in Seq(Chars),
           NEW w \in Seq(Chars), TwoSteps(p, s, w)
    PROVE  TwoSteps(PushName(p, x), s, w)
<1>1. PICK r : r = PushName(p, x)
  OBVIOUS
<1>2. PICK a, b, k \in Nat : a = Len(s) /\ b = Len(w) /\ k = Len(p)
  OBVIOUS
<1>3. /\ r \in Seq(Chars) /\ Len(r) = k + 1 + Len(x) /\ Len(x) \in Nat
      /\ \A i \in 1 .. k : r[i] = p[i]
      /\ r[k + 1] = "."
  <2>1. PICK o \in Seq(Chars) : o = p /\ o # <<>>
    OBVIOUS
  <2>2. /\ r \in Seq(Chars) /\ Len(r) = Len(o) + 1 + Len(x)
        /\ \A i \in 1 .. Len(o) : r[i] = o[i]
        /\ r[Len(o) + 1] = "."
    BY <1>1, <2>1, Pushed, ZenonT(30)
  <2>3. Len(x) \in Nat
    OBVIOUS
  <2>4. QED
    BY <1>2, <2>1, <2>2, <2>3
<1>4. /\ k >= a + 1 + b /\ \A i \in 1 .. a : p[i] = s[i]
      /\ p[a + 1] = "." /\ \A i \in 1 .. b : p[a + 1 + i] = w[i]
      /\ k > a + 1 + b => p[a + 1 + b + 1] = "."
  BY <1>2 DEF TwoSteps
<1>5. /\ \A i \in 1 .. a : i \in 1 .. k
      /\ a + 1 \in 1 .. k
      /\ \A i \in 1 .. b : a + 1 + i \in 1 .. k
      /\ k > a + 1 + b => a + 1 + b + 1 \in 1 .. k
      /\ ~(k > a + 1 + b) => a + 1 + b = k
  BY <1>4
<1>6. r[a + 1 + b + 1] = "."
  BY <1>3, <1>4, <1>5
<1>7. /\ Len(r) >= a + 1 + b /\ \A i \in 1 .. a : r[i] = s[i]
      /\ r[a + 1] = "." /\ \A i \in 1 .. b : r[a + 1 + i] = w[i]
  BY <1>3, <1>4, <1>5
<1>8. TwoSteps(r, s, w)
  BY <1>2, <1>6, <1>7 DEF TwoSteps
<1>9. QED
  BY <1>1, <1>8

LEMMA FirstTwo ==
    ASSUME NEW s \in Seq(Chars) \ {<<>>}, NEW w \in Seq(Chars)
    PROVE  TwoSteps(PushName(s, w), s, w)
<1>1. PICK r : r = PushName(s, w)
  OBVIOUS
<1>2. PICK a, b \in Nat : a = Len(s) /\ b = Len(w)
  OBVIOUS
<1>3. /\ Len(r) = a + 1 + b /\ \A i \in 1 .. a : r[i] = s[i]
      /\ r[a + 1] = "." /\ \A i \in 1 .. b : r[a + 1 + i] = w[i]
  BY <1>1, <1>2, Pushed, ZenonT(30)
<1>4. TwoSteps(r, s, w)
  BY <1>2, <1>3 DEF TwoSteps
<1>5. QED
  BY <1>1, <1>4

LEMMA JoinedTwo ==
    \A steps \in WordSteps : Len(steps) >= 2 => TwoSteps(Joined[steps], steps[1], steps[2])
<1>1. PICK D, S, m : /\ D = WordSteps /\ m = [steps \in WordSteps |-> Len(steps)]
                     /\ S = {steps \in WordSteps :
                              Len(steps) >= 2 =>
                                TwoSteps(Joined[steps], steps[1], steps[2])}
  OBVIOUS
<1>2. m \in [D -> Nat]
  BY <1>1 DEF WordSteps, Steps
<1>3. ASSUME NEW steps \in WordSteps, NEW n \in Nat, n = Len(steps), n >= 2,
             Below(D, m, m[steps]) \subseteq S
      PROVE  TwoSteps(Joined[steps], steps[1], steps[2])
  <2>1. PICK q, w : q = Front(steps) /\ w = Last(steps)
    OBVIOUS
  <2>2. /\ q \in WordSteps /\ Len(q) = n - 1 /\ \A i \in 1 .. n - 1 : q[i] = steps[i]
        /\ w = steps[n] /\ NameWord(w) /\ w \in Seq(Chars)
        /\ Joined[q] \in Seq(Chars) \ {<<>>} /\ Joined[steps] = PushName(Joined[q], w)
    BY <1>3, <2>1, JoinedLast
  <2>3. \A i \in 1 .. n : steps[i] \in Seq(Chars) \ {<<>>}
    BY <1>3 DEF WordSteps, NameWord
  <2>4. q[1] = steps[1]
    BY <1>3, <2>2
  <2>5. CASE n = 2
    <3>1. q \in Steps /\ q # <<>> /\ Len(q) = 1
      <4>1. Len(q) = 1 /\ q \in Steps
        BY <2>2, <2>5 DEF WordSteps
      <4>2. q # <<>>
        BY <4>1
      <4>3. QED
        BY <4>1, <4>2
    <3>2. Joined[q] = q[1]
      BY <3>1, JoinedIs, OneStep
    <3>3. PICK s \in Seq(Chars) \ {<<>>} : s = steps[1]
      BY <1>3, <2>3
    <3>4. TwoSteps(PushName(s, w), s, w)
      BY <2>2, FirstTwo
    <3>5. QED
      BY <2>2, <2>4, <2>5, <3>2, <3>3, <3>4
  <2>6. CASE n # 2
    <3>1. q \in D /\ m[q] = n - 1 /\ m[steps] = n /\ n - 1 < n
      BY <1>1, <1>3, <2>2
    <3>2. q \in S
      BY <1>3, <3>1 DEF Below
    <3>3. n - 1 >= 2 /\ q[2] = steps[2]
      BY <1>3, <2>2, <2>6
    <3>4. PICK s, v \in Seq(Chars) : s = steps[1] /\ v = steps[2]
      BY <1>3, <2>3
    <3>5. TwoSteps(Joined[q], s, v)
      BY <1>1, <2>2, <2>4, <3>2, <3>3, <3>4
    <3>6. TwoSteps(PushName(Joined[q], w), s, v)
      BY <2>2, <3>5, PushedTwo
    <3>7. QED
      BY <2>2, <3>4, <3>6
  <2>7. QED
    BY <2>5, <2>6
<1>4. Inductive(D, m, S)
  <2>1. ASSUME NEW steps \in D, Below(D, m, m[steps]) \subseteq S PROVE steps \in S
    <3>1. steps \in WordSteps /\ Len(steps) \in Nat
      BY <1>1, <2>1 DEF WordSteps, Steps
    <3>2. Len(steps) >= 2 => TwoSteps(Joined[steps], steps[1], steps[2])
      BY <1>3, <2>1, <3>1
    <3>3. QED
      BY <1>1, <3>1, <3>2
  <2>2. QED
    BY <2>1 DEF Inductive
<1>5. \A x \in D : x \in S
  BY <1>2, <1>4, MeasureInduction
<1>6. QED
  BY <1>1, <1>5

-----------------------------------------------------------------------------
(* The visitor crashed at a key without a dot.                             *)
Crash == status = "crashed" => \E i \in 1 .. Len(values) : ~HasDot(values[i].key)

LEMMA NoDotFound ==
    ASSUME NEW p, SelectInSeq(p, LAMBDA c : c = ".") = 0
    PROVE  ~HasDot(p)
<1> DEFINE I == {i \in 1 .. Len(p) : p[i] = "."}
<1>1. SUFFICES ASSUME HasDot(p) PROVE FALSE
  OBVIOUS
<1>2. I # {} /\ I \subseteq Nat /\ 0 \notin I
  BY <1>1 DEF HasDot
<1>3. Min(I) # 0
  BY <1>2, MinExists
<1>4. SelectInSeq(p, LAMBDA c : c = ".") # 0
  BY <1>2, <1>3 DEF SelectInSeq
<1>5. QED
  BY <1>4

LEMMA CrashStep ==
    ASSUME IInv, Crash, [Next]_vars
    PROVE  Crash'
<1>1. CASE Visit
  <2>1. visited + 1 \in 1 .. Len(values) /\ UNCHANGED values /\ status = "parsed"
    BY <1>1, Lengths DEF Visit, IInv, Visited, parser
  <2>2. PICK p : p = values[visited + 1].key
    OBVIOUS
  <2>3. CASE SelectInSeq(p, LAMBDA c : c = ".") = 0
    <3>1. ~HasDot(values[visited + 1].key)
      BY <2>2, <2>3, NoDotFound
    <3>2. QED
      BY <2>1, <3>1 DEF Crash
  <2>4. CASE SelectInSeq(p, LAMBDA c : c = ".") # 0
    <3>1. status' = status
      BY <1>1, <2>2, <2>4 DEF Visit
    <3>2. QED
      BY <2>1, <3>1 DEF Crash
  <2>5. QED
    BY <2>3, <2>4
<1>2. CASE ~Visit
  <2>1. /\ status' = "crashed" => status = "crashed"
        /\ status = "crashed" => UNCHANGED values
    BY <1>2 DEF Next, LcfgNext, Read, Write, Open, OpenFails, Fill, ScanChar, ScanEnd,
       Parse, GoOn, Reading, Return, vars, lcfgVars, parser
  <2>2. QED
    BY <2>1 DEF Crash
<1>3. QED
  BY <1>1, <1>2

LEMMA UndottedAlone ==
    ASSUME NEW steps \in WordSteps \ {<<>>}, ~HasDot(Joined[steps])
    PROVE  Len(steps) = 1
<1>1. PICK o \in WordSteps : o = steps /\ o # <<>>
  OBVIOUS
<1>2. Len(o) \in Nat /\ o \in Steps
  BY DEF WordSteps, Steps
<1>3. Len(o) # 0
  BY <1>1, <1>2 DEF Steps
<1>4. ASSUME Len(o) >= 2 PROVE FALSE
  <2>1. TwoSteps(Joined[o], o[1], o[2])
    BY <1>4, JoinedTwo
  <2>2. /\ o[1] \in Seq(Chars) /\ o[2] \in Seq(Chars)
    <3>1. 1 \in 1 .. Len(o) /\ 2 \in 1 .. Len(o)
      BY <1>2, <1>4
    <3>2. QED
      BY <3>1 DEF WordSteps, NameWord
  <2>3. PICK p, s, w : p = Joined[o] /\ s = o[1] /\ w = o[2]
    OBVIOUS
  <2>4. Len(s) \in Nat /\ Len(w) \in Nat /\ p \in Seq(Chars)
    BY <1>2, <2>2, <2>3, JoinedIs
  <2>5. p[Len(s) + 1] = "." /\ Len(p) >= Len(s) + 1 + Len(w)
    BY <2>1, <2>3 DEF TwoSteps
  <2>6. Len(s) + 1 \in 1 .. Len(p)
    BY <2>4, <2>5
  <2>7. HasDot(p)
    BY <2>5, <2>6 DEF HasDot
  <2>8. QED
    BY <1>1, <2>3, <2>7
<1>5. PICK n \in Nat : n = Len(o)
  BY <1>2
<1>6. n # 0 /\ ~(n >= 2)
  BY <1>3, <1>4, <1>5
<1>7. n = 1
  BY <1>6
<1>8. QED
  BY <1>1, <1>5, <1>7

(* The visitor writes through a null pointer (rh-config.c:44) only for a   *)
(* setting outside of every section, or after a list of more than ten.     *)
THEOREM CrashesAsTold == Spec => []CrashesForAReason
<1>1. Story /\ Crash => CrashesForAReason
  <2>1. ASSUME Story, Crash, status = "crashed", NoLongList
        PROVE  \E i \in DOMAIN Written : Len(Written[i].steps) = 1
    <3>1. PICK i \in 1 .. Len(values) : ~HasDot(values[i].key)
      BY <2>1 DEF Crash
    <3>2. PICK V : V = Written
      OBVIOUS
    <3>3. V \in Seq(Wordy) /\ values = Keyed(V)
      BY <2>1, <3>2 DEF Story, Accepted, KeepsAll, NoLongList, Written
    <3>4. DOMAIN V = 1 .. Len(V) /\ Len(values) = Len(V)
      <4>1. DOMAIN V = 1 .. Len(V) /\ Len(V) \in Nat
        BY <3>3
      <4>2. Len(Keyed(V)) = Len(V)
        BY <4>1 DEF Keyed
      <4>3. QED
        BY <3>3, <4>1, <4>2
    <3>5. i \in 1 .. Len(V) /\ V[i] \in Wordy
      BY <3>3, <3>4, ElementOfSeq, Zenon
    <3>6. values[i].key = Joined[V[i].steps]
      BY <3>3, <3>4, <3>5 DEF Keyed, KeyOf
    <3>7. V[i].steps \in WordSteps \ {<<>>}
      BY <3>5 DEF Wordy
    <3>8. Len(V[i].steps) = 1
      BY <3>1, <3>6, <3>7, UndottedAlone
    <3>9. QED
      BY <3>2, <3>4, <3>5, <3>8
  <2>2. QED
    BY <2>1 DEF CrashesForAReason
<1>2. Init => Crash
  BY DEF Init, LcfgInit, Crash
<1>3. QED
  BY <1>1, <1>2, CrashStep, StoryInvariant, PTL DEF Spec

-----------------------------------------------------------------------------
(* In each table a name begins with no earlier one, but the two that vlan  *)
(* shadows.                                                                *)
Shadowed == {<<"vlan", "_raw_dev_external">>, <<"vlan", "_raw_dev_internal">>}
SettingName(n) ==
    /\ Len(n) = 1 \/ Len(n) = 2
    /\ n[1] # "."
    /\ Len(n) = 1 => n = <<n[1]>>
    /\ Len(n) = 2 => n = <<n[1], n[2]>> /\ n[2] # "."
Differ(m, n) ==
    \/ m[1] # n[1]
    \/ Len(m) = 2 /\ Len(n) = 1
    \/ Len(m) = 2 /\ Len(n) = 2 /\ m[2] # n[2]
SettingNames(s) == \A i \in 1 .. Len(s) : SettingName(s[i].name)
Apart(s) ==
    \A i, k \in 1 .. Len(s) :
        i < k => s[k].name \in Shadowed \/ Differ(s[i].name, s[k].name)
Table(s) ==
    /\ Len(s) \in Nat /\ DOMAIN s = 1 .. Len(s)
    /\ SettingNames(s) /\ Apart(s)

LEMMA MainTable == Table(MainSettings)
<1> DEFINE I == {1, 2, 3, 4, 5, 6, 7, 8, 9, 10}
<1>1. /\ Len(MainSettings) = 10 /\ DOMAIN MainSettings = 1 .. 10
      /\ \A i \in 1 .. 10 : i \in I
  BY DEF MainSettings
<1>2. \A i \in I : SettingName(MainSettings[i].name)
  BY DEF MainSettings, Setting, SettingName
<1>3. \A i, k \in I :
        i < k => MainSettings[k].name \in Shadowed
                 \/ Differ(MainSettings[i].name, MainSettings[k].name)
  BY DEF MainSettings, Setting, Differ, Shadowed
<1> HIDE DEF I
<1>4. QED
  BY <1>1, <1>2, <1>3 DEF Table, SettingNames, Apart

LEMMA ServiceClassTable == Table(ServiceClassSettings)
<1> DEFINE I == {1, 2, 3, 4, 5, 6}
<1>1. /\ Len(ServiceClassSettings) = 6 /\ DOMAIN ServiceClassSettings = 1 .. 6
      /\ \A i \in 1 .. 6 : i \in I
  BY DEF ServiceClassSettings
<1>2. \A i \in I : SettingName(ServiceClassSettings[i].name)
  BY DEF ServiceClassSettings, Setting, SettingName
<1>3. \A i, k \in I :
        i < k => ServiceClassSettings[k].name \in Shadowed
                 \/ Differ(ServiceClassSettings[i].name, ServiceClassSettings[k].name)
  BY DEF ServiceClassSettings, Setting, Differ, Shadowed
<1> HIDE DEF I
<1>4. QED
  BY <1>1, <1>2, <1>3 DEF Table, SettingNames, Apart

LEMMA VServerTable == Table(VServerSettings)
<1> DEFINE I == {1, 2, 3, 4, 5, 6, 7, 8, 9, 10, 11, 12, 13, 14, 15, 16, 17, 18, 19, 20,
                 21, 22, 23, 24, 25, 26, 27, 28, 29, 30, 31, 32, 33, 34}
<1>1. /\ Len(VServerSettings) = 34 /\ DOMAIN VServerSettings = 1 .. 34
      /\ \A i \in 1 .. 34 : i \in I
  BY DEF VServerSettings
<1>2. \A i \in I : SettingName(VServerSettings[i].name)
  BY DEF VServerSettings, Setting, Text, SettingName
<1>3. \A i, k \in I :
        i < k => VServerSettings[k].name \in Shadowed
                 \/ Differ(VServerSettings[i].name, VServerSettings[k].name)
  BY DEF VServerSettings, Setting, Text, Differ, Shadowed
<1> HIDE DEF I
<1>4. PICK s : s = VServerSettings
  OBVIOUS
<1>5. Len(s) = 34 /\ DOMAIN s = 1 .. 34
  BY <1>1, <1>4, Zenon
<1>6. SettingNames(s)
  BY <1>1, <1>2, <1>4, <1>5, Zenon DEF SettingNames
<1>7. Apart(s)
  <2>1. ASSUME NEW i \in 1 .. 34, NEW k \in 1 .. 34, i < k
        PROVE  s[k].name \in Shadowed \/ Differ(s[i].name, s[k].name)
    BY <1>1, <1>3, <1>4, <2>1, Zenon
  <2>2. QED
    BY <1>5, <2>1, Zenon DEF Apart
<1>8. Len(s) \in Nat /\ DOMAIN s = 1 .. Len(s)
  BY <1>5
<1>9. QED
  BY <1>4, <1>6, <1>7, <1>8, Zenon DEF Table

LEMMA TablesOfSettings == \A type : Table(SettingsIn(type))
<1>1. TAKE type
<1>2. CASE type = "MAIN"
  <2>1. SettingsIn(type) = MainSettings
    BY <1>2, Zenon DEF SettingsIn
  <2>2. QED
    BY <2>1, MainTable
<1>3. CASE type = "SERVICECLASS"
  <2>1. type # "MAIN"
    BY <1>3
  <2>2. SettingsIn(type) = ServiceClassSettings
    BY <1>3, <2>1, Zenon DEF SettingsIn
  <2>3. QED
    BY <2>2, ServiceClassTable
<1>4. CASE type # "MAIN" /\ type # "SERVICECLASS"
  <2>1. SettingsIn(type) = VServerSettings
    BY <1>4, Zenon DEF SettingsIn
  <2>2. QED
    BY <2>1, VServerTable
<1>5. QED
  BY <1>2, <1>3, <1>4

(* A name of a setting begins what is left of a key if and only if it      *)
(* begins the key's second step.                                           *)
Continues(p, w) ==
    /\ Len(p) >= Len(w)
    /\ \A i \in 1 .. Len(w) : p[i] = w[i]
    /\ Len(p) > Len(w) => p[Len(w) + 1] = "."

LEMMA PrefixIs ==
    ASSUME NEW S, NEW s \in Seq(S), NEW t \in Seq(S)
    PROVE  IsPrefix(s, t) <=> /\ Len(s) <= Len(t)
                              /\ \A i \in 1 .. Len(s) : s[i] = t[i]
<1>1. PICK n \in Nat : n = Len(s)
  OBVIOUS
<1>2. PICK k \in Nat : k = Len(t)
  OBVIOUS
<1>3. SubSeq(s, 1, n) \in Seq(S) /\ Len(SubSeq(s, 1, n)) = n
      /\ \A i \in 1 .. n : SubSeq(s, 1, n)[i] = s[i]
  BY <1>1
<1>4. ASSUME n <= k
      PROVE  SubSeq(t, 1, n) \in Seq(S) /\ Len(SubSeq(t, 1, n)) = n
             /\ \A i \in 1 .. n : SubSeq(t, 1, n)[i] = t[i]
  BY <1>2, <1>4
<1>5. ASSUME n <= k
      PROVE  SubSeq(s, 1, n) = SubSeq(t, 1, n) <=> \A i \in 1 .. n : s[i] = t[i]
  <2>1. PICK a, b : a = SubSeq(s, 1, n) /\ b = SubSeq(t, 1, n)
    OBVIOUS
  <2>2. /\ a \in Seq(S) /\ Len(a) = n /\ \A i \in 1 .. n : a[i] = s[i]
        /\ b \in Seq(S) /\ Len(b) = n /\ \A i \in 1 .. n : b[i] = t[i]
    BY <1>3, <1>4, <1>5, <2>1
  <2>3. (\A i \in 1 .. n : a[i] = b[i]) => a = b
    BY <2>2, SeqEqual
  <2>4. QED
    BY <2>1, <2>2, <2>3
<1>6. QED
  BY <1>1, <1>2, <1>5 DEF IsPrefix

LEMMA NameTyped ==
    ASSUME NEW n, SettingName(n), NEW S, Chars \cup {n[1], n[2]} \subseteq S
    PROVE  /\ n \in Seq(S) /\ Len(n) \in Nat \ {0}
           /\ \A i \in 1 .. Len(n) : n[i] # "."
<1>1. CASE Len(n) = 1
  <2>1. n = <<n[1]>> /\ n[1] \in S /\ n[1] # "."
    BY <1>1 DEF SettingName
  <2>2. n \in Seq(S)
    <3>1. PICK a \in S : a = n[1]
      BY <2>1
    <3>2. <<a>> \in Seq(S) /\ n = <<a>>
      BY <2>1, <3>1
    <3>3. QED
      BY <3>2
  <2>3. QED
    BY <1>1, <2>1, <2>2
<1>2. CASE Len(n) = 2
  <2>1. n = <<n[1], n[2]>> /\ n[1] \in S /\ n[2] \in S /\ n[1] # "." /\ n[2] # "."
    BY <1>2 DEF SettingName
  <2>2. n \in Seq(S)
    <3>1. PICK a \in S, b \in S : a = n[1] /\ b = n[2]
      BY <2>1
    <3>2. <<a, b>> \in Seq(S) /\ n = <<a, b>>
      BY <2>1, <3>1
    <3>3. QED
      BY <3>2
  <2>3. \A i \in 1 .. 2 : i = 1 \/ i = 2
    OBVIOUS
  <2>4. QED
    BY <1>2, <2>1, <2>2, <2>3
<1>3. QED
  BY <1>1, <1>2 DEF SettingName

LEMMA NameBegins ==
    ASSUME NEW n, SettingName(n), NEW w, NameWord(w), NEW p \in Seq(Chars), Continues(p, w)
    PROVE  IsPrefix(n, p) <=> IsPrefix(n, w)
<1>1. PICK S : S = Chars \cup {n[1], n[2]}
  OBVIOUS
<1>2. n \in Seq(S) /\ Len(n) \in Nat \ {0} /\ \A i \in 1 .. Len(n) : n[i] # "."
  BY <1>1, NameTyped
<1>3. w \in Seq(Chars) /\ Chars \subseteq S
  BY <1>1 DEF NameWord
<1>4. w \in Seq(S) /\ p \in Seq(S)
  BY <1>3
<1>5. IsPrefix(n, p) <=> Len(n) <= Len(p) /\ \A i \in 1 .. Len(n) : n[i] = p[i]
  BY <1>2, <1>4, PrefixIs
<1>6. IsPrefix(n, w) <=> Len(n) <= Len(w) /\ \A i \in 1 .. Len(n) : n[i] = w[i]
  BY <1>2, <1>4, PrefixIs
<1>7. PICK a, b, c \in Nat : a = Len(n) /\ b = Len(w) /\ c = Len(p)
  BY <1>2, <1>4
<1>8. c >= b /\ (\A i \in 1 .. b : p[i] = w[i]) /\ (c > b => p[b + 1] = ".")
  BY <1>7 DEF Continues
<1>9. ASSUME a <= c, \A i \in 1 .. a : n[i] = p[i]
      PROVE  a <= b
  <2>1. SUFFICES ASSUME a > b PROVE FALSE
    BY <1>7
  <2>2. b + 1 \in 1 .. a /\ c > b
    BY <1>7, <1>9, <2>1
  <2>3. n[b + 1] = "."
    BY <1>8, <1>9, <2>2
  <2>4. QED
    BY <1>2, <1>7, <2>2, <2>3
<1>10. a <= b => \A i \in 1 .. a : i \in 1 .. b
  BY <1>7
<1>11. a <= b => a <= c
  BY <1>7, <1>8
<1>12. QED
  BY <1>5, <1>6, <1>7, <1>8, <1>9, <1>10, <1>11

LEMMA DifferentNames ==
    ASSUME NEW m, NEW n, SettingName(m), SettingName(n)
    PROVE  /\ Differ(m, n) => ~IsPrefix(m, n)
           /\ IsPrefix(n, n)
<1>1. PICK S : S = Chars \cup {m[1], m[2]} \cup {n[1], n[2]}
  OBVIOUS
<1>2. m \in Seq(S) /\ n \in Seq(S)
  BY <1>1, NameTyped
<1>3. IsPrefix(m, n) <=> Len(m) <= Len(n) /\ \A i \in 1 .. Len(m) : m[i] = n[i]
  BY <1>2, PrefixIs
<1>4. IsPrefix(n, n) <=> Len(n) <= Len(n) /\ \A i \in 1 .. Len(n) : n[i] = n[i]
  BY <1>2, PrefixIs
<1>5. Len(m) \in {1, 2} /\ Len(n) \in {1, 2}
  BY DEF SettingName
<1>6. 1 \in 1 .. Len(m) /\ (Len(m) = 2 => 2 \in 1 .. Len(m))
  BY <1>5
<1>7. QED
  BY <1>3, <1>4, <1>5, <1>6 DEF Differ

-----------------------------------------------------------------------------
(* What rahunas_visitor finds: the setting of that name, or none if no     *)
(* name begins it.                                                         *)
Begun(s, p) == {i \in 1 .. Len(s) : IsPrefix(s[i].name, p)}
FirstBegun(s, p) == SelectInSeq(s, LAMBDA x : IsPrefix(x.name, p))

LEMMA FirstBegunIs ==
    ASSUME NEW s, NEW p
    PROVE  /\ Begun(s, p) = {} => FirstBegun(s, p) = 0
           /\ Begun(s, p) # {} => FirstBegun(s, p) = Min(Begun(s, p))
BY DEF FirstBegun, Begun, SelectInSeq

LEMMA SameBegun ==
    ASSUME NEW s, Table(s), NEW w, NameWord(w), NEW p \in Seq(Chars), Continues(p, w)
    PROVE  Begun(s, p) = Begun(s, w)
<1>1. ASSUME NEW i \in 1 .. Len(s)
      PROVE  IsPrefix(s[i].name, p) <=> IsPrefix(s[i].name, w)
  <2>1. SettingName(s[i].name)
    BY DEF Table, SettingNames
  <2>2. QED
    BY <2>1, NameBegins
<1>2. QED
  BY <1>1 DEF Begun

LEMMA FindsNamed ==
    ASSUME NEW s, Table(s), NEW w, w \notin Shadowed, NEW k \in 1 .. Len(s), s[k].name = w
    PROVE  /\ FirstBegun(s, w) = k /\ k # 0
           /\ \A i \in 1 .. Len(s) : s[i].name = w => i = k
<1>1. PICK n \in Nat : n = Len(s)
  BY DEF Table
<1>2. \A i \in 1 .. n : SettingName(s[i].name)
  BY <1>1 DEF Table, SettingNames
<1>3. SettingName(w) /\ IsPrefix(w, w)
  BY <1>1, <1>2, DifferentNames
<1>4. k \in Begun(s, w)
  BY <1>1, <1>3 DEF Begun
<1>5. ASSUME NEW i \in 1 .. n, i < k
      PROVE  ~IsPrefix(s[i].name, w)
  <2>1. Differ(s[i].name, w)
    BY <1>1, <1>5 DEF Table, Apart
  <2>2. QED
    BY <1>2, <1>3, <2>1, DifferentNames
<1>6. Begun(s, w) \subseteq Nat
  BY <1>1 DEF Begun
<1>7. Min(Begun(s, w)) \in Begun(s, w) /\ Min(Begun(s, w)) <= k
  BY <1>4, <1>6, MinExists
<1>8. PICK m : m = Min(Begun(s, w))
  OBVIOUS
<1>9. m \in 1 .. n /\ IsPrefix(s[m].name, w) /\ m <= k
  BY <1>1, <1>7, <1>8 DEF Begun
<1>10. m = k
  <2>1. ~(m < k)
    BY <1>5, <1>9
  <2>2. QED
    BY <1>9, <2>1
<1>11. FirstBegun(s, w) = k
  BY <1>4, <1>8, <1>10, FirstBegunIs
<1>12. ASSUME NEW i \in 1 .. n, s[i].name = w, i # k
       PROVE  FALSE
  <2>1. i > k
    BY <1>3, <1>5, <1>12
  <2>2. Differ(s[k].name, s[i].name)
    BY <1>1, <1>12, <2>1 DEF Table, Apart
  <2>3. QED
    BY <1>3, <1>12, <2>2, DifferentNames
<1>13. QED
  BY <1>1, <1>11, <1>12

LEMMA SameFirst ==
    ASSUME NEW s, NEW p, NEW w, Begun(s, p) = Begun(s, w)
    PROVE  FirstBegun(s, p) = FirstBegun(s, w)
BY FirstBegunIs

(* The section and the name of a key.                                      *)
LEMMA KeyDot ==
    ASSUME NEW p \in Seq(Chars), NEW s, NameWord(s), NEW w, NameWord(w), TwoSteps(p, s, w)
    PROVE  SelectInSeq(p, LAMBDA c : c = ".") = Len(s) + 1
<1>1. PICK a, b, n \in Nat : a = Len(s) /\ b = Len(w) /\ n = Len(p)
  BY DEF NameWord
<1>2. n >= a + 1 + b /\ (\A i \in 1 .. a : p[i] = s[i]) /\ p[a + 1] = "."
  BY <1>1 DEF TwoSteps
<1> DEFINE I == {i \in 1 .. n : p[i] = "."}
<1>3. a + 1 \in I
  BY <1>2
<1>4. \A i \in 1 .. a : i \notin I
  BY <1>1, <1>2 DEF NameWord
<1>5. I \subseteq Nat /\ I # {}
  BY <1>3
<1>6. Min(I) \in I /\ Min(I) <= a + 1
  BY <1>3, <1>5, MinExists
<1>7. Min(I) = a + 1
  BY <1>4, <1>6
<1>8. SelectInSeq(p, LAMBDA c : c = ".") = Min(I)
  BY <1>1, <1>5 DEF SelectInSeq
<1>9. QED
  BY <1>1, <1>7, <1>8

LEMMA KeyParts ==
    ASSUME NEW p \in Seq(Chars), NEW s, NameWord(s), NEW w, NameWord(w), TwoSteps(p, s, w),
           NEW dot, dot = Len(s) + 1
    PROVE  /\ SubSeq(p, 1, dot - 1) = s
           /\ SubSeq(p, dot + 1, Len(p)) \in Seq(Chars)
           /\ Continues(SubSeq(p, dot + 1, Len(p)), w)
<1>1. PICK a, b, n \in Nat : a = Len(s) /\ b = Len(w) /\ n = Len(p)
  BY DEF NameWord
<1>2. /\ n >= a + 1 + b /\ \A i \in 1 .. a : p[i] = s[i]
      /\ \A i \in 1 .. b : p[a + 1 + i] = w[i]
      /\ n > a + 1 + b => p[a + 1 + b + 1] = "."
  BY <1>1 DEF TwoSteps
<1>3. dot - 1 = a /\ dot + 1 = a + 2
  BY <1>1
<1>4. PICK q, r : q = SubSeq(p, 1, a) /\ r = SubSeq(p, a + 2, n)
  OBVIOUS
<1>5. q \in Seq(Chars) /\ Len(q) = a /\ \A i \in 1 .. a : q[i] = p[i]
  <2>1. a <= n /\ \A i \in 1 .. a : i \in 1 .. n
    BY <1>1, <1>2
  <2>2. QED
    BY <1>1, <1>4, <2>1
<1>6. q = s
  <2>1. s \in Seq(Chars)
    BY DEF NameWord
  <2>2. \A i \in 1 .. a : q[i] = s[i]
    BY <1>2, <1>5
  <2>3. QED
    BY <1>1, <1>5, <2>1, <2>2, SeqEqual
<1>7. /\ r \in Seq(Chars) /\ Len(r) = n - (a + 1)
      /\ \A i \in 1 .. n - (a + 1) : r[i] = p[a + 1 + i]
  <2>1. a + 2 \in Nat /\ a + 2 <= n + 1 /\ a + 2 \in 1 .. n + 1
    BY <1>2
  <2>2. \A i \in a + 2 .. n : i \in 1 .. n
    BY <2>1
  <2>3. /\ r \in Seq(Chars) /\ Len(r) = n - (a + 2) + 1
        /\ \A i \in 1 .. n - (a + 2) + 1 : r[i] = p[a + 2 + i - 1]
    BY <1>1, <1>4, <2>1, <2>2
  <2>4. n - (a + 2) + 1 = n - (a + 1) /\ \A i \in Nat : a + 2 + i - 1 = a + 1 + i
    OBVIOUS
  <2>5. QED
    BY <2>3, <2>4
<1>8. Continues(r, w)
  <2>1. n - (a + 1) >= b /\ \A i \in 1 .. b : i \in 1 .. n - (a + 1)
    BY <1>2
  <2>2. \A i \in 1 .. b : r[i] = w[i]
    BY <1>2, <1>7, <2>1
  <2>3. ASSUME n - (a + 1) > b PROVE r[b + 1] = "."
    <3>1. b + 1 \in 1 .. n - (a + 1) /\ n > a + 1 + b /\ a + 1 + (b + 1) = a + 1 + b + 1
      BY <2>3
    <3>2. QED
      BY <1>2, <1>7, <3>1
  <2>4. QED
    BY <1>1, <1>7, <2>1, <2>2, <2>3 DEF Continues
<1>9. QED
  BY <1>1, <1>3, <1>4, <1>6, <1>7, <1>8

-----------------------------------------------------------------------------
(* A documented value sets what it is called, and only that.               *)
LEMMA FindIs ==
    ASSUME NEW type, NEW p, NEW s, s = SettingsIn(type)
    PROVE  Find(type, p) = IF FirstBegun(s, p) = 0 THEN Setting("ignored", p)
                           ELSE s[FirstBegun(s, p)]
BY Zenon DEF Find, FirstBegun

LEMMA IgnoredSetsNothing == \A p, v : Sets(Setting("ignored", p), v) = <<>>
<1>1. TAKE p, v
<1>2. PICK setting : setting = Setting("ignored", p)
  OBVIOUS
<1>3. /\ setting.kind # "text" /\ setting.kind # "number"
      /\ setting.kind # "flag" /\ setting.kind # "network"
  BY <1>2 DEF Setting
<1>4. Sets(setting, v) = <<>>
  BY <1>3, Zenon DEF Sets
<1>5. QED
  BY <1>2, <1>4

(* The setting of a value's own name.                                      *)
Exact(s, w) == {i \in DOMAIN s : s[i].name = w}

LEMMA ExactlyIs ==
    ASSUME NEW v, NEW s, s = SettingsIn(KindOf(v.steps[1])), NEW w, w = v.steps[2]
    PROVE  /\ Exact(s, w) = {} => Exactly(v) = <<>>
           /\ Exact(s, w) # {} =>
                Exactly(v) = Sets(s[CHOOSE i \in Exact(s, w) : TRUE], CString(v.value))
BY Zenon DEF Exactly, Exact

LEMMA DocumentedIs ==
    ASSUME NEW v, Documented(v), NEW s, s = SettingsIn(KindOf(v.steps[1])), Table(s),
           NEW w, w = v.steps[2]
    PROVE  /\ TypeOf(v.steps[1]) = KindOf(v.steps[1]) /\ w \notin Shadowed
           /\ Exact(s, w) # {} \/ \A i \in DOMAIN s : ~IsPrefix(s[i].name, w)
BY DEF Documented, Exact, Shadowed

LEMMA SetsAsCalled ==
    ASSUME NEW v, NameWord(v.steps[2]), Documented(v),
           NEW p \in Seq(Chars), Continues(p, v.steps[2])
    PROVE  /\ Sets(Find(TypeOf(v.steps[1]), p), CString(v.value)) = Exactly(v)
           /\ NameOfServer(TypeOf(v.steps[1]), v.steps[1]) = Named(v)
<1>1. PICK type : type = KindOf(v.steps[1])
  OBVIOUS
<1>2. PICK s : s = SettingsIn(type)
  OBVIOUS
<1>3. Table(s) /\ DOMAIN s = 1 .. Len(s)
  BY <1>2, TablesOfSettings DEF Table
<1>4. PICK w : w = v.steps[2]
  OBVIOUS
<1>5. /\ TypeOf(v.steps[1]) = type /\ w \notin Shadowed
      /\ Exact(s, w) # {} \/ \A i \in DOMAIN s : ~IsPrefix(s[i].name, w)
  BY <1>1, <1>2, <1>3, <1>4, DocumentedIs
<1>6. FirstBegun(s, p) = FirstBegun(s, w)
  BY <1>3, <1>4, SameBegun, SameFirst
<1>7. Find(type, p) = IF FirstBegun(s, w) = 0 THEN Setting("ignored", p)
                      ELSE s[FirstBegun(s, w)]
  BY <1>2, <1>6, FindIs
<1>8. CASE Exact(s, w) # {}
  <2>1. PICK k \in Exact(s, w) : TRUE
    BY <1>8
  <2>2. k \in 1 .. Len(s) /\ s[k].name = w
    BY <1>3, <2>1 DEF Exact
  <2>3. FirstBegun(s, w) = k /\ k # 0 /\ \A i \in 1 .. Len(s) : s[i].name = w => i = k
    BY <1>3, <1>5, <2>2, FindsNamed
  <2>4. PICK c : c = CHOOSE i \in Exact(s, w) : TRUE
    OBVIOUS
  <2>5. c \in Exact(s, w)
    BY <1>8, <2>4
  <2>6. c = k
    BY <1>3, <2>3, <2>5 DEF Exact
  <2>7. Exactly(v) = Sets(s[k], CString(v.value))
    BY <1>1, <1>2, <1>4, <1>8, <2>4, <2>6, ExactlyIs
  <2>8. Find(type, p) = s[k]
    BY <1>7, <2>3
  <2>9. QED
    BY <1>1, <1>5, <2>7, <2>8 DEF Named
<1>9. CASE Exact(s, w) = {}
  <2>1. Begun(s, w) = {}
    BY <1>3, <1>5, <1>9 DEF Begun
  <2>2. FirstBegun(s, w) = 0
    BY <2>1, FirstBegunIs
  <2>3. Find(type, p) = Setting("ignored", p)
    BY <1>7, <2>2
  <2>4. Exactly(v) = <<>>
    BY <1>1, <1>2, <1>4, <1>9, ExactlyIs
  <2>5. QED
    BY <1>1, <1>5, <2>3, <2>4, IgnoredSetsNothing DEF Named
<1>10. QED
  BY <1>8, <1>9

-----------------------------------------------------------------------------
(* One value more: of several settings the last counts.                    *)
SetBy(all, n, f) == {i \in 1 .. n : f \in DOMAIN Exactly(all[i])}
NamedBy(all, n, f) == {i \in 1 .. n : f \in DOMAIN Named(all[i])}

LEMMA AfterIs ==
    \A all, n :
        /\ After(all, n) = [f \in DOMAIN After(all, n) |-> After(all, n)[f]]
        /\ \A f : f \in DOMAIN After(all, n) <=>
                    SetBy(all, n, f) # {} \/ NamedBy(all, n, f) # {}
        /\ \A f : SetBy(all, n, f) # {} =>
                    After(all, n)[f] = Exactly(all[Max(SetBy(all, n, f))])[f]
        /\ \A f : SetBy(all, n, f) = {} /\ NamedBy(all, n, f) # {} =>
                    After(all, n)[f] = Named(all[Min(NamedBy(all, n, f))])[f]
BY DEF After, SetBy, NamedBy

LEMMA NothingYet == \A all : After(all, 0) = <<>>
<1>1. TAKE all
<1>2. \A f : SetBy(all, 0, f) = {} /\ NamedBy(all, 0, f) = {}
  BY DEF SetBy, NamedBy
<1>3. PICK g : g = After(all, 0)
  OBVIOUS
<1>4. DOMAIN g = {}
  BY <1>2, <1>3, AfterIs
<1>5. g = [f \in DOMAIN g |-> g[f]]
  BY <1>3, AfterIs
<1>6. g = <<>>
  BY <1>4, <1>5
<1>7. QED
  BY <1>3, <1>6

LEMMA SetsMore ==
    ASSUME NEW all, NEW n \in Nat, NEW m, m = n + 1, NEW f
    PROVE  /\ f \in DOMAIN Exactly(all[m]) =>
                SetBy(all, m, f) # {} /\ Max(SetBy(all, m, f)) = m
           /\ f \notin DOMAIN Exactly(all[m]) => SetBy(all, m, f) = SetBy(all, n, f)
<1>1. /\ m \in 1 .. m /\ m \in Nat
      /\ \A i : i \in 1 .. m <=> i \in 1 .. n \/ i = m
  OBVIOUS
<1>2. ASSUME f \in DOMAIN Exactly(all[m])
      PROVE  SetBy(all, m, f) # {} /\ Max(SetBy(all, m, f)) = m
  <2>1. PICK S : S = SetBy(all, m, f)
    OBVIOUS
  <2>2. m \in S /\ S \in SUBSET (1 .. m)
    BY <1>1, <1>2, <2>1 DEF SetBy
  <2>3. Max(S) \in S /\ \A j \in S : j <= Max(S)
    BY <1>1, <2>2, MaxExists
  <2>4. PICK x : x = Max(S)
    OBVIOUS
  <2>5. x \in 1 .. m /\ m <= x
    BY <2>2, <2>3, <2>4
  <2>6. x = m
    BY <1>1, <2>5
  <2>7. QED
    BY <2>1, <2>2, <2>4, <2>6
<1>3. ASSUME f \notin DOMAIN Exactly(all[m])
      PROVE  SetBy(all, m, f) = SetBy(all, n, f)
  BY <1>1, <1>3 DEF SetBy
<1>4. QED
  BY <1>2, <1>3

LEMMA NamesMore ==
    ASSUME NEW all, NEW n \in Nat, NEW m, m = n + 1, NEW f
    PROVE  /\ NamedBy(all, m, f) # {} <=>
                NamedBy(all, n, f) # {} \/ f \in DOMAIN Named(all[m])
           /\ NamedBy(all, n, f) # {} =>
                Min(NamedBy(all, m, f)) = Min(NamedBy(all, n, f))
           /\ NamedBy(all, n, f) = {} /\ f \in DOMAIN Named(all[m]) =>
                Min(NamedBy(all, m, f)) = m
<1>1. /\ m \in Nat /\ \A i : i \in 1 .. m <=> i \in 1 .. n \/ i = m
      /\ \A i \in 1 .. n : i < m
  OBVIOUS
<1>2. PICK S, T : S = NamedBy(all, n, f) /\ T = NamedBy(all, m, f)
  OBVIOUS
<1>3. /\ S \subseteq 1 .. n /\ T \subseteq Nat /\ S \subseteq T
      /\ \A i \in T : i \in S \/ i = m
      /\ m \in T <=> f \in DOMAIN Named(all[m])
  BY <1>1, <1>2 DEF NamedBy
<1>4. ASSUME S # {} PROVE Min(T) = Min(S)
  <2>1. S \subseteq Nat /\ T # {}
    BY <1>3, <1>4
  <2>2. PICK a, b : a = Min(S) /\ b = Min(T)
    OBVIOUS
  <2>3. a \in S /\ (\A j \in S : a <= j) /\ b \in T /\ \A j \in T : b <= j
    BY <1>3, <1>4, <2>1, <2>2, MinExists
  <2>4. b <= a /\ a < m /\ a \in Nat /\ b \in Nat
    BY <1>1, <1>3, <2>3
  <2>5. b \in S
    BY <1>1, <1>3, <2>3, <2>4
  <2>6. a = b
    BY <2>3, <2>4, <2>5
  <2>7. QED
    BY <2>2, <2>6
<1>5. ASSUME S = {}, m \in T PROVE Min(T) = m
  <2>1. Min(T) \in T
    BY <1>3, <1>5, MinExists
  <2>2. QED
    BY <1>3, <1>5, <2>1
<1>6. T # {} <=> S # {} \/ m \in T
  BY <1>3
<1>7. QED
  BY <1>2, <1>3, <1>4, <1>5, <1>6

LEMMA AfterOneMore ==
    ASSUME NEW all, NEW n \in Nat, NEW m, m = n + 1
    PROVE  Over(Over(Exactly(all[m]), After(all, n)), Named(all[m])) = After(all, m)
<1>1. PICK a, b, e, u : /\ a = After(all, n) /\ b = After(all, m)
                        /\ e = Exactly(all[m]) /\ u = Named(all[m])
  OBVIOUS
<1>2. PICK o : o = Over(Over(e, a), u)
  OBVIOUS
<1>3. ASSUME NEW f
      PROVE  /\ f \in DOMAIN b <=> f \in DOMAIN e \cup DOMAIN a \cup DOMAIN u
             /\ f \in DOMAIN e => b[f] = e[f]
             /\ f \in DOMAIN a \ DOMAIN e => b[f] = a[f]
             /\ f \in DOMAIN u \ (DOMAIN e \cup DOMAIN a) => b[f] = u[f]
  <2>1. PICK S, T, P, Q : S = SetBy(all, n, f) /\ T = SetBy(all, m, f)
                          /\ P = NamedBy(all, n, f) /\ Q = NamedBy(all, m, f)
    OBVIOUS
  <2>2. /\ f \in DOMAIN e => T # {} /\ Max(T) = m
        /\ f \notin DOMAIN e => T = S
    BY <1>1, <2>1, SetsMore
  <2>3. /\ Q # {} <=> P # {} \/ f \in DOMAIN u
        /\ P # {} => Min(Q) = Min(P)
        /\ P = {} /\ f \in DOMAIN u => Min(Q) = m
    BY <1>1, <2>1, NamesMore
  <2>4. /\ f \in DOMAIN a <=> S # {} \/ P # {}
        /\ S # {} => a[f] = Exactly(all[Max(S)])[f]
        /\ S = {} /\ P # {} => a[f] = Named(all[Min(P)])[f]
    BY <1>1, <2>1, AfterIs
  <2>5. /\ f \in DOMAIN b <=> T # {} \/ Q # {}
        /\ T # {} => b[f] = Exactly(all[Max(T)])[f]
        /\ T = {} /\ Q # {} => b[f] = Named(all[Min(Q)])[f]
    BY <1>1, <2>1, AfterIs
  <2>6. f \in DOMAIN b <=> f \in DOMAIN e \cup DOMAIN a \cup DOMAIN u
    <3>1. S # {} => T # {}
      BY <1>1, <2>1, SetsMore
    <3>2. QED
      BY <2>2, <2>3, <2>4, <2>5, <3>1
  <2>7. f \in DOMAIN e => b[f] = e[f]
    BY <1>1, <2>2, <2>5
  <2>8. f \in DOMAIN a \ DOMAIN e => b[f] = a[f]
    <3>1. ASSUME f \in DOMAIN a, f \notin DOMAIN e, S # {} PROVE b[f] = a[f]
      BY <2>2, <2>4, <2>5, <3>1
    <3>2. ASSUME f \in DOMAIN a, f \notin DOMAIN e, S = {} PROVE b[f] = a[f]
      BY <2>2, <2>3, <2>4, <2>5, <3>2
    <3>3. QED
      BY <3>1, <3>2
  <2>9. f \in DOMAIN u \ (DOMAIN e \cup DOMAIN a) => b[f] = u[f]
    BY <1>1, <2>2, <2>3, <2>4, <2>5
  <2>10. QED
    BY <2>6, <2>7, <2>8, <2>9
<1>4. /\ DOMAIN o = DOMAIN e \cup DOMAIN a \cup DOMAIN u
      /\ o = [f \in DOMAIN o |-> o[f]]
      /\ \A f \in DOMAIN e : o[f] = e[f]
      /\ \A f \in DOMAIN a \ DOMAIN e : o[f] = a[f]
      /\ \A f \in DOMAIN u \ (DOMAIN e \cup DOMAIN a) : o[f] = u[f]
  BY <1>2 DEF Over
<1>5. b = [f \in DOMAIN b |-> b[f]]
  BY <1>1, AfterIs
<1>6. DOMAIN b = DOMAIN o
  BY <1>3, <1>4
<1>7. \A f \in DOMAIN b : b[f] = o[f]
  BY <1>3, <1>4
<1>8. o = b
  BY <1>4, <1>5, <1>6, <1>7
<1>9. QED
  BY <1>1, <1>2, <1>8

-----------------------------------------------------------------------------
(* Of the values visited each has set what it is called.                   *)
WellTold == NoLongList /\ \A i \in DOMAIN Written : Documented(Written[i])
Configured ==
    /\ status \in {"writing", "scanning", "parsing"} => visited = 0 /\ config = <<>>
    /\ status \in Accepted /\ WellTold => config = After(Written, visited)
    /\ status = "configured" => visited = Len(values)

DotOf(key) == SelectInSeq(key, LAMBDA c : c = ".")
SectionOf(key) == SubSeq(key, 1, DotOf(key) - 1)
NameOf(key) == SubSeq(key, DotOf(key) + 1, Len(key))
Told(v, k) ==
    /\ Sets(Find(TypeOf(SectionOf(k.key)), NameOf(k.key)), CString(k.value)) = Exactly(v)
    /\ NameOfServer(TypeOf(SectionOf(k.key)), SectionOf(k.key)) = Named(v)

LEMMA ValueVisited ==
    ASSUME NEW v \in Wordy, NEW k, k = KeyOf(v), DotOf(k.key) # 0, Documented(v)
    PROVE  Told(v, k)
<1>1. PICK key, dot, section, name :
        /\ key = k.key /\ dot = DotOf(key) /\ dot # 0
        /\ section = SectionOf(key) /\ name = NameOf(key)
  OBVIOUS
<1>2. section = SubSeq(key, 1, dot - 1) /\ name = SubSeq(key, dot + 1, Len(key))
  BY <1>1 DEF SectionOf, NameOf
<1>3. PICK steps \in WordSteps : steps = v.steps /\ steps # <<>>
  BY DEF Wordy
<1>4. key = Joined[steps] /\ k.value = v.value
  BY <1>1, <1>3 DEF KeyOf
<1>5. key \in Seq(Chars)
  BY <1>3, <1>4, JoinedFull
<1>6. Len(steps) >= 2
  <2>1. Len(steps) \in Nat /\ Len(steps) # 0 /\ steps \in Steps
    BY <1>3 DEF WordSteps, Steps
  <2>2. Len(steps) # 1
    <3>1. SUFFICES ASSUME Len(steps) = 1 PROVE FALSE
      OBVIOUS
    <3>2. key = steps[1]
      BY <1>3, <1>4, <2>1, <3>1, JoinedIs, OneStep
    <3>3. 1 \in 1 .. Len(steps)
      BY <3>1
    <3>4. NameWord(key)
      BY <3>2, <3>3 DEF WordSteps
    <3>5. {j \in 1 .. Len(key) : key[j] = "."} = {}
      BY <3>4 DEF NameWord
    <3>6. dot = 0
      BY <1>1, <3>5 DEF SelectInSeq, DotOf
    <3>7. QED
      BY <1>1, <3>6
  <2>3. PICK n \in Nat : n = Len(steps)
    BY <2>1
  <2>4. n # 0 /\ n # 1
    BY <2>1, <2>2, <2>3
  <2>5. n >= 2
    BY <2>4
  <2>6. QED
    BY <2>3, <2>5
<1>7. PICK s, w : s = steps[1] /\ w = steps[2]
  OBVIOUS
<1>8. NameWord(s) /\ NameWord(w)
  <2>1. 1 \in 1 .. Len(steps) /\ 2 \in 1 .. Len(steps)
    BY <1>6 DEF WordSteps, Steps
  <2>2. QED
    BY <1>7, <2>1 DEF WordSteps
<1>9. TwoSteps(key, s, w)
  BY <1>4, <1>6, <1>7, JoinedTwo
<1>10. dot = Len(s) + 1
  BY <1>1, <1>5, <1>8, <1>9, KeyDot DEF DotOf
<1>11. section = s /\ name \in Seq(Chars) /\ Continues(name, w)
  BY <1>2, <1>5, <1>8, <1>9, <1>10, KeyParts
<1>12. v.steps[1] = s /\ v.steps[2] = w /\ Documented(v)
  BY <1>3, <1>7
<1>13. /\ Sets(Find(TypeOf(s), name), CString(v.value)) = Exactly(v)
       /\ NameOfServer(TypeOf(s), s) = Named(v)
  BY <1>8, <1>11, <1>12, SetsAsCalled
<1>14. QED
  BY <1>1, <1>4, <1>11, <1>13 DEF Told

LEMMA VisitConfigured ==
    ASSUME IInv, Story, Configured, Visit
    PROVE  Configured'
<1>1. /\ visited + 1 \in 1 .. Len(values) /\ UNCHANGED <<text, values>>
      /\ status = "parsed" /\ visited \in Nat
  BY Lengths DEF Visit, IInv, Visited, parser, file
<1>2. PICK n, k : n = visited + 1 /\ k = values[n]
  OBVIOUS
<1>3. /\ DotOf(k.key) = 0 =>
            status' = "crashed" /\ UNCHANGED <<visited, config>>
      /\ DotOf(k.key) # 0 =>
            /\ config' = Over(Over(Sets(Find(TypeOf(SectionOf(k.key)), NameOf(k.key)),
                                        CString(k.value)), config),
                              NameOfServer(TypeOf(SectionOf(k.key)), SectionOf(k.key)))
            /\ visited' = n /\ status' = status
  BY <1>2 DEF Visit, DotOf, SectionOf, NameOf
<1>4. UNCHANGED <<Written, WellTold>>
  BY <1>1 DEF Written, WellTold, NoLongList
<1>5. CASE DotOf(k.key) = 0
  BY <1>1, <1>3, <1>4, <1>5 DEF Configured, Accepted
<1>6. CASE DotOf(k.key) # 0
  <2>1. ASSUME WellTold PROVE config' = After(Written, n)
    <3>1. PICK V : V = Written
      OBVIOUS
    <3>2. V \in Seq(Wordy) /\ values = Keyed(V)
      BY <1>1, <2>1, <3>1 DEF Story, Accepted, KeepsAll, WellTold, NoLongList, Written
    <3>3. DOMAIN V = 1 .. Len(V) /\ Len(V) \in Nat /\ Len(values) = Len(V)
      <4>1. DOMAIN V = 1 .. Len(V) /\ Len(V) \in Nat
        BY <3>2
      <4>2. Len(Keyed(V)) = Len(V)
        BY <4>1 DEF Keyed
      <4>3. QED
        BY <3>2, <4>1, <4>2
    <3>4. n \in 1 .. Len(V) /\ n \in DOMAIN V /\ Documented(V[n])
      BY <1>1, <1>2, <2>1, <3>1, <3>3 DEF WellTold
    <3>5. V[n] \in Wordy /\ k = KeyOf(V[n])
      <4>1. V[n] \in Wordy
        BY <3>2, <3>4, ElementOfSeq, Zenon
      <4>2. QED
        BY <1>2, <3>2, <3>4, <4>1 DEF Keyed
    <3>6. Told(V[n], k)
      BY <1>6, <3>4, <3>5, ValueVisited
    <3>7. config = After(V, visited)
      BY <1>1, <2>1, <3>1 DEF Configured, Accepted
    <3>8. Over(Over(Exactly(V[n]), After(V, visited)), Named(V[n])) = After(V, n)
      BY <1>1, <1>2, AfterOneMore
    <3>9. QED
      BY <1>3, <1>6, <3>1, <3>6, <3>7, <3>8 DEF Told
  <2>2. QED
    BY <1>1, <1>3, <1>4, <1>6, <2>1 DEF Configured, Accepted
<1>7. QED
  BY <1>5, <1>6

LEMMA ConfiguredStep ==
    ASSUME IInv, Story, Configured, [Next]_vars
    PROVE  Configured'
<1>1. CASE Visit
  BY <1>1, VisitConfigured
<1>2. CASE Return
  <2>1. /\ status = "parsed" /\ status' = "configured" /\ visited = Len(values)
        /\ UNCHANGED <<text, values, visited, config>>
    BY <1>2 DEF Return, parser, file
  <2>2. UNCHANGED <<Written, WellTold>>
    BY <2>1 DEF Written, WellTold, NoLongList
  <2>3. QED
    BY <2>1, <2>2 DEF Configured, Accepted
<1>3. CASE Parse /\ UNCHANGED <<visited, config>>
  <2>1. status = "parsing" /\ status' \in {"scanning", "parsed", "error"}
    BY <1>3 DEF Parse, GoOn
  <2>2. visited' = 0 /\ config' = <<>>
    BY <1>3, <2>1 DEF Configured
  <2>3. QED
    BY <2>1, <2>2, NothingYet DEF Configured, Accepted
<1>4. CASE /\ Write \/ Open \/ OpenFails \/ Fill \/ ScanChar \/ ScanEnd
           /\ UNCHANGED <<visited, config>>
  <2>1. /\ status \in {"writing", "scanning", "parsing"}
        /\ status' \in {"writing", "scanning", "parsing", "no file", "error"}
    BY <1>4 DEF Write, Open, OpenFails, Fill, ScanChar, ScanEnd, Reading
  <2>2. QED
    BY <1>4, <2>1 DEF Configured, Accepted
<1>5. CASE UNCHANGED vars
  <2>1. UNCHANGED <<status, text, values, visited, config>>
    BY <1>5 DEF vars, lcfgVars, file, parser
  <2>2. UNCHANGED <<Written, WellTold>>
    BY <2>1 DEF Written, WellTold, NoLongList
  <2>3. QED
    BY <2>1, <2>2 DEF Configured, Accepted
<1>6. QED
  BY <1>1, <1>2, <1>3, <1>4, <1>5 DEF Next, LcfgNext, Read

(* rahunas_visitor: of documented settings each sets what it is called,    *)
(* and only that, whichever other names begin like its own; the last of    *)
(* several, or of a list, counts, and the first section names the virtual  *)
(* server.                                                                 *)
THEOREM SetsAsWritten == Spec => []SettingsAsWritten
<1>1. Story /\ Configured => SettingsAsWritten
  <2>1. ASSUME Story, Configured, status = "configured", WellTold
        PROVE  config = After(Written, Len(Written))
    <3>1. PICK V : V = Written
      OBVIOUS
    <3>2. V \in Seq(Wordy) /\ values = Keyed(V)
      BY <2>1, <3>1 DEF Story, Accepted, KeepsAll, WellTold, NoLongList, Written
    <3>3. Len(values) = Len(V)
      <4>1. DOMAIN V = 1 .. Len(V) /\ Len(V) \in Nat
        BY <3>2
      <4>2. Len(Keyed(V)) = Len(V)
        BY <4>1 DEF Keyed
      <4>3. QED
        BY <3>2, <4>2
    <3>4. QED
      BY <2>1, <3>1, <3>3 DEF Configured, Accepted
  <2>2. QED
    BY <2>1 DEF SettingsAsWritten, WellTold
<1>2. Init => Configured
  BY DEF Init, LcfgInit, Configured, Accepted
<1>3. QED
  BY <1>1, <1>2, ConfiguredStep, StoryInvariant, PTL DEF Spec

===============================================================================
