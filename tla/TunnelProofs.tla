---------------------------- MODULE TunnelProofs ----------------------------
(***************************************************************************)
(* What the tunnel protocol promises, proved for any number of messages:   *)
(* whatever a writer accepts, the reader at the other end gets, in order   *)
(* and as it was carried, however the connection breaks.  The proof goes   *)
(* from the widths of fields to the readers of single messages (Understood), *)
(* and from there to the wire of a connection (Layout).                    *)
(***************************************************************************)
EXTENDS MCFeatures, WellFoundedInduction, SequenceTheorems, TLAPS

-----------------------------------------------------------------------------
(* Widths.                                                                 *)

(* Induction, over a set of numbers.                                       *)
LEMMA Numbers ==
    ASSUME NEW S, 0 \in S, \A n \in Nat : n \in S => n + 1 \in S
    PROVE  Nat \subseteq S
<1> SUFFICES ASSUME ~(Nat \subseteq S)  PROVE FALSE
  OBVIOUS
<1> DEFINE T == Nat \ S
<1>1. T \subseteq Nat /\ T # {}
  OBVIOUS
<1>2. IsWellFoundedOn(OpToRel(<, Nat), Nat)
  BY NatLessThanWellFounded
<1>3. PICK n \in T : \A m \in T : ~(<<m, n>> \in OpToRel(<, Nat))
  <2>. HIDE DEF T
  <2>. QED  BY <1>1, <1>2, WFMin, Zenon
<1>4. \A m \in T : ~(m < n)
  BY <1>1, <1>3 DEF OpToRel
<1>5. n # 0 /\ n - 1 \in Nat
  OBVIOUS
<1>6. n - 1 \in S
  BY <1>4, <1>5
<1>. QED  BY <1>5, <1>6

(* The width of a sequence of fields.                                      *)
Words == {"register", "unregister", "ready", "ack", "error", "magic", "v4", "v6", "name"}
Fields == [w : Nat \ {0}, v : Nat \cup Words]
Sums(s) == {f \in [0..Len(s) -> Nat] : f[0] = 0 /\ \A i \in 1..Len(s) : f[i] = f[i - 1] + s[i].w}

LEMMA FieldsOf ==
    ASSUME NEW s \in Seq(Fields)
    PROVE  Len(s) \in Nat /\ \A i \in 1..Len(s) : s[i] \in Fields /\ s[i].w \in Nat \ {0}
<1>1. Len(s) \in Nat /\ \A i \in 1..Len(s) : s[i] \in Fields
  OBVIOUS
<1>. QED  BY <1>1 DEF Fields

LEMMA SumsExist ==
    ASSUME NEW s \in Seq(Fields)
    PROVE  Sums(s) # {}
<1> DEFINE G(n) == {f \in [0..n -> Nat] : f[0] = 0 /\ \A i \in 1..n : f[i] = f[i - 1] + s[i].w}
           S == {n \in Nat : n <= Len(s) => G(n) # {}}
<1>0. Len(s) \in Nat /\ \A i \in 1..Len(s) : s[i].w \in Nat
  BY FieldsOf
<1>1. 0 \in S
  <2>1. [i \in 0..0 |-> 0] \in G(0)
    OBVIOUS
  <2>. QED  BY <2>1
<1>2. ASSUME NEW n \in Nat, n \in S
      PROVE  n + 1 \in S
  <2> SUFFICES ASSUME n + 1 <= Len(s)
               PROVE  G(n + 1) # {}
    <3>. HIDE DEF G
    <3>. QED  OBVIOUS
  <2>1. PICK f \in G(n) : TRUE
    BY <1>0, <1>2
  <2> DEFINE g == [i \in 0..(n + 1) |-> IF i = n + 1 THEN f[n] + s[n + 1].w ELSE f[i]]
  <2>2. f[n] \in Nat /\ s[n + 1].w \in Nat
    BY <1>0
  <2>3. g \in [0..(n + 1) -> Nat]
    BY <2>2
  <2>4. g[0] = 0
    OBVIOUS
  <2>5. ASSUME NEW i \in 1..(n + 1)
        PROVE  g[i] = g[i - 1] + s[i].w
    <3>1. CASE i = n + 1
      BY <3>1
    <3>2. CASE i # n + 1
      <4>1. i \in 1..n /\ i \in 0..(n + 1) /\ i - 1 \in 0..(n + 1) /\ i - 1 # n + 1
        BY <3>2
      <4>2. g[i] = f[i] /\ g[i - 1] = f[i - 1]
        BY <3>2, <4>1
      <4>. QED  BY <4>1, <4>2
    <3>. QED  BY <3>1, <3>2
  <2>. HIDE DEF g
  <2>6. g \in G(n + 1)
    BY <2>3, <2>4, <2>5
  <2>. QED  BY <2>6
<1>3. Nat \subseteq S
  <2>. HIDE DEF S
  <2>. QED  BY <1>1, <1>2, Numbers
<1>4. G(Len(s)) # {}
  <2>. HIDE DEF G
  <2>. QED  BY <1>0, <1>3
<1>. QED  BY <1>4 DEF Sums

LEMMA SumsAgree ==
    ASSUME NEW s \in Seq(Fields), NEW t \in Seq(Fields), NEW f \in Sums(s), NEW g \in Sums(t),
           NEW k \in Nat, k <= Len(s), k <= Len(t), \A i \in 1..k : s[i] = t[i]
    PROVE  \A i \in 0..k : f[i] = g[i]
<1> DEFINE S == {n \in Nat : n <= k => f[n] = g[n]}
<1>0. Len(s) \in Nat /\ Len(t) \in Nat
  BY FieldsOf
<1>1. 0 \in S
  BY DEF Sums
<1>2. ASSUME NEW n \in Nat, n \in S
      PROVE  n + 1 \in S
  <2> SUFFICES ASSUME n + 1 <= k
               PROVE  f[n + 1] = g[n + 1]
    OBVIOUS
  <2>1. f[n] = g[n]
    BY <1>2
  <2>2. n + 1 \in 1..Len(s) /\ n + 1 \in 1..Len(t) /\ s[n + 1] = t[n + 1]
    BY <1>0
  <2>3. f[n + 1] = f[(n + 1) - 1] + s[n + 1].w /\ g[n + 1] = g[(n + 1) - 1] + t[n + 1].w
    BY <2>2 DEF Sums
  <2>. QED  BY <2>1, <2>2, <2>3
<1>3. Nat \subseteq S
  <2>. HIDE DEF S
  <2>. QED  BY <1>1, <1>2, Numbers
<1>. QED  BY <1>3

LEMMA SumsGrow ==
    ASSUME NEW s \in Seq(Fields), NEW f \in Sums(s), NEW k \in 0..Len(s), NEW m \in 0..Len(s), k < m
    PROVE  f[k] < f[m]
<1> DEFINE S == {n \in Nat : k + 1 + n <= Len(s) => f[k] < f[k + 1 + n]}
<1>0. Len(s) \in Nat /\ (\A i \in 1..Len(s) : s[i].w \in Nat \ {0}) /\ f \in [0..Len(s) -> Nat]
      /\ \A i \in 1..Len(s) : f[i] = f[i - 1] + s[i].w
  BY FieldsOf DEF Sums
<1>1. 0 \in S
  <2>1. k + 1 <= Len(s) => f[k + 1] = f[(k + 1) - 1] + s[k + 1].w
    BY <1>0
  <2>. QED  BY <1>0, <2>1
<1>2. ASSUME NEW n \in Nat, n \in S
      PROVE  n + 1 \in S
  <2> SUFFICES ASSUME k + 1 + (n + 1) <= Len(s)
               PROVE  f[k] < f[k + 1 + (n + 1)]
    OBVIOUS
  <2> DEFINE j == k + 1 + (n + 1)
  <2>1. j \in 1..Len(s) /\ j - 1 = k + 1 + n /\ j - 1 \in 0..Len(s)
    BY <1>0
  <2>2. f[j] = f[j - 1] + s[j].w
    BY <1>0, <2>1
  <2>3. f[k] < f[k + 1 + n]
    BY <1>0, <1>2
  <2>4. f[k] \in Nat /\ f[j - 1] \in Nat /\ s[j].w \in Nat \ {0}
    BY <1>0, <2>1
  <2>. QED  BY <2>1, <2>2, <2>3, <2>4, SMTT(30)
<1>3. Nat \subseteq S
  <2>. HIDE DEF S
  <2>. QED  BY <1>1, <1>2, Numbers
<1>4. m - k - 1 \in Nat
  BY <1>0
<1>5. m - k - 1 \in S
  <2>. HIDE DEF S
  <2>. QED  BY <1>3, <1>4
<1>6. k + 1 + (m - k - 1) = m
  BY <1>0
<1>. QED  BY <1>0, <1>5, <1>6

LEMMA WidthIsSum ==
    ASSUME NEW s \in Seq(Fields)
    PROVE  \E f \in Sums(s) : TU!Width(s) = f[Len(s)]
<1> DEFINE D(f) == [i \in 0..Len(s) |-> IF i = 0 THEN 0 ELSE f[i - 1] + s[i].w]
           u == CHOOSE f : f = D(f)
<1>0. Len(s) \in Nat /\ \A i \in 1..Len(s) : s[i].w \in Nat
  BY FieldsOf
<1>1. PICK g \in Sums(s) : TRUE
  BY SumsExist
<1>2. g = D(g)
  BY <1>0 DEF Sums
<1>3. u = D(u)
  <2>. HIDE DEF D
  <2>. QED  BY <1>2
<1>4. TU!Width(s) = u[Len(s)]
  BY DEF TU!Width
<1>. HIDE DEF u
<1> DEFINE S == {n \in Nat : n <= Len(s) => u[n] \in Nat}
<1>5. \A i \in 0..Len(s) : u[i] = IF i = 0 THEN 0 ELSE u[i - 1] + s[i].w
  BY <1>3
<1>6. 0 \in S
  BY <1>0, <1>5
<1>7. ASSUME NEW n \in Nat, n \in S
      PROVE  n + 1 \in S
  <2> SUFFICES ASSUME n + 1 <= Len(s)
               PROVE  u[n + 1] \in Nat
    OBVIOUS
  <2>1. u[n + 1] = u[(n + 1) - 1] + s[n + 1].w
    BY <1>0, <1>5
  <2>. QED  BY <1>0, <1>7, <2>1
<1>8. Nat \subseteq S
  <2>. HIDE DEF S
  <2>. QED  BY <1>6, <1>7, Numbers
<1>9. u \in Sums(s)
  <2>1. \A i \in 0..Len(s) : u[i] \in Nat
    BY <1>0, <1>8
  <2>2. u \in [0..Len(s) -> Nat]
    BY <1>3, <2>1
  <2>. QED  BY <1>0, <1>5, <2>2 DEF Sums
<1>. QED  BY <1>4, <1>9

LEMMA WidthOrder ==
    ASSUME NEW s \in Seq(Fields), NEW t \in Seq(Fields), Len(s) <= Len(t), \A i \in 1..Len(s) : s[i] = t[i]
    PROVE  TU!Width(s) <= TU!Width(t) /\ (Len(s) < Len(t) => TU!Width(s) < TU!Width(t))
<1>0. Len(s) \in Nat /\ Len(t) \in Nat
  BY FieldsOf
<1>1. PICK f \in Sums(s) : TU!Width(s) = f[Len(s)]
  BY WidthIsSum
<1>2. PICK g \in Sums(t) : TU!Width(t) = g[Len(t)]
  BY WidthIsSum
<1>3. f[Len(s)] = g[Len(s)]
  BY <1>0, SumsAgree
<1>4. Len(s) < Len(t) => g[Len(s)] < g[Len(t)]
  BY <1>0, SumsGrow
<1>5. g[Len(s)] \in Nat /\ g[Len(t)] \in Nat
  <2>1. g \in [0..Len(t) -> Nat]
    BY DEF Sums
  <2>. QED  BY <1>0, <2>1, SMTT(30)
<1>. QED  BY <1>0, <1>1, <1>2, <1>3, <1>4, <1>5

LEMMA WidthOf ==
    ASSUME NEW s \in Seq(Fields)
    PROVE  /\ TU!Width(s) \in Nat
           /\ Len(s) = 0 => TU!Width(s) = 0
           /\ Len(s) >= 1 => TU!Width(s) >= s[1].w
           /\ Len(s) = 1 => TU!Width(s) = s[1].w
           /\ Len(s) = 2 => TU!Width(s) = s[1].w + s[2].w
           /\ Len(s) = 3 => TU!Width(s) = s[1].w + s[2].w + s[3].w
           /\ Len(s) = 4 => TU!Width(s) = s[1].w + s[2].w + s[3].w + s[4].w
           /\ Len(s) >= 2 => TU!Width(s) >= s[1].w + s[2].w
           /\ Len(s) >= 3 => TU!Width(s) >= s[1].w + s[2].w + s[3].w
<1>0. Len(s) \in Nat /\ \A i \in 1..Len(s) : s[i].w \in Nat \ {0}
  BY FieldsOf
<1>1. PICK f \in Sums(s) : TU!Width(s) = f[Len(s)]
  BY WidthIsSum
<1>2. f \in [0..Len(s) -> Nat] /\ f[0] = 0 /\ \A i \in 1..Len(s) : f[i] = f[i - 1] + s[i].w
  BY DEF Sums
<1>3. /\ Len(s) >= 1 => f[1] = s[1].w
      /\ Len(s) >= 2 => f[2] = f[1] + s[2].w
      /\ Len(s) >= 3 => f[3] = f[2] + s[3].w
      /\ Len(s) >= 4 => f[4] = f[3] + s[4].w
  <2>1. /\ Len(s) >= 1 => f[1] = f[1 - 1] + s[1].w
        /\ Len(s) >= 2 => f[2] = f[2 - 1] + s[2].w
        /\ Len(s) >= 3 => f[3] = f[3 - 1] + s[3].w
        /\ Len(s) >= 4 => f[4] = f[4 - 1] + s[4].w
    BY <1>0, <1>2
  <2>. QED  BY <1>0, <1>2, <2>1
<1>4. /\ Len(s) > 1 => f[1] < f[Len(s)]
      /\ Len(s) > 2 => f[2] < f[Len(s)]
      /\ Len(s) > 3 => f[3] < f[Len(s)]
  BY <1>0, SumsGrow
<1>5. TU!Width(s) \in Nat
  BY <1>0, <1>1, <1>2
<1>6. Len(s) >= 1 => TU!Width(s) >= s[1].w
  <2>1. Len(s) >= 1 => f[1] \in Nat /\ f[Len(s)] \in Nat
    BY <1>0, <1>2
  <2>. QED  BY <1>0, <1>1, <1>3, <1>4, <2>1
<1>7. Len(s) = 0 => TU!Width(s) = 0
  BY <1>1, <1>2
<1>8. /\ Len(s) = 1 => TU!Width(s) = s[1].w
      /\ Len(s) = 2 => TU!Width(s) = s[1].w + s[2].w
  BY <1>0, <1>1, <1>3, SMTT(30)
<1>9. /\ Len(s) = 3 => TU!Width(s) = s[1].w + s[2].w + s[3].w
      /\ Len(s) = 4 => TU!Width(s) = s[1].w + s[2].w + s[3].w + s[4].w
  <2>1. CASE Len(s) = 3
    BY <1>1, <1>3, <2>1
  <2>2. CASE Len(s) = 4
    BY <1>1, <1>3, <2>2
  <2>. QED  BY <2>1, <2>2
<1>10. Len(s) >= 2 => TU!Width(s) >= s[1].w + s[2].w
  <2>1. Len(s) >= 2 => f[2] \in Nat /\ f[Len(s)] \in Nat
    BY <1>0, <1>2
  <2>. QED  BY <1>0, <1>1, <1>3, <1>4, <2>1
<1>11. Len(s) >= 3 => TU!Width(s) >= s[1].w + s[2].w + s[3].w
  <2>1. Len(s) >= 3 => f[3] \in Nat /\ f[Len(s)] \in Nat
    BY <1>0, <1>2
  <2>. QED  BY <1>0, <1>1, <1>3, <1>4, <2>1
<1>. QED  BY <1>5, <1>6, <1>7, <1>8, <1>9, <1>10, <1>11

(* What a reader that looks for the next field learns.                     *)
Measured(s) ==
    /\ TU!Width(s) \in Nat /\ Len(s) \in Nat
    /\ Len(s) = 0 => TU!Width(s) = 0
    /\ Len(s) # 0 => s[1].w \in Nat \ {0} /\ TU!Width(s) >= s[1].w
LEMMA WidthMeasures ==
    ASSUME NEW s \in Seq(Fields)
    PROVE  Measured(s)
<1>1. TU!Width(s) \in Nat /\ Len(s) \in Nat /\ (Len(s) >= 1 => s[1].w \in Nat \ {0})
  BY WidthOf, FieldsOf
<1>2. Len(s) = 0 => TU!Width(s) = 0
  BY WidthOf
<1>3. Len(s) >= 1 => TU!Width(s) >= s[1].w
  BY WidthOf
<1>. QED  BY <1>1, <1>2, <1>3 DEF Measured

(* What is on the wire, as far as it is there, and what is left of it.     *)
Agrees(s, e) == \A i \in 1..Len(e) : i <= Len(s) => s[i] = e[i]
Drops(r, s, k) == r \in Seq(Fields) /\ Len(r) = Len(s) - k /\ \A i \in 1..Len(r) : r[i] = s[k + i]
ReadsAs(d, s, m, e) ==
    /\ Len(e) <= Len(s) => d.is = "ok" /\ d.m = m /\ Drops(d.rest, s, Len(e))
    /\ Len(s) < Len(e) => d.is = "short"

LEMMA TailOf ==
    ASSUME NEW s \in Seq(Fields), Len(s) >= 1
    PROVE  Drops(Tail(s), s, 1)
  BY FieldsOf DEF Drops

LEMMA DropMore ==
    ASSUME NEW s \in Seq(Fields), NEW r, NEW k \in Nat, Drops(r, s, k), k + 1 <= Len(s)
    PROVE  r[1] = s[k + 1] /\ Len(r) >= 1 /\ Drops(Tail(r), s, k + 1)
<1>0. Len(s) \in Nat /\ r \in Seq(Fields) /\ Len(r) = Len(s) - k /\ \A i \in 1..Len(r) : r[i] = s[k + i]
  BY FieldsOf DEF Drops
<1>1. Tail(r) \in Seq(Fields) /\ Len(Tail(r)) = Len(r) - 1 /\ \A i \in 1..Len(Tail(r)) : Tail(r)[i] = r[i + 1]
  BY <1>0
<1>. QED  BY <1>0, <1>1 DEF Drops

-----------------------------------------------------------------------------
(* The readers, message by message: what a reader makes of a wire that     *)
(* begins with the fields of a message, or with the first of them.         *)
(* A reader of s, where the message e was written, after k fields.         *)
Cell(e, i, w, v) == e[i].w = w /\ e[i].v = v
Fits(r, w) == ~(w = 0) /\ ~(TU!Width(r) < w) /\ ~(r[1].w # w)
Lacks(r, w) == ~(w = 0) /\ TU!Width(r) < w
Has(r, w, v) == Fits(r, w) /\ r[1].v = v
Nothing(r) == \A w \in Nat \ {0} : Lacks(r, w)
Cursor(r, s, e, k) ==
    /\ k <= Len(s) => Drops(r, s, k) /\ Measured(r)
    /\ k < Len(s) /\ k < Len(e) => Has(r, e[k + 1].w, e[k + 1].v)
    /\ k = Len(s) => Nothing(r)

LEMMA CursorAt ==
    ASSUME NEW s \in Seq(Fields), NEW e, Agrees(s, e), Len(e) \in Nat, NEW k \in Nat, NEW r,
           k <= Len(s) => Drops(r, s, k)
    PROVE  Cursor(r, s, e, k)
<1>0. Len(s) \in Nat
  BY FieldsOf
<1> SUFFICES ASSUME k <= Len(s)  PROVE Cursor(r, s, e, k)
  BY <1>0 DEF Cursor
<1>1. /\ r \in Seq(Fields) /\ Len(r) = Len(s) - k /\ \A i \in 1..Len(r) : r[i] = s[k + i]
  BY DEF Drops
<1>2. Measured(r)
  BY <1>1, WidthMeasures
<1>3. k = Len(s) => Nothing(r)
  BY <1>0, <1>1, <1>2 DEF Measured, Nothing, Lacks
<1>4. ASSUME k < Len(s), k < Len(e)
      PROVE  Has(r, e[k + 1].w, e[k + 1].v)
  <2>1. 1 \in 1..Len(r) /\ k + 1 \in 1..Len(e) /\ k + 1 <= Len(s)
    BY <1>0, <1>1, <1>4
  <2>2. r[1] = e[k + 1]
    BY <1>1, <2>1 DEF Agrees
  <2>. QED  BY <1>2, <2>1, <2>2 DEF Has, Fits, Measured
<1>. QED  BY <1>2, <1>3, <1>4 DEF Cursor

LEMMA CursorMoves ==
    ASSUME NEW s \in Seq(Fields), NEW e, Agrees(s, e), Len(e) \in Nat, NEW k \in Nat, NEW r,
           Cursor(r, s, e, k)
    PROVE  Cursor(Tail(r), s, e, k + 1)
<1>0. Len(s) \in Nat
  BY FieldsOf
<1>1. k + 1 <= Len(s) => Drops(Tail(r), s, k + 1)
  BY <1>0, DropMore DEF Cursor
<1>. QED  BY <1>1, CursorAt

LEMMA Cursors ==
    ASSUME NEW s \in Seq(Fields), NEW e, Agrees(s, e), Len(e) \in Nat
    PROVE  /\ Cursor(s, s, e, 0) /\ Cursor(Tail(s), s, e, 1) /\ Cursor(Tail(Tail(s)), s, e, 2)
           /\ Cursor(Tail(Tail(Tail(s))), s, e, 3) /\ Cursor(Tail(Tail(Tail(Tail(s)))), s, e, 4)
           /\ Cursor(Tail(Tail(Tail(Tail(Tail(s))))), s, e, 5)
           /\ Cursor(Tail(Tail(Tail(Tail(Tail(Tail(s)))))), s, e, 6)
<1>0. Cursor(s, s, e, 0)
  <2>1. Drops(s, s, 0)
    BY FieldsOf DEF Drops
  <2>. QED  BY <2>1, CursorAt
<1>1. Cursor(Tail(s), s, e, 0 + 1)
  BY <1>0, CursorMoves
<1>2. Cursor(Tail(Tail(s)), s, e, 1 + 1)
  BY <1>1, CursorMoves
<1>3. Cursor(Tail(Tail(Tail(s))), s, e, 2 + 1)
  BY <1>2, CursorMoves
<1>4. Cursor(Tail(Tail(Tail(Tail(s)))), s, e, 3 + 1)
  BY <1>3, CursorMoves
<1>5. Cursor(Tail(Tail(Tail(Tail(Tail(s))))), s, e, 4 + 1)
  BY <1>4, CursorMoves
<1>6. Cursor(Tail(Tail(Tail(Tail(Tail(Tail(s)))))), s, e, 5 + 1)
  BY <1>5, CursorMoves
<1>. QED  BY <1>0, <1>1, <1>2, <1>3, <1>4, <1>5, <1>6

LEMMA Outcome ==
    ASSUME NEW d, NEW s, NEW m, NEW e, NEW r,
           Len(s) < Len(e) => d = TU!Short,
           Len(e) <= Len(s) => d = TU!Done(m, r) /\ Drops(r, s, Len(e))
    PROVE  ReadsAs(d, s, m, e)
  BY DEF ReadsAs, TU!Done, TU!Short

LEMMA Below ==
    ASSUME NEW l \in Nat
    PROVE  /\ l < 1 => l = 0
           /\ l < 2 => l \in {0, 1}
           /\ l < 3 => l \in {0, 1, 2}
           /\ l < 4 => l \in {0, 1, 2, 3}
           /\ l < 5 => l \in {0, 1, 2, 3, 4}
           /\ l < 6 => l \in {0, 1, 2, 3, 4, 5}
  OBVIOUS

LEMMA DatagramReads ==
    ASSUME NEW s \in Seq(Fields), NEW n \in 1..TU!MaxDatagramSize, NEW e,
           Len(e) = 2, Cell(e, 1, 2, n), Cell(e, 2, n, n), Agrees(s, e)
    PROVE  ReadsAs(TU!ReadDatagram(s), s, [type |-> "datagram", text |-> n], e)
<1>0. Len(s) \in Nat /\ n \in Nat \ {0}
  <2>1. TU!MaxDatagramSize \in Nat
    BY DEF TU!MaxDatagramSize
  <2>2. n \in Nat \ {0}
    BY <2>1
  <2>. QED  BY <2>2, FieldsOf
<1>1. Cursor(s, s, e, 0) /\ Cursor(Tail(s), s, e, 1) /\ Cursor(Tail(Tail(s)), s, e, 2)
  BY Cursors
<1>2. /\ Len(s) = 0 => Nothing(s)
      /\ Len(s) >= 1 => Has(s, 2, n)
      /\ Len(s) = 1 => Nothing(Tail(s))
      /\ Len(s) >= 2 => Has(Tail(s), n, n) /\ Drops(Tail(Tail(s)), s, 2)
  BY <1>0, <1>1 DEF Cursor, Cell
<1>4. ASSUME Len(s) = 0  PROVE TU!ReadDatagram(s) = TU!Short
  <2>1. Lacks(s, 2)
    BY <1>2, <1>4 DEF Nothing
  <2>. QED  BY <2>1, Zenon DEF Lacks, TU!ReadDatagram, TU!Take
<1>5. ASSUME Len(s) = 1  PROVE TU!ReadDatagram(s) = TU!Short
  <2>1. Fits(s, 2) /\ s[1].v \in 1..TU!MaxDatagramSize /\ Lacks(Tail(s), s[1].v)
    BY <1>0, <1>2, <1>5 DEF Nothing, Has
  <2>. QED  BY <2>1, Zenon DEF Lacks, Fits, TU!ReadDatagram, TU!Take
<1>6. ASSUME Len(s) >= 2
      PROVE  TU!ReadDatagram(s) = TU!Done([type |-> "datagram", text |-> n], Tail(Tail(s)))
  <2>1. Fits(s, 2) /\ s[1].v \in 1..TU!MaxDatagramSize /\ Fits(Tail(s), s[1].v) /\ Tail(s)[1].v = n
    BY <1>2, <1>6 DEF Has
  <2>2. TU!ReadDatagram(s) = TU!Done([type |-> "datagram", text |-> Tail(s)[1].v], Tail(Tail(s)))
    BY <2>1, Zenon DEF Fits, TU!ReadDatagram, TU!Take
  <2>. QED  BY <2>1, <2>2
<1>7. Len(s) < Len(e) => TU!ReadDatagram(s) = TU!Short
  <2>1. Len(s) < 2 => Len(s) \in {0, 1}
    BY <1>0, Below
  <2>. QED  BY <1>4, <1>5, <2>1
<1>8. Len(e) <= Len(s) => /\ TU!ReadDatagram(s) = TU!Done([type |-> "datagram", text |-> n], Tail(Tail(s)))
                          /\ Drops(Tail(Tail(s)), s, Len(e))
  BY <1>0, <1>2, <1>6
<1>. QED  BY <1>7, <1>8, Outcome

LEMMA ErrorStatusReads ==
    ASSUME NEW s \in Seq(Fields), NEW n \in Nat \ {0}, n <= TU!maxErrorSize, NEW e,
           Len(e) = 3, Cell(e, 1, 1, 1), Cell(e, 2, 2, n), Cell(e, 3, n, n), Agrees(s, e)
    PROVE  ReadsAs(TU!ReadStatus(s), s, [type |-> "status", ok |-> FALSE, text |-> n], e)
<1>0. Len(s) \in Nat
  BY FieldsOf
<1>1. /\ Cursor(s, s, e, 0) /\ Cursor(Tail(s), s, e, 1) /\ Cursor(Tail(Tail(s)), s, e, 2)
      /\ Cursor(Tail(Tail(Tail(s))), s, e, 3)
  BY Cursors
<1>2. /\ Len(s) = 0 => Nothing(s)
      /\ Len(s) >= 1 => Has(s, 1, 1)
      /\ Len(s) = 1 => Nothing(Tail(s))
      /\ Len(s) >= 2 => Has(Tail(s), 2, n)
      /\ Len(s) = 2 => Nothing(Tail(Tail(s)))
      /\ Len(s) >= 3 => Has(Tail(Tail(s)), n, n) /\ Drops(Tail(Tail(Tail(s))), s, 3)
  BY <1>0, <1>1 DEF Cursor, Cell
<1>3. ~(n > TU!maxErrorSize)
  BY DEF TU!maxErrorSize
<1>4. ASSUME Len(s) = 0  PROVE TU!ReadStatus(s) = TU!Short
  <2>1. Lacks(s, 1)
    BY <1>2, <1>4 DEF Nothing
  <2>. QED  BY <2>1, Zenon DEF Lacks, TU!ReadStatus, TU!Take
<1>5. ASSUME Len(s) = 1  PROVE TU!ReadStatus(s) = TU!Short
  <2>1. Fits(s, 1) /\ ~(s[1].v = 0) /\ s[1].v = 1 /\ Lacks(Tail(s), 2)
    BY <1>0, <1>2, <1>5 DEF Nothing, Has
  <2>. QED  BY <2>1, Zenon DEF Lacks, Fits, TU!ReadStatus, TU!Take
<1>6. ASSUME Len(s) = 2  PROVE TU!ReadStatus(s) = TU!Short
  <2>1. /\ Fits(s, 1) /\ ~(s[1].v = 0) /\ s[1].v = 1 /\ Fits(Tail(s), 2)
        /\ ~(Tail(s)[1].v > TU!maxErrorSize) /\ Lacks(Tail(Tail(s)), Tail(s)[1].v)
    BY <1>0, <1>2, <1>3, <1>6, SMTT(30) DEF Nothing, Has
  <2>. QED  BY <2>1, Zenon DEF Lacks, Fits, TU!ReadStatus, TU!Take
<1>7. ASSUME Len(s) >= 3
      PROVE  TU!ReadStatus(s) = TU!Done([type |-> "status", ok |-> FALSE, text |-> n], Tail(Tail(Tail(s))))
  <2>1. /\ Fits(s, 1) /\ ~(s[1].v = 0) /\ s[1].v = 1 /\ Fits(Tail(s), 2)
        /\ ~(Tail(s)[1].v > TU!maxErrorSize) /\ Fits(Tail(Tail(s)), Tail(s)[1].v) /\ Tail(Tail(s))[1].v = n
    BY <1>0, <1>2, <1>3, <1>7 DEF Has
  <2>2. TU!ReadStatus(s) = TU!Done([type |-> "status", ok |-> FALSE, text |-> Tail(Tail(s))[1].v], Tail(Tail(Tail(s))))
    BY <2>1, Zenon DEF Fits, TU!ReadStatus, TU!Take
  <2>. QED  BY <2>1, <2>2
<1>8. Len(s) < Len(e) => TU!ReadStatus(s) = TU!Short
  <2>1. Len(s) < 3 => Len(s) \in {0, 1, 2}
    BY <1>0, Below
  <2>. QED  BY <1>4, <1>5, <1>6, <2>1
<1>9. Len(e) <= Len(s) =>
        /\ TU!ReadStatus(s) = TU!Done([type |-> "status", ok |-> FALSE, text |-> n], Tail(Tail(Tail(s))))
        /\ Drops(Tail(Tail(Tail(s))), s, Len(e))
  BY <1>0, <1>2, <1>7
<1>. QED  BY <1>8, <1>9, Outcome

LEMMA OkStatusReads ==
    ASSUME NEW s \in Seq(Fields), NEW e, Len(e) = 1, Agrees(s, e),
           Cell(e, 1, 1, 0)
    PROVE  ReadsAs(TU!ReadStatus(s), s, [type |-> "status", ok |-> TRUE, text |-> 0], e)
<1>0. Len(s) \in Nat
  BY FieldsOf
<1>1. /\ Cursor(s, s, e, 0)
      /\ Cursor(Tail(s), s, e, 1)
  BY Cursors
<1>2. /\ Len(s) = 0 => Nothing(s)
      /\ Len(s) >= 1 => Has(s, 1, 0)
      /\ Len(s) >= 1 => Drops(Tail(s), s, 1)
  BY <1>0, <1>1 DEF Cursor, Cell
<1>10. ASSUME Len(s) = 0
      PROVE  TU!ReadStatus(s) = TU!Short
  <2>1. /\ Nothing(s)
    BY <1>0, <1>2, <1>10
  <2>5. Lacks(s, 1)
    BY <2>1 DEF Nothing
  <2>. QED  BY <2>5, Zenon DEF Lacks, Fits, TU!ReadStatus, TU!Take
<1>11. ASSUME Len(s) >= 1
      PROVE  TU!ReadStatus(s) = TU!Done([type |-> "status", ok |-> TRUE, text |-> 0], Tail(s))
  <2>1. /\ Has(s, 1, 0)
    BY <1>0, <1>2, <1>11
  <2>2. /\ s[1].v = 0
    BY <2>1 DEF Has
  <2>4. /\ Fits(s, 1)
    BY <2>1, <2>2 DEF Has
  <2>8. TU!ReadStatus(s) = TU!Done([type |-> "status", ok |-> TRUE, text |-> 0], Tail(s))
    BY <2>2, <2>4, Zenon DEF Lacks, Fits, TU!ReadStatus, TU!Take
  <2>. QED  BY <2>2, <2>8
<1>12. Len(s) < Len(e) => TU!ReadStatus(s) = TU!Short
  <2>1. Len(s) < 1 => Len(s) \in {0}
    BY <1>0, Below
  <2>. QED  BY <1>10, <2>1
<1>13. Len(e) <= Len(s) => TU!ReadStatus(s) = TU!Done([type |-> "status", ok |-> TRUE, text |-> 0], Tail(s)) /\ Drops(Tail(s), s, Len(e))
  BY <1>0, <1>2, <1>11
<1>. QED  BY <1>12, <1>13, Outcome

LEMMA EmptyStatusReads ==
    ASSUME NEW s \in Seq(Fields), NEW e, Len(e) = 2, Agrees(s, e),
           Cell(e, 1, 1, 1), Cell(e, 2, 2, 0)
    PROVE  ReadsAs(TU!ReadStatus(s), s, [type |-> "status", ok |-> FALSE, text |-> 0], e)
<1>0. Len(s) \in Nat
  BY FieldsOf
<1>1. /\ Cursor(s, s, e, 0)
      /\ Cursor(Tail(s), s, e, 1)
      /\ Cursor(Tail(Tail(s)), s, e, 2)
  BY Cursors
<1>2. /\ Len(s) = 0 => Nothing(s)
      /\ Len(s) >= 1 => Has(s, 1, 1)
      /\ Len(s) = 1 => Nothing(Tail(s))
      /\ Len(s) >= 2 => Has(Tail(s), 2, 0)
      /\ Len(s) >= 2 => Drops(Tail(Tail(s)), s, 2)
  BY <1>0, <1>1 DEF Cursor, Cell
<1>3. (\A v : v = 1 => ~(v = 0)) /\ \A v : v = 0 => ~(v > TU!maxErrorSize)
  BY DEF TU!maxErrorSize
<1>10. ASSUME Len(s) = 0
      PROVE  TU!ReadStatus(s) = TU!Short
  <2>1. /\ Nothing(s)
    BY <1>0, <1>2, <1>10
  <2>5. Lacks(s, 1)
    BY <2>1 DEF Nothing
  <2>. QED  BY <2>5, Zenon DEF Lacks, Fits, TU!ReadStatus, TU!Take
<1>11. ASSUME Len(s) = 1
      PROVE  TU!ReadStatus(s) = TU!Short
  <2>1. /\ Has(s, 1, 1)
        /\ Nothing(Tail(s))
    BY <1>0, <1>2, <1>11
  <2>2. /\ s[1].v = 1
    BY <2>1 DEF Has
  <2>3. /\ ~(s[1].v = 0)
    BY <2>2, <1>3, Zenon
  <2>4. /\ Fits(s, 1)
    BY <2>1, <2>2 DEF Has
  <2>5. Lacks(Tail(s), 2)
    BY <2>1, <2>2 DEF Nothing
  <2>. QED  BY <2>2, <2>3, <2>4, <2>5, Zenon DEF Lacks, Fits, TU!ReadStatus, TU!Take
<1>12. ASSUME Len(s) >= 2
      PROVE  TU!ReadStatus(s) = TU!Done([type |-> "status", ok |-> FALSE, text |-> 0], Tail(Tail(s)))
  <2>1. /\ Has(s, 1, 1)
        /\ Has(Tail(s), 2, 0)
    BY <1>0, <1>2, <1>12
  <2>2. /\ s[1].v = 1
        /\ Tail(s)[1].v = 0
    BY <2>1 DEF Has
  <2>3. /\ ~(s[1].v = 0)
        /\ ~(Tail(s)[1].v > TU!maxErrorSize)
    BY <2>2, <1>3, Zenon
  <2>4. /\ Fits(s, 1)
        /\ Fits(Tail(s), 2)
    BY <2>1, <2>2 DEF Has
  <2>8. TU!ReadStatus(s) = TU!Done([type |-> "status", ok |-> FALSE, text |-> 0], Tail(Tail(s)))
    BY <2>2, <2>3, <2>4, Zenon DEF Lacks, Fits, TU!ReadStatus, TU!Take
  <2>. QED  BY <2>2, <2>8
<1>13. Len(s) < Len(e) => TU!ReadStatus(s) = TU!Short
  <2>1. Len(s) < 2 => Len(s) \in {0, 1}
    BY <1>0, Below
  <2>. QED  BY <1>10, <1>11, <2>1
<1>14. Len(e) <= Len(s) => TU!ReadStatus(s) = TU!Done([type |-> "status", ok |-> FALSE, text |-> 0], Tail(Tail(s))) /\ Drops(Tail(Tail(s)), s, Len(e))
  BY <1>0, <1>2, <1>12
<1>. QED  BY <1>13, <1>14, Outcome

LEMMA SocksV4Reads ==
    ASSUME NEW s \in Seq(Fields), NEW p, NEW e, Len(e) = 3, Agrees(s, e),
           Cell(e, 1, 1, "v4"), Cell(e, 2, 4, 4), Cell(e, 3, 2, p)
    PROVE  ReadsAs(TU!readAddress(s), s, [type |-> "socks", host |-> "v4", size |-> 4, port |-> p], e)
<1>0. Len(s) \in Nat
  BY FieldsOf
<1>1. /\ Cursor(s, s, e, 0)
      /\ Cursor(Tail(s), s, e, 1)
      /\ Cursor(Tail(Tail(s)), s, e, 2)
      /\ Cursor(Tail(Tail(Tail(s))), s, e, 3)
  BY Cursors
<1>2. /\ Len(s) = 0 => Nothing(s)
      /\ Len(s) >= 1 => Has(s, 1, "v4")
      /\ Len(s) = 1 => Nothing(Tail(s))
      /\ Len(s) >= 2 => Has(Tail(s), 4, 4)
      /\ Len(s) = 2 => Nothing(Tail(Tail(s)))
      /\ Len(s) >= 3 => Has(Tail(Tail(s)), 2, p)
      /\ Len(s) >= 3 => Drops(Tail(Tail(Tail(s))), s, 3)
  BY <1>0, <1>1 DEF Cursor, Cell
<1>10. ASSUME Len(s) = 0
      PROVE  TU!readAddress(s) = TU!Short
  <2>1. /\ Nothing(s)
    BY <1>0, <1>2, <1>10
  <2>5. Lacks(s, 1)
    BY <2>1 DEF Nothing
  <2>. QED  BY <2>5, Zenon DEF Lacks, Fits, TU!readAddress, TU!Take
<1>11. ASSUME Len(s) = 1
      PROVE  TU!readAddress(s) = TU!Short
  <2>1. /\ Has(s, 1, "v4")
        /\ Nothing(Tail(s))
    BY <1>0, <1>2, <1>11
  <2>2. /\ s[1].v = "v4"
    BY <2>1 DEF Has
  <2>3. /\ ~(s[1].v = "v6")
        /\ ~(s[1].v = "name")
    BY <2>2
  <2>4. /\ Fits(s, 1)
    BY <2>1, <2>2 DEF Has
  <2>5. Lacks(Tail(s), 4)
    BY <2>1, <2>2 DEF Nothing
  <2>. QED  BY <2>2, <2>3, <2>4, <2>5, Zenon DEF Lacks, Fits, TU!readAddress, TU!Take
<1>12. ASSUME Len(s) = 2
      PROVE  TU!readAddress(s) = TU!Short
  <2>1. /\ Has(s, 1, "v4")
        /\ Has(Tail(s), 4, 4)
        /\ Nothing(Tail(Tail(s)))
    BY <1>0, <1>2, <1>12
  <2>2. /\ s[1].v = "v4"
        /\ Tail(s)[1].v = 4
    BY <2>1 DEF Has
  <2>3. /\ ~(s[1].v = "v6")
        /\ ~(s[1].v = "name")
    BY <2>2
  <2>4. /\ Fits(s, 1)
        /\ Fits(Tail(s), 4)
    BY <2>1, <2>2 DEF Has
  <2>5. Lacks(Tail(Tail(s)), 2)
    BY <2>1, <2>2 DEF Nothing
  <2>. QED  BY <2>2, <2>3, <2>4, <2>5, Zenon DEF Lacks, Fits, TU!readAddress, TU!Take
<1>13. ASSUME Len(s) >= 3
      PROVE  TU!readAddress(s) = TU!Done([type |-> "socks", host |-> "v4", size |-> 4, port |-> p], Tail(Tail(Tail(s))))
  <2>1. /\ Has(s, 1, "v4")
        /\ Has(Tail(s), 4, 4)
        /\ Has(Tail(Tail(s)), 2, p)
    BY <1>0, <1>2, <1>13
  <2>2. /\ s[1].v = "v4"
        /\ Tail(s)[1].v = 4
        /\ Tail(Tail(s))[1].v = p
    BY <2>1 DEF Has
  <2>3. /\ ~(s[1].v = "v6")
        /\ ~(s[1].v = "name")
    BY <2>2
  <2>4. /\ Fits(s, 1)
        /\ Fits(Tail(s), 4)
        /\ Fits(Tail(Tail(s)), 2)
    BY <2>1, <2>2 DEF Has
  <2>8. TU!readAddress(s) = TU!Done([type |-> "socks", host |-> s[1].v, size |-> 4, port |-> Tail(Tail(s))[1].v], Tail(Tail(Tail(s))))
    BY <2>2, <2>3, <2>4, Zenon DEF Lacks, Fits, TU!readAddress, TU!Take
  <2>. QED  BY <2>2, <2>8
<1>14. Len(s) < Len(e) => TU!readAddress(s) = TU!Short
  <2>1. Len(s) < 3 => Len(s) \in {0, 1, 2}
    BY <1>0, Below
  <2>. QED  BY <1>10, <1>11, <1>12, <2>1
<1>15. Len(e) <= Len(s) => TU!readAddress(s) = TU!Done([type |-> "socks", host |-> "v4", size |-> 4, port |-> p], Tail(Tail(Tail(s)))) /\ Drops(Tail(Tail(Tail(s))), s, Len(e))
  BY <1>0, <1>2, <1>13
<1>. QED  BY <1>14, <1>15, Outcome

LEMMA SocksV6Reads ==
    ASSUME NEW s \in Seq(Fields), NEW p, NEW e, Len(e) = 3, Agrees(s, e),
           Cell(e, 1, 1, "v6"), Cell(e, 2, 16, 16), Cell(e, 3, 2, p)
    PROVE  ReadsAs(TU!readAddress(s), s, [type |-> "socks", host |-> "v6", size |-> 16, port |-> p], e)
<1>0. Len(s) \in Nat
  BY FieldsOf
<1>1. /\ Cursor(s, s, e, 0)
      /\ Cursor(Tail(s), s, e, 1)
      /\ Cursor(Tail(Tail(s)), s, e, 2)
      /\ Cursor(Tail(Tail(Tail(s))), s, e, 3)
  BY Cursors
<1>2. /\ Len(s) = 0 => Nothing(s)
      /\ Len(s) >= 1 => Has(s, 1, "v6")
      /\ Len(s) = 1 => Nothing(Tail(s))
      /\ Len(s) >= 2 => Has(Tail(s), 16, 16)
      /\ Len(s) = 2 => Nothing(Tail(Tail(s)))
      /\ Len(s) >= 3 => Has(Tail(Tail(s)), 2, p)
      /\ Len(s) >= 3 => Drops(Tail(Tail(Tail(s))), s, 3)
  BY <1>0, <1>1 DEF Cursor, Cell
<1>10. ASSUME Len(s) = 0
      PROVE  TU!readAddress(s) = TU!Short
  <2>1. /\ Nothing(s)
    BY <1>0, <1>2, <1>10
  <2>5. Lacks(s, 1)
    BY <2>1 DEF Nothing
  <2>. QED  BY <2>5, Zenon DEF Lacks, Fits, TU!readAddress, TU!Take
<1>11. ASSUME Len(s) = 1
      PROVE  TU!readAddress(s) = TU!Short
  <2>1. /\ Has(s, 1, "v6")
        /\ Nothing(Tail(s))
    BY <1>0, <1>2, <1>11
  <2>2. /\ s[1].v = "v6"
    BY <2>1 DEF Has
  <2>3. /\ ~(s[1].v = "v4")
        /\ ~(s[1].v = "name")
    BY <2>2
  <2>4. /\ Fits(s, 1)
    BY <2>1, <2>2 DEF Has
  <2>5. Lacks(Tail(s), 16)
    BY <2>1, <2>2 DEF Nothing
  <2>. QED  BY <2>2, <2>3, <2>4, <2>5, Zenon DEF Lacks, Fits, TU!readAddress, TU!Take
<1>12. ASSUME Len(s) = 2
      PROVE  TU!readAddress(s) = TU!Short
  <2>1. /\ Has(s, 1, "v6")
        /\ Has(Tail(s), 16, 16)
        /\ Nothing(Tail(Tail(s)))
    BY <1>0, <1>2, <1>12
  <2>2. /\ s[1].v = "v6"
        /\ Tail(s)[1].v = 16
    BY <2>1 DEF Has
  <2>3. /\ ~(s[1].v = "v4")
        /\ ~(s[1].v = "name")
    BY <2>2
  <2>4. /\ Fits(s, 1)
        /\ Fits(Tail(s), 16)
    BY <2>1, <2>2 DEF Has
  <2>5. Lacks(Tail(Tail(s)), 2)
    BY <2>1, <2>2 DEF Nothing
  <2>. QED  BY <2>2, <2>3, <2>4, <2>5, Zenon DEF Lacks, Fits, TU!readAddress, TU!Take
<1>13. ASSUME Len(s) >= 3
      PROVE  TU!readAddress(s) = TU!Done([type |-> "socks", host |-> "v6", size |-> 16, port |-> p], Tail(Tail(Tail(s))))
  <2>1. /\ Has(s, 1, "v6")
        /\ Has(Tail(s), 16, 16)
        /\ Has(Tail(Tail(s)), 2, p)
    BY <1>0, <1>2, <1>13
  <2>2. /\ s[1].v = "v6"
        /\ Tail(s)[1].v = 16
        /\ Tail(Tail(s))[1].v = p
    BY <2>1 DEF Has
  <2>3. /\ ~(s[1].v = "v4")
        /\ ~(s[1].v = "name")
    BY <2>2
  <2>4. /\ Fits(s, 1)
        /\ Fits(Tail(s), 16)
        /\ Fits(Tail(Tail(s)), 2)
    BY <2>1, <2>2 DEF Has
  <2>8. TU!readAddress(s) = TU!Done([type |-> "socks", host |-> s[1].v, size |-> 16, port |-> Tail(Tail(s))[1].v], Tail(Tail(Tail(s))))
    BY <2>2, <2>3, <2>4, Zenon DEF Lacks, Fits, TU!readAddress, TU!Take
  <2>. QED  BY <2>2, <2>8
<1>14. Len(s) < Len(e) => TU!readAddress(s) = TU!Short
  <2>1. Len(s) < 3 => Len(s) \in {0, 1, 2}
    BY <1>0, Below
  <2>. QED  BY <1>10, <1>11, <1>12, <2>1
<1>15. Len(e) <= Len(s) => TU!readAddress(s) = TU!Done([type |-> "socks", host |-> "v6", size |-> 16, port |-> p], Tail(Tail(Tail(s)))) /\ Drops(Tail(Tail(Tail(s))), s, Len(e))
  BY <1>0, <1>2, <1>13
<1>. QED  BY <1>14, <1>15, Outcome

LEMMA SocksNameReads ==
    ASSUME NEW s \in Seq(Fields), NEW p, NEW n \in Nat \ {0}, NEW e, Len(e) = 4, Agrees(s, e),
           Cell(e, 1, 1, "name"), Cell(e, 2, 1, n), Cell(e, 3, n, n), Cell(e, 4, 2, p)
    PROVE  ReadsAs(TU!readAddress(s), s, [type |-> "socks", host |-> "name", size |-> n, port |-> p], e)
<1>0. Len(s) \in Nat
  BY FieldsOf
<1>1. /\ Cursor(s, s, e, 0)
      /\ Cursor(Tail(s), s, e, 1)
      /\ Cursor(Tail(Tail(s)), s, e, 2)
      /\ Cursor(Tail(Tail(Tail(s))), s, e, 3)
      /\ Cursor(Tail(Tail(Tail(Tail(s)))), s, e, 4)
  BY Cursors
<1>2. /\ Len(s) = 0 => Nothing(s)
      /\ Len(s) >= 1 => Has(s, 1, "name")
      /\ Len(s) = 1 => Nothing(Tail(s))
      /\ Len(s) >= 2 => Has(Tail(s), 1, n)
      /\ Len(s) = 2 => Nothing(Tail(Tail(s)))
      /\ Len(s) >= 3 => Has(Tail(Tail(s)), n, n)
      /\ Len(s) = 3 => Nothing(Tail(Tail(Tail(s))))
      /\ Len(s) >= 4 => Has(Tail(Tail(Tail(s))), 2, p)
      /\ Len(s) >= 4 => Drops(Tail(Tail(Tail(Tail(s)))), s, 4)
  BY <1>0, <1>1 DEF Cursor, Cell
<1>10. ASSUME Len(s) = 0
      PROVE  TU!readAddress(s) = TU!Short
  <2>1. /\ Nothing(s)
    BY <1>0, <1>2, <1>10
  <2>5. Lacks(s, 1)
    BY <2>1 DEF Nothing
  <2>. QED  BY <2>5, Zenon DEF Lacks, Fits, TU!readAddress, TU!Take
<1>11. ASSUME Len(s) = 1
      PROVE  TU!readAddress(s) = TU!Short
  <2>1. /\ Has(s, 1, "name")
        /\ Nothing(Tail(s))
    BY <1>0, <1>2, <1>11
  <2>2. /\ s[1].v = "name"
    BY <2>1 DEF Has
  <2>3. /\ ~(s[1].v = "v4")
        /\ ~(s[1].v = "v6")
    BY <2>2
  <2>4. /\ Fits(s, 1)
    BY <2>1, <2>2 DEF Has
  <2>5. Lacks(Tail(s), 1)
    BY <2>1, <2>2 DEF Nothing
  <2>. QED  BY <2>2, <2>3, <2>4, <2>5, Zenon DEF Lacks, Fits, TU!readAddress, TU!Take
<1>12. ASSUME Len(s) = 2
      PROVE  TU!readAddress(s) = TU!Short
  <2>1. /\ Has(s, 1, "name")
        /\ Has(Tail(s), 1, n)
        /\ Nothing(Tail(Tail(s)))
    BY <1>0, <1>2, <1>12
  <2>2. /\ s[1].v = "name"
        /\ Tail(s)[1].v = n
    BY <2>1 DEF Has
  <2>3. /\ ~(s[1].v = "v4")
        /\ ~(s[1].v = "v6")
    BY <2>2
  <2>4. /\ Fits(s, 1)
        /\ Fits(Tail(s), 1)
    BY <2>1, <2>2 DEF Has
  <2>5. Lacks(Tail(Tail(s)), Tail(s)[1].v)
    BY <2>1, <2>2 DEF Nothing
  <2>. QED  BY <2>2, <2>3, <2>4, <2>5, Zenon DEF Lacks, Fits, TU!readAddress, TU!Take
<1>13. ASSUME Len(s) = 3
      PROVE  TU!readAddress(s) = TU!Short
  <2>1. /\ Has(s, 1, "name")
        /\ Has(Tail(s), 1, n)
        /\ Has(Tail(Tail(s)), n, n)
        /\ Nothing(Tail(Tail(Tail(s))))
    BY <1>0, <1>2, <1>13
  <2>2. /\ s[1].v = "name"
        /\ Tail(s)[1].v = n
        /\ Tail(Tail(s))[1].v = n
    BY <2>1 DEF Has
  <2>3. /\ ~(s[1].v = "v4")
        /\ ~(s[1].v = "v6")
    BY <2>2
  <2>4. /\ Fits(s, 1)
        /\ Fits(Tail(s), 1)
        /\ Fits(Tail(Tail(s)), Tail(s)[1].v)
    BY <2>1, <2>2 DEF Has
  <2>5. Lacks(Tail(Tail(Tail(s))), 2)
    BY <2>1, <2>2 DEF Nothing
  <2>. QED  BY <2>2, <2>3, <2>4, <2>5, Zenon DEF Lacks, Fits, TU!readAddress, TU!Take
<1>14. ASSUME Len(s) >= 4
      PROVE  TU!readAddress(s) = TU!Done([type |-> "socks", host |-> "name", size |-> n, port |-> p], Tail(Tail(Tail(Tail(s)))))
  <2>1. /\ Has(s, 1, "name")
        /\ Has(Tail(s), 1, n)
        /\ Has(Tail(Tail(s)), n, n)
        /\ Has(Tail(Tail(Tail(s))), 2, p)
    BY <1>0, <1>2, <1>14
  <2>2. /\ s[1].v = "name"
        /\ Tail(s)[1].v = n
        /\ Tail(Tail(s))[1].v = n
        /\ Tail(Tail(Tail(s)))[1].v = p
    BY <2>1 DEF Has
  <2>3. /\ ~(s[1].v = "v4")
        /\ ~(s[1].v = "v6")
    BY <2>2
  <2>4. /\ Fits(s, 1)
        /\ Fits(Tail(s), 1)
        /\ Fits(Tail(Tail(s)), Tail(s)[1].v)
        /\ Fits(Tail(Tail(Tail(s))), 2)
    BY <2>1, <2>2 DEF Has
  <2>8. TU!readAddress(s) = TU!Done([type |-> "socks", host |-> s[1].v, size |-> Tail(s)[1].v, port |-> Tail(Tail(Tail(s)))[1].v], Tail(Tail(Tail(Tail(s)))))
    BY <2>2, <2>3, <2>4, Zenon DEF Lacks, Fits, TU!readAddress, TU!Take
  <2>. QED  BY <2>2, <2>8
<1>15. Len(s) < Len(e) => TU!readAddress(s) = TU!Short
  <2>1. Len(s) < 4 => Len(s) \in {0, 1, 2, 3}
    BY <1>0, Below
  <2>. QED  BY <1>10, <1>11, <1>12, <1>13, <2>1
<1>16. Len(e) <= Len(s) => TU!readAddress(s) = TU!Done([type |-> "socks", host |-> "name", size |-> n, port |-> p], Tail(Tail(Tail(Tail(s))))) /\ Drops(Tail(Tail(Tail(Tail(s)))), s, Len(e))
  BY <1>0, <1>2, <1>14
<1>. QED  BY <1>15, <1>16, Outcome

LEMMA AcceptReads ==
    ASSUME NEW s \in Seq(Fields), NEW tok \in Nat \ {0}, NEW id, NEW e, Len(e) = 4, Agrees(s, e),
           Cell(e, 1, 4, "magic"), Cell(e, 2, 1, TU!CommandAccept), Cell(e, 3, 32, tok), Cell(e, 4, 8, id)
    PROVE  ReadsAs(TU!ReadSessionHeader(s), s, [type |-> "accept", token |-> tok, stream |-> id], e)
<1>0. Len(s) \in Nat
  BY FieldsOf
<1>1. /\ Cursor(s, s, e, 0)
      /\ Cursor(Tail(s), s, e, 1)
      /\ Cursor(Tail(Tail(s)), s, e, 2)
      /\ Cursor(Tail(Tail(Tail(s))), s, e, 3)
      /\ Cursor(Tail(Tail(Tail(Tail(s)))), s, e, 4)
  BY Cursors
<1>2. /\ Len(s) = 0 => Nothing(s)
      /\ Len(s) >= 1 => Has(s, 4, "magic")
      /\ Len(s) = 1 => Nothing(Tail(s))
      /\ Len(s) >= 2 => Has(Tail(s), 1, TU!CommandAccept)
      /\ Len(s) = 2 => Nothing(Tail(Tail(s)))
      /\ Len(s) >= 3 => Has(Tail(Tail(s)), 32, tok)
      /\ Len(s) = 3 => Nothing(Tail(Tail(Tail(s))))
      /\ Len(s) >= 4 => Has(Tail(Tail(Tail(s))), 8, id)
      /\ Len(s) >= 4 => Drops(Tail(Tail(Tail(Tail(s)))), s, 4)
  BY <1>0, <1>1 DEF Cursor, Cell
<1>3. /\ Len(s) \in {0, 1, 2} => TU!Width(s) < 37
      /\ Len(s) >= 3 => ~(TU!Width(s) < 37)
  <2>1. \A i \in 1..3 : i <= Len(s) => s[i] = e[i]
    BY DEF Agrees
  <2>2. /\ Len(s) >= 1 => s[1].w = 4
        /\ Len(s) >= 2 => s[2].w = 1
        /\ Len(s) >= 3 => s[3].w = 32
    BY <1>0, <2>1 DEF Cell
  <2>3. /\ TU!Width(s) \in Nat
        /\ Len(s) = 0 => TU!Width(s) = 0
        /\ Len(s) = 1 => TU!Width(s) = s[1].w
        /\ Len(s) = 2 => TU!Width(s) = s[1].w + s[2].w
        /\ Len(s) >= 3 => TU!Width(s) >= s[1].w + s[2].w + s[3].w
    BY WidthOf
  <2>4. Len(s) = 0 => TU!Width(s) < 37
    BY ONLY <2>3
  <2>5. Len(s) = 1 => TU!Width(s) = 4
    BY ONLY <2>2, <2>3
  <2>6. Len(s) = 2 => TU!Width(s) = 5
    BY ONLY <2>2, <2>3
  <2>7. Len(s) >= 3 => TU!Width(s) >= 37
    <3>1. Len(s) >= 3 => s[1].w = 4 /\ s[2].w = 1 /\ s[3].w = 32
      BY ONLY <1>0, <2>2
    <3>. QED  BY ONLY <2>3, <3>1
  <2>8. TU!Width(s) \in Nat
    BY ONLY <2>3
  <2>. QED  BY ONLY <1>0, <2>4, <2>5, <2>6, <2>7, <2>8
<1>10. ASSUME Len(s) = 0
      PROVE  TU!ReadSessionHeader(s) = TU!Short
  <2>1. TU!Width(s) < 37
    BY <1>10, <1>3
  <2>. QED  BY <2>1, Zenon DEF Lacks, Fits, TU!ReadSessionHeader, TU!Take, TU!ReadAcceptStreamID
<1>11. ASSUME Len(s) = 1
      PROVE  TU!ReadSessionHeader(s) = TU!Short
  <2>1. TU!Width(s) < 37
    BY <1>11, <1>3
  <2>. QED  BY <2>1, Zenon DEF Lacks, Fits, TU!ReadSessionHeader, TU!Take, TU!ReadAcceptStreamID
<1>12. ASSUME Len(s) = 2
      PROVE  TU!ReadSessionHeader(s) = TU!Short
  <2>1. TU!Width(s) < 37
    BY <1>12, <1>3
  <2>. QED  BY <2>1, Zenon DEF Lacks, Fits, TU!ReadSessionHeader, TU!Take, TU!ReadAcceptStreamID
<1>13. ASSUME Len(s) = 3
      PROVE  TU!ReadSessionHeader(s) = TU!Short
  <2>1. /\ Has(s, 4, "magic")
        /\ Has(Tail(s), 1, TU!CommandAccept)
        /\ Has(Tail(Tail(s)), 32, tok)
        /\ Nothing(Tail(Tail(Tail(s))))
    BY <1>0, <1>2, <1>13
  <2>2. /\ s[1].v = "magic"
        /\ Tail(s)[1].v = TU!CommandAccept
        /\ Tail(Tail(s))[1].v = tok
    BY <2>1 DEF Has
  <2>3. /\ ~(Tail(Tail(s))[1].v = 0)
    BY <2>2
  <2>4. /\ Fits(s, 4)
        /\ Fits(Tail(s), 1)
        /\ Fits(Tail(Tail(s)), 32)
    BY <2>1, <2>2 DEF Has
  <2>5. Lacks(Tail(Tail(Tail(s))), 8)
    BY <2>1, <2>2 DEF Nothing
  <2>6. /\ ~(TU!Width(s) < 37)
    BY <1>0, <1>13, <1>3
  <2>. QED  BY <2>2, <2>3, <2>4, <2>5, <2>6, Zenon DEF Lacks, Fits, TU!ReadSessionHeader, TU!Take, TU!ReadAcceptStreamID
<1>14. ASSUME Len(s) >= 4
      PROVE  TU!ReadSessionHeader(s) = TU!Done([type |-> "accept", token |-> tok, stream |-> id], Tail(Tail(Tail(Tail(s)))))
  <2>1. /\ Has(s, 4, "magic")
        /\ Has(Tail(s), 1, TU!CommandAccept)
        /\ Has(Tail(Tail(s)), 32, tok)
        /\ Has(Tail(Tail(Tail(s))), 8, id)
    BY <1>0, <1>2, <1>14
  <2>2. /\ s[1].v = "magic"
        /\ Tail(s)[1].v = TU!CommandAccept
        /\ Tail(Tail(s))[1].v = tok
        /\ Tail(Tail(Tail(s)))[1].v = id
    BY <2>1 DEF Has
  <2>3. /\ ~(Tail(Tail(s))[1].v = 0)
    BY <2>2
  <2>4. /\ Fits(s, 4)
        /\ Fits(Tail(s), 1)
        /\ Fits(Tail(Tail(s)), 32)
        /\ Fits(Tail(Tail(Tail(s))), 8)
    BY <2>1, <2>2 DEF Has
  <2>6. /\ ~(TU!Width(s) < 37)
    BY <1>0, <1>14, <1>3
  <2>8. TU!ReadSessionHeader(s) = TU!Done([type |-> "accept", token |-> Tail(Tail(s))[1].v, stream |-> Tail(Tail(Tail(s)))[1].v], Tail(Tail(Tail(Tail(s)))))
    BY <2>2, <2>3, <2>4, <2>6, Zenon DEF Lacks, Fits, TU!ReadSessionHeader, TU!Take, TU!ReadAcceptStreamID
  <2>. QED  BY <2>2, <2>8
<1>15. Len(s) < Len(e) => TU!ReadSessionHeader(s) = TU!Short
  <2>1. Len(s) < 4 => Len(s) \in {0, 1, 2, 3}
    BY <1>0, Below
  <2>. QED  BY <1>10, <1>11, <1>12, <1>13, <2>1
<1>16. Len(e) <= Len(s) => TU!ReadSessionHeader(s) = TU!Done([type |-> "accept", token |-> tok, stream |-> id], Tail(Tail(Tail(Tail(s))))) /\ Drops(Tail(Tail(Tail(Tail(s)))), s, Len(e))
  BY <1>0, <1>2, <1>14
<1>. QED  BY <1>15, <1>16, Outcome

LEMMA OpenReads ==
    ASSUME NEW s \in Seq(Fields), NEW tok \in Nat \ {0}, NEW c \in {1, 2}, NEW n \in Nat \ {0}, n \in 1..TU!maxHostSize,
           NEW p \in Nat \ {0}, NEW e, Len(e) = 6, Agrees(s, e),
           Cell(e, 1, 4, "magic"), Cell(e, 2, 1, c), Cell(e, 3, 32, tok), Cell(e, 4, 2, n), Cell(e, 5, n, n), Cell(e, 6, 2, p)
    PROVE  ReadsAs(TU!ReadSessionHeader(s), s, [type |-> "open", token |-> tok, command |-> c, host |-> n, port |-> p], e)
<1>0. Len(s) \in Nat
  BY FieldsOf
<1>1. /\ Cursor(s, s, e, 0)
      /\ Cursor(Tail(s), s, e, 1)
      /\ Cursor(Tail(Tail(s)), s, e, 2)
      /\ Cursor(Tail(Tail(Tail(s))), s, e, 3)
      /\ Cursor(Tail(Tail(Tail(Tail(s)))), s, e, 4)
      /\ Cursor(Tail(Tail(Tail(Tail(Tail(s))))), s, e, 5)
      /\ Cursor(Tail(Tail(Tail(Tail(Tail(Tail(s)))))), s, e, 6)
  BY Cursors
<1>2. /\ Len(s) = 0 => Nothing(s)
      /\ Len(s) >= 1 => Has(s, 4, "magic")
      /\ Len(s) = 1 => Nothing(Tail(s))
      /\ Len(s) >= 2 => Has(Tail(s), 1, c)
      /\ Len(s) = 2 => Nothing(Tail(Tail(s)))
      /\ Len(s) >= 3 => Has(Tail(Tail(s)), 32, tok)
      /\ Len(s) = 3 => Nothing(Tail(Tail(Tail(s))))
      /\ Len(s) >= 4 => Has(Tail(Tail(Tail(s))), 2, n)
      /\ Len(s) = 4 => Nothing(Tail(Tail(Tail(Tail(s)))))
      /\ Len(s) >= 5 => Has(Tail(Tail(Tail(Tail(s)))), n, n)
      /\ Len(s) = 5 => Nothing(Tail(Tail(Tail(Tail(Tail(s))))))
      /\ Len(s) >= 6 => Has(Tail(Tail(Tail(Tail(Tail(s))))), 2, p)
      /\ Len(s) >= 6 => Drops(Tail(Tail(Tail(Tail(Tail(Tail(s)))))), s, 6)
  BY <1>0, <1>1, SMTT(30) DEF Cursor, Cell
<1>3. /\ Len(s) \in {0, 1, 2} => TU!Width(s) < 37
      /\ Len(s) >= 3 => ~(TU!Width(s) < 37)
  <2>1. \A i \in 1..3 : i <= Len(s) => s[i] = e[i]
    BY DEF Agrees
  <2>2. /\ Len(s) >= 1 => s[1].w = 4
        /\ Len(s) >= 2 => s[2].w = 1
        /\ Len(s) >= 3 => s[3].w = 32
    BY <1>0, <2>1 DEF Cell
  <2>3. /\ TU!Width(s) \in Nat
        /\ Len(s) = 0 => TU!Width(s) = 0
        /\ Len(s) = 1 => TU!Width(s) = s[1].w
        /\ Len(s) = 2 => TU!Width(s) = s[1].w + s[2].w
        /\ Len(s) >= 3 => TU!Width(s) >= s[1].w + s[2].w + s[3].w
    BY WidthOf
  <2>4. Len(s) = 0 => TU!Width(s) < 37
    BY ONLY <2>3
  <2>5. Len(s) = 1 => TU!Width(s) = 4
    BY ONLY <2>2, <2>3
  <2>6. Len(s) = 2 => TU!Width(s) = 5
    BY ONLY <2>2, <2>3
  <2>7. Len(s) >= 3 => TU!Width(s) >= 37
    <3>1. Len(s) >= 3 => s[1].w = 4 /\ s[2].w = 1 /\ s[3].w = 32
      BY ONLY <1>0, <2>2
    <3>. QED  BY ONLY <2>3, <3>1
  <2>8. TU!Width(s) \in Nat
    BY ONLY <2>3
  <2>. QED  BY ONLY <1>0, <2>4, <2>5, <2>6, <2>7, <2>8
<1>4. /\ Len(s) \in {4, 5} => TU!Width(Tail(Tail(Tail(Tail(s))))) < n + 2
      /\ Len(s) >= 6 => ~(TU!Width(Tail(Tail(Tail(Tail(s))))) < n + 2)
  <2>0. SUFFICES ASSUME Len(s) >= 4
                 PROVE  /\ Len(s) \in {4, 5} => TU!Width(Tail(Tail(Tail(Tail(s))))) < n + 2
                        /\ Len(s) >= 6 => ~(TU!Width(Tail(Tail(Tail(Tail(s))))) < n + 2)
    <3>1. \A l \in Nat : (l \in {4, 5} => l >= 4) /\ (l >= 6 => l >= 4)
      OBVIOUS
    <3>. QED  BY <1>0, <3>1
  <2> DEFINE t == Tail(Tail(Tail(Tail(s))))
  <2>1. Drops(t, s, 4)
    BY <1>1, <2>0 DEF Cursor
  <2>. HIDE DEF t
  <2>2. t \in Seq(Fields) /\ Len(t) = Len(s) - 4 /\ \A i \in 1..Len(t) : t[i] = s[4 + i]
    BY <2>1 DEF Drops
  <2>3. (Len(s) >= 5 => s[5] = e[5]) /\ (Len(s) >= 6 => s[6] = e[6])
    BY <1>0 DEF Agrees
  <2>4. (Len(t) >= 1 => t[1] = s[4 + 1]) /\ (Len(t) >= 2 => t[2] = s[4 + 2])
    BY <1>0, <2>2
  <2>5. (Len(t) >= 1 => t[1].w = n) /\ (Len(t) >= 2 => t[2].w = 2)
    BY <1>0, <2>2, <2>3, <2>4 DEF Cell
  <2>6. /\ TU!Width(t) \in Nat
        /\ Len(t) = 0 => TU!Width(t) = 0
        /\ Len(t) = 1 => TU!Width(t) = t[1].w
        /\ Len(t) >= 2 => TU!Width(t) >= t[1].w + t[2].w
    BY <2>2, WidthOf
  <2>7. (Len(s) \in {4, 5} => Len(t) \in {0, 1}) /\ (Len(s) >= 6 => Len(t) >= 2)
    BY <1>0, <2>2, SMTT(30)
  <2>8. Len(t) \in {0, 1} => TU!Width(t) < n + 2
    BY <2>5, <2>6, SMTT(30)
  <2>9. Len(t) >= 2 => ~(TU!Width(t) < n + 2)
    <3>1. Len(t) \in Nat /\ TU!Width(t) \in Nat
      BY <1>0, <2>2, <2>6, FieldsOf
    <3>2. Len(t) >= 2 => TU!Width(t) >= n + 2
      BY ONLY <2>5, <2>6, <3>1
    <3>. QED  BY ONLY <3>1, <3>2, n \in Nat \ {0}
  <2>. QED  BY <2>7, <2>8, <2>9 DEF t
<1>5. c # TU!CommandAccept /\ ~(n \notin 1..TU!maxHostSize) /\ tok # 0 /\ p # 0
  <2>1. c # TU!CommandAccept
    BY DEF TU!CommandAccept
  <2>. QED  BY <2>1
<1>10. ASSUME Len(s) = 0
      PROVE  TU!ReadSessionHeader(s) = TU!Short
  <2>1. TU!Width(s) < 37
    BY <1>10, <1>3, <1>4
  <2>. QED  BY <2>1, Zenon DEF Lacks, Fits, TU!ReadSessionHeader, TU!Take, TU!ReadOpenBody
<1>11. ASSUME Len(s) = 1
      PROVE  TU!ReadSessionHeader(s) = TU!Short
  <2>1. TU!Width(s) < 37
    BY <1>11, <1>3, <1>4
  <2>. QED  BY <2>1, Zenon DEF Lacks, Fits, TU!ReadSessionHeader, TU!Take, TU!ReadOpenBody
<1>12. ASSUME Len(s) = 2
      PROVE  TU!ReadSessionHeader(s) = TU!Short
  <2>1. TU!Width(s) < 37
    BY <1>12, <1>3, <1>4
  <2>. QED  BY <2>1, Zenon DEF Lacks, Fits, TU!ReadSessionHeader, TU!Take, TU!ReadOpenBody
<1>13. ASSUME Len(s) = 3
      PROVE  TU!ReadSessionHeader(s) = TU!Short
  <2>1. /\ Has(s, 4, "magic")
        /\ Has(Tail(s), 1, c)
        /\ Has(Tail(Tail(s)), 32, tok)
        /\ Nothing(Tail(Tail(Tail(s))))
    BY <1>0, <1>2, <1>13
  <2>2. /\ s[1].v = "magic"
        /\ Tail(s)[1].v = c
        /\ Tail(Tail(s))[1].v = tok
    BY <2>1 DEF Has
  <2>3. /\ ~(Tail(s)[1].v = TU!CommandAccept)
        /\ Tail(s)[1].v \in {1, 2}
        /\ ~(Tail(Tail(s))[1].v = 0)
    BY <2>2, <1>5
  <2>4. /\ Fits(s, 4)
        /\ Fits(Tail(s), 1)
        /\ Fits(Tail(Tail(s)), 32)
    BY <2>1, <2>2 DEF Has
  <2>5. Lacks(Tail(Tail(Tail(s))), 2)
    BY <2>1, <2>2 DEF Nothing
  <2>6. /\ ~(TU!Width(s) < 37)
    BY <1>0, <1>13, <1>3, <1>4
  <2>. QED  BY <2>2, <2>3, <2>4, <2>5, <2>6, Zenon DEF Lacks, Fits, TU!ReadSessionHeader, TU!Take, TU!ReadOpenBody
<1>14. ASSUME Len(s) = 4
      PROVE  TU!ReadSessionHeader(s) = TU!Short
  <2>1. /\ Has(s, 4, "magic")
        /\ Has(Tail(s), 1, c)
        /\ Has(Tail(Tail(s)), 32, tok)
        /\ Has(Tail(Tail(Tail(s))), 2, n)
        /\ Nothing(Tail(Tail(Tail(Tail(s)))))
    BY <1>0, <1>2, <1>14
  <2>2. /\ s[1].v = "magic"
        /\ Tail(s)[1].v = c
        /\ Tail(Tail(s))[1].v = tok
        /\ Tail(Tail(Tail(s)))[1].v = n
    BY <2>1 DEF Has
  <2>3. /\ ~(Tail(s)[1].v = TU!CommandAccept)
        /\ Tail(s)[1].v \in {1, 2}
        /\ ~(Tail(Tail(s))[1].v = 0)
        /\ ~(Tail(Tail(Tail(s)))[1].v \notin 1..TU!maxHostSize)
    BY <2>2, <1>5
  <2>4. /\ Fits(s, 4)
        /\ Fits(Tail(s), 1)
        /\ Fits(Tail(Tail(s)), 32)
        /\ Fits(Tail(Tail(Tail(s))), 2)
    BY <2>1, <2>2 DEF Has
  <2>6. /\ ~(TU!Width(s) < 37)
        /\ TU!Width(Tail(Tail(Tail(Tail(s))))) < n + 2
    BY <1>0, <1>14, <1>3, <1>4
  <2>7. /\ ~(TU!Width(s) < 37)
        /\ TU!Width(Tail(Tail(Tail(Tail(s))))) < Tail(Tail(Tail(s)))[1].v + 2
    BY <2>2, <2>6
  <2>. QED  BY <2>2, <2>3, <2>4, <2>7, Zenon DEF Lacks, Fits, TU!ReadSessionHeader, TU!Take, TU!ReadOpenBody
<1>15. ASSUME Len(s) = 5
      PROVE  TU!ReadSessionHeader(s) = TU!Short
  <2>1. /\ Has(s, 4, "magic")
        /\ Has(Tail(s), 1, c)
        /\ Has(Tail(Tail(s)), 32, tok)
        /\ Has(Tail(Tail(Tail(s))), 2, n)
        /\ Has(Tail(Tail(Tail(Tail(s)))), n, n)
        /\ Nothing(Tail(Tail(Tail(Tail(Tail(s))))))
    BY <1>0, <1>2, <1>15
  <2>2. /\ s[1].v = "magic"
        /\ Tail(s)[1].v = c
        /\ Tail(Tail(s))[1].v = tok
        /\ Tail(Tail(Tail(s)))[1].v = n
        /\ Tail(Tail(Tail(Tail(s))))[1].v = n
    BY <2>1 DEF Has
  <2>3. /\ ~(Tail(s)[1].v = TU!CommandAccept)
        /\ Tail(s)[1].v \in {1, 2}
        /\ ~(Tail(Tail(s))[1].v = 0)
        /\ ~(Tail(Tail(Tail(s)))[1].v \notin 1..TU!maxHostSize)
    BY <2>2, <1>5
  <2>4. /\ Fits(s, 4)
        /\ Fits(Tail(s), 1)
        /\ Fits(Tail(Tail(s)), 32)
        /\ Fits(Tail(Tail(Tail(s))), 2)
        /\ Fits(Tail(Tail(Tail(Tail(s)))), Tail(Tail(Tail(s)))[1].v)
    BY <2>1, <2>2 DEF Has
  <2>6. /\ ~(TU!Width(s) < 37)
        /\ TU!Width(Tail(Tail(Tail(Tail(s))))) < n + 2
    BY <1>0, <1>15, <1>3, <1>4
  <2>7. /\ ~(TU!Width(s) < 37)
        /\ TU!Width(Tail(Tail(Tail(Tail(s))))) < Tail(Tail(Tail(s)))[1].v + 2
    BY <2>2, <2>6
  <2>. QED  BY <2>2, <2>3, <2>4, <2>7, Zenon DEF Lacks, Fits, TU!ReadSessionHeader, TU!Take, TU!ReadOpenBody
<1>16. ASSUME Len(s) >= 6
      PROVE  TU!ReadSessionHeader(s) = TU!Done([type |-> "open", token |-> tok, command |-> c, host |-> n, port |-> p], Tail(Tail(Tail(Tail(Tail(Tail(s)))))))
  <2>1. /\ Has(s, 4, "magic")
        /\ Has(Tail(s), 1, c)
        /\ Has(Tail(Tail(s)), 32, tok)
        /\ Has(Tail(Tail(Tail(s))), 2, n)
        /\ Has(Tail(Tail(Tail(Tail(s)))), n, n)
        /\ Has(Tail(Tail(Tail(Tail(Tail(s))))), 2, p)
    BY <1>0, <1>2, <1>16
  <2>2. /\ s[1].v = "magic"
        /\ Tail(s)[1].v = c
        /\ Tail(Tail(s))[1].v = tok
        /\ Tail(Tail(Tail(s)))[1].v = n
        /\ Tail(Tail(Tail(Tail(s))))[1].v = n
        /\ Tail(Tail(Tail(Tail(Tail(s)))))[1].v = p
    BY <2>1 DEF Has
  <2>3. /\ ~(Tail(s)[1].v = TU!CommandAccept)
        /\ Tail(s)[1].v \in {1, 2}
        /\ ~(Tail(Tail(s))[1].v = 0)
        /\ ~(Tail(Tail(Tail(s)))[1].v \notin 1..TU!maxHostSize)
        /\ ~(Tail(Tail(Tail(Tail(Tail(s)))))[1].v = 0)
    BY <2>2, <1>5
  <2>4. /\ Fits(s, 4)
        /\ Fits(Tail(s), 1)
        /\ Fits(Tail(Tail(s)), 32)
        /\ Fits(Tail(Tail(Tail(s))), 2)
        /\ Fits(Tail(Tail(Tail(Tail(s)))), Tail(Tail(Tail(s)))[1].v)
        /\ Fits(Tail(Tail(Tail(Tail(Tail(s))))), 2)
    BY <2>1, <2>2 DEF Has
  <2>6. /\ ~(TU!Width(s) < 37)
        /\ ~(TU!Width(Tail(Tail(Tail(Tail(s))))) < n + 2)
    BY <1>0, <1>16, <1>3, <1>4
  <2>7. /\ ~(TU!Width(s) < 37)
        /\ ~(TU!Width(Tail(Tail(Tail(Tail(s))))) < Tail(Tail(Tail(s)))[1].v + 2)
    BY <2>2, <2>6
  <2>8. TU!ReadSessionHeader(s) = TU!Done([type |-> "open", token |-> Tail(Tail(s))[1].v, command |-> Tail(s)[1].v, host |-> Tail(Tail(Tail(Tail(s))))[1].v, port |-> Tail(Tail(Tail(Tail(Tail(s)))))[1].v], Tail(Tail(Tail(Tail(Tail(Tail(s)))))))
    BY <2>2, <2>3, <2>4, <2>7, Zenon DEF Lacks, Fits, TU!ReadSessionHeader, TU!Take, TU!ReadOpenBody
  <2>. QED  BY <2>2, <2>8
<1>17. Len(s) < Len(e) => TU!ReadSessionHeader(s) = TU!Short
  <2>1. Len(s) < 6 => Len(s) \in {0, 1, 2, 3, 4, 5}
    BY <1>0, Below
  <2>. QED  BY <1>10, <1>11, <1>12, <1>13, <1>14, <1>15, <2>1
<1>18. Len(e) <= Len(s) => TU!ReadSessionHeader(s) = TU!Done([type |-> "open", token |-> tok, command |-> c, host |-> n, port |-> p], Tail(Tail(Tail(Tail(Tail(Tail(s))))))) /\ Drops(Tail(Tail(Tail(Tail(Tail(Tail(s)))))), s, Len(e))
  BY <1>0, <1>2, <1>16
<1>. QED  BY <1>17, <1>18, Outcome

(* What is left after a message is what is left after its fields.          *)
LEMMA DropTwice ==
    ASSUME NEW s \in Seq(Fields), NEW t, NEW r, NEW k \in Nat, NEW j \in Nat,
           Drops(t, s, k), Drops(r, t, j)
    PROVE  Drops(r, s, k + j)
<1>0. Len(s) \in Nat /\ t \in Seq(Fields) /\ Len(t) = Len(s) - k /\ \A i \in 1..Len(t) : t[i] = s[k + i]
  BY FieldsOf DEF Drops
<1>1. r \in Seq(Fields) /\ Len(r) = Len(t) - j /\ (\A i \in 1..Len(r) : r[i] = t[j + i]) /\ Len(r) \in Nat
  BY FieldsOf DEF Drops
<1>2. ASSUME NEW i \in 1..Len(r)
      PROVE  r[i] = s[(k + j) + i]
  <2>1. r[i] = t[j + i] /\ j + i \in 1..Len(t)
    BY <1>0, <1>1
  <2>2. t[j + i] = s[k + (j + i)] /\ k + (j + i) = (k + j) + i
    BY <1>0, <2>1
  <2>. QED  BY <2>1, <2>2
<1>3. Len(r) = Len(s) - (k + j)
  BY <1>0, <1>1
<1>. QED  BY <1>1, <1>2, <1>3 DEF Drops

(* The body of a control message is cut where the writer ended it.         *)
LEMMA BodyCut ==
    ASSUME NEW t \in Seq(Fields), NEW b \in Seq(Fields), Agrees(t, b)
    PROVE  /\ Len(t) < Len(b) => TU!Width(t) < TU!Width(b)
           /\ Len(b) <= Len(t) => /\ ~(TU!Width(t) < TU!Width(b))
                                  /\ TU!Cut(t, TU!Width(b)) = {Len(b)}
                                  /\ SubSeq(t, 1, Len(b)) = b
                                  /\ Drops(TU!Rest(t, Len(b)), t, Len(b))
<1>0. Len(t) \in Nat /\ Len(b) \in Nat /\ TU!Width(t) \in Nat /\ TU!Width(b) \in Nat
  BY FieldsOf, WidthOf
<1>1. ASSUME Len(t) < Len(b)  PROVE TU!Width(t) < TU!Width(b)
  <2>1. \A i \in 1..Len(t) : t[i] = b[i]
    BY <1>0, <1>1 DEF Agrees
  <2>. QED  BY <1>0, <1>1, <2>1, WidthOrder
<1>2. ASSUME Len(b) <= Len(t)
      PROVE  /\ ~(TU!Width(t) < TU!Width(b))
             /\ TU!Cut(t, TU!Width(b)) = {Len(b)}
             /\ SubSeq(t, 1, Len(b)) = b
             /\ Drops(TU!Rest(t, Len(b)), t, Len(b))
  <2>1. \A i \in 1..Len(b) : b[i] = t[i]
    BY <1>0, <1>2 DEF Agrees
  <2>2. ~(TU!Width(t) < TU!Width(b))
    <3>1. TU!Width(b) <= TU!Width(t)
      BY <1>2, <2>1, WidthOrder
    <3>. QED  BY <1>0, <3>1
  <2>3. \A k \in 0..Len(t) : /\ SubSeq(t, 1, k) \in Seq(Fields) /\ Len(SubSeq(t, 1, k)) = k
                             /\ \A i \in 1..k : SubSeq(t, 1, k)[i] = t[i]
    BY <1>0
  <2>4. SubSeq(t, 1, Len(b)) = b
    <3> DEFINE u == SubSeq(t, 1, Len(b))
    <3>1. u \in Seq(Fields) /\ Len(u) = Len(b) /\ \A i \in 1..Len(b) : u[i] = b[i]
      BY <1>0, <1>2, <2>1, <2>3
    <3>. HIDE DEF u
    <3>2. u = b
      BY <3>1, SeqEqual
    <3>. QED  BY <3>2 DEF u
  <2>5. ASSUME NEW k \in 0..Len(t), k # Len(b)
        PROVE  TU!Width(SubSeq(t, 1, k)) # TU!Width(b)
    <3> DEFINE u == SubSeq(t, 1, k)
    <3>1. u \in Seq(Fields) /\ Len(u) = k /\ \A i \in 1..k : u[i] = t[i]
      BY <2>3
    <3>. HIDE DEF u
    <3>2. TU!Width(u) \in Nat
      BY <3>1, WidthOf
    <3>3. CASE k < Len(b)
      <4>1. \A i \in 1..Len(u) : u[i] = b[i]
        BY <1>0, <2>1, <3>1, <3>3
      <4>2. TU!Width(u) < TU!Width(b)
        BY <3>1, <3>3, <4>1, WidthOrder, SMTT(30)
      <4>. QED  BY <1>0, <3>2, <4>2 DEF u
    <3>4. CASE Len(b) < k
      <4>1. \A i \in 1..Len(b) : b[i] = u[i]
        BY <1>0, <2>1, <3>1, <3>4
      <4>2. TU!Width(b) < TU!Width(u)
        BY <3>1, <3>4, <4>1, WidthOrder
      <4>. QED  BY <1>0, <3>2, <4>2 DEF u
    <3>. QED  BY <1>0, <2>5, <3>3, <3>4
  <2>6. TU!Cut(t, TU!Width(b)) = {Len(b)}
    <3>1. Len(b) \in 0..Len(t)
      BY <1>0, <1>2
    <3>2. TU!Width(SubSeq(t, 1, Len(b))) = TU!Width(b)
      BY <2>4, Zenon
    <3>. QED  BY <2>5, <3>1, <3>2, Zenon DEF TU!Cut
  <2>7. Drops(TU!Rest(t, Len(b)), t, Len(b))
    <3> DEFINE u == SubSeq(t, Len(b) + 1, Len(t))
    <3>1. u \in Seq(Fields) /\ Len(u) = Len(t) - Len(b) /\ \A i \in 1..Len(u) : u[i] = t[Len(b) + i]
      BY <1>0, <1>2
    <3>. HIDE DEF u
    <3>2. Drops(u, t, Len(b))
      BY <3>1 DEF Drops
    <3>. QED  BY <3>2 DEF u, TU!Rest
  <2>. QED  BY <2>2, <2>4, <2>6, <2>7
<1>. QED  BY <1>1, <1>2

(* A control message: its type, the size of its body, its body b.          *)
Framed(e, ty, b) ==
    /\ Len(e) = Len(b) + 2 /\ Cell(e, 1, 1, ty) /\ Cell(e, 2, 2, TU!Width(b))
    /\ \A i \in 1..Len(b) : e[2 + i] = b[i]

LEMMA FrameReads ==
    ASSUME NEW s \in Seq(Fields), NEW b \in Seq(Fields), NEW ty, NEW e, Framed(e, ty, b), Agrees(s, e)
    PROVE  /\ Len(s) \in {0, 1} => TU!ReadControlMessage(s) = TU!Short
           /\ Len(s) >= 2 =>
                /\ Fits(s, 1) /\ s[1].v = ty /\ Fits(Tail(s), 2) /\ Tail(s)[1].v = TU!Width(b)
                /\ Drops(Tail(Tail(s)), s, 2) /\ Agrees(Tail(Tail(s)), b)
<1>0. Len(s) \in Nat /\ Len(b) \in Nat /\ Len(e) \in Nat /\ Len(e) >= 2
  BY FieldsOf DEF Framed
<1>1. Cursor(s, s, e, 0) /\ Cursor(Tail(s), s, e, 1) /\ Cursor(Tail(Tail(s)), s, e, 2)
  BY <1>0, Cursors
<1>2. /\ Len(s) = 0 => Nothing(s)
      /\ Len(s) >= 1 => Has(s, 1, ty)
      /\ Len(s) = 1 => Nothing(Tail(s))
      /\ Len(s) >= 2 => Has(Tail(s), 2, TU!Width(b)) /\ Drops(Tail(Tail(s)), s, 2)
  BY <1>0, <1>1 DEF Cursor, Cell, Framed
<1>3. ASSUME Len(s) = 0  PROVE TU!ReadControlMessage(s) = TU!Short
  <2>1. Lacks(s, 1)
    BY <1>2, <1>3 DEF Nothing
  <2>. QED  BY <2>1, Zenon DEF Lacks, TU!ReadControlMessage, TU!Take
<1>4. ASSUME Len(s) = 1  PROVE TU!ReadControlMessage(s) = TU!Short
  <2>1. Fits(s, 1) /\ Lacks(Tail(s), 2)
    BY <1>2, <1>4 DEF Nothing, Has
  <2>. QED  BY <2>1, Zenon DEF Lacks, Fits, TU!ReadControlMessage, TU!Take
<1>5. ASSUME Len(s) >= 2  PROVE Agrees(Tail(Tail(s)), b)
  <2> DEFINE t == Tail(Tail(s))
  <2>1. t \in Seq(Fields) /\ Len(t) = Len(s) - 2 /\ \A i \in 1..Len(t) : t[i] = s[2 + i]
    BY <1>2, <1>5 DEF Drops
  <2>. HIDE DEF t
  <2>2. ASSUME NEW i \in 1..Len(b), i <= Len(t)  PROVE t[i] = b[i]
    <3>1. t[i] = s[2 + i] /\ 2 + i \in 1..Len(e) /\ 2 + i <= Len(s)
      BY <1>0, <2>1, <2>2 DEF Framed
    <3>. QED  BY <3>1 DEF Agrees, Framed
  <2>. QED  BY <2>2 DEF Agrees, t
<1>. QED  BY <1>0, <1>2, <1>3, <1>4, <1>5 DEF Has

LEMMA ControlReads ==
    ASSUME NEW s \in Seq(Fields), NEW b \in Seq(Fields), NEW ty, NEW e, Framed(e, ty, b), Agrees(s, e),
           NEW m, ~(TU!Width(b) > TU!MaxControlSize), TU!DecodePayload(ty, b) = TU!Done(m, <<>>)
    PROVE  ReadsAs(TU!ReadControlMessage(s), s, m, e)
<1>0. Len(s) \in Nat /\ Len(b) \in Nat /\ Len(e) = Len(b) + 2
  BY FieldsOf DEF Framed
<1> DEFINE t == Tail(Tail(s))
<1>1. Len(s) \in {0, 1} => TU!ReadControlMessage(s) = TU!Short
  BY FrameReads
<1>2. ASSUME Len(s) >= 2
      PROVE  /\ Fits(s, 1) /\ s[1].v = ty /\ Fits(Tail(s), 2) /\ Tail(s)[1].v = TU!Width(b)
             /\ Drops(t, s, 2) /\ Agrees(t, b)
  BY <1>2, FrameReads
<1>3. ASSUME Len(s) >= 2, Len(s) < Len(e)  PROVE TU!ReadControlMessage(s) = TU!Short
  <2>1. t \in Seq(Fields) /\ Len(t) = Len(s) - 2
    BY <1>2, <1>3 DEF Drops
  <2>2. Len(t) < Len(b)
    <3>. HIDE DEF t
    <3>. QED  BY <1>0, <1>3, <2>1
  <2>3. TU!Width(t) < TU!Width(b)
    <3>. HIDE DEF t
    <3>. QED  BY <1>2, <1>3, <2>1, <2>2, BodyCut
  <2>4. ~(Tail(s)[1].v > TU!MaxControlSize) /\ TU!Width(t) < Tail(s)[1].v /\ Fits(s, 1) /\ Fits(Tail(s), 2)
    <3>. HIDE DEF t
    <3>. QED  BY <1>2, <1>3, <2>3, Zenon
  <2>. QED  BY <2>4, Zenon DEF Fits, TU!ReadControlMessage, TU!Take
<1>4. ASSUME Len(e) <= Len(s)
      PROVE  TU!ReadControlMessage(s) = TU!Done(m, TU!Rest(t, Len(b))) /\ Drops(TU!Rest(t, Len(b)), s, Len(e))
  <2>0. Len(s) >= 2
    BY <1>0, <1>4
  <2>1. t \in Seq(Fields) /\ Len(t) = Len(s) - 2 /\ Drops(t, s, 2) /\ Agrees(t, b)
    BY <1>2, <2>0 DEF Drops
  <2>2. Len(b) <= Len(t)
    <3>. HIDE DEF t
    <3>. QED  BY <1>0, <1>4, <2>1
  <2>3. /\ ~(TU!Width(t) < TU!Width(b)) /\ TU!Cut(t, TU!Width(b)) = {Len(b)} /\ SubSeq(t, 1, Len(b)) = b
        /\ Drops(TU!Rest(t, Len(b)), t, Len(b))
    <3>. HIDE DEF t
    <3>. QED  BY <2>1, <2>2, BodyCut
  <2>4. Drops(TU!Rest(t, Len(b)), s, Len(e))
    <3>. HIDE DEF t
    <3>1. Drops(TU!Rest(t, Len(b)), s, 2 + Len(b))
      BY <1>0, <2>1, <2>3, DropTwice
    <3>. QED  BY <1>0, <3>1
  <2>5. /\ ~(Tail(s)[1].v > TU!MaxControlSize) /\ ~(TU!Width(t) < Tail(s)[1].v) /\ Fits(s, 1) /\ Fits(Tail(s), 2)
        /\ TU!Cut(t, Tail(s)[1].v) = {Len(b)} /\ s[1].v = ty
    <3>. HIDE DEF t
    <3>. QED  BY <1>2, <2>0, <2>3, Zenon
  <2>6. ~({Len(b)} = {}) /\ (CHOOSE k \in {Len(b)} : TRUE) = Len(b)
    OBVIOUS
  <2>7. TU!DecodePayload(s[1].v, SubSeq(t, 1, Len(b))) = TU!Done(m, <<>>)
    <3>. HIDE DEF t
    <3>. QED  BY <2>3, <2>5, Zenon
  <2>8. TU!Done(m, <<>>).is = "ok" /\ TU!Done(m, <<>>).m = m
    BY DEF TU!Done
  <2>9. TU!ReadControlMessage(s) = TU!Done(m, TU!Rest(t, Len(b)))
    BY <2>5, <2>6, <2>7, <2>8, Zenon DEF Fits, TU!ReadControlMessage, TU!Take
  <2>. QED  BY <2>4, <2>9
<1>5. Len(s) < Len(e) => TU!ReadControlMessage(s) = TU!Short
  <2>1. \A l \in Nat : l \in {0, 1} \/ l >= 2
    OBVIOUS
  <2>. QED  BY <1>0, <1>1, <1>3, <2>1
<1>. HIDE DEF t
<1>. QED  BY <1>4, <1>5, Outcome

LEMMA ControlRefuses ==
    ASSUME NEW s \in Seq(Fields), NEW b \in Seq(Fields), NEW ty, NEW e, Framed(e, ty, b), Agrees(s, e),
           TU!Width(b) > TU!MaxControlSize
    PROVE  TU!ReadControlMessage(s) \in {TU!Short, TU!Fail}
<1>0. Len(s) \in Nat
  BY FieldsOf
<1>1. Len(s) \in {0, 1} => TU!ReadControlMessage(s) = TU!Short
  BY FrameReads
<1>2. ASSUME Len(s) >= 2  PROVE TU!ReadControlMessage(s) = TU!Fail
  <2>1. Fits(s, 1) /\ Fits(Tail(s), 2) /\ Tail(s)[1].v = TU!Width(b)
    BY <1>2, FrameReads
  <2>2. Tail(s)[1].v > TU!MaxControlSize
    BY <2>1, Zenon
  <2>. QED  BY <2>1, <2>2, Zenon DEF Fits, TU!ReadControlMessage, TU!Take
<1>3. \A l \in Nat : l \in {0, 1} \/ l >= 2
  OBVIOUS
<1>. QED  BY <1>0, <1>1, <1>2, <1>3

(* What the bodies of control messages hold.                               *)
LEMMA Whole ==
    ASSUME NEW b \in Seq(Fields)
    PROVE  /\ Cursor(b, b, b, 0) /\ Cursor(Tail(b), b, b, 1) /\ Cursor(Tail(Tail(b)), b, b, 2)
           /\ Cursor(Tail(Tail(Tail(b))), b, b, 3)
<1>1. Agrees(b, b) /\ Len(b) \in Nat
  BY FieldsOf DEF Agrees
<1>. QED  BY <1>1, Cursors

LEMMA Tags ==
    /\ ~("register" = "unregister") /\ ~("register" = "ready") /\ ~("register" = "ack")
    /\ ~("register" = "error") /\ ~("unregister" = "ready") /\ ~("unregister" = "ack")
    /\ ~("unregister" = "error") /\ ~("ready" = "ack") /\ ~("ready" = "error") /\ ~("ack" = "error")
    /\ ~("unregister" = "register") /\ ~("ready" = "register") /\ ~("ready" = "unregister")
    /\ ~("ack" = "register") /\ ~("ack" = "unregister") /\ ~("ack" = "ready")
    /\ ~("error" = "register") /\ ~("error" = "unregister") /\ ~("error" = "ready") /\ ~("error" = "ack")
  OBVIOUS

LEMMA DoneIsNotShort ==
    ASSUME NEW m, NEW r
    PROVE  ~(TU!Done(m, r) = TU!Short)
<1>1. TU!Done(m, r).is = "ok" /\ TU!Short.is = "short"
  BY DEF TU!Done, TU!Short
<1>. QED  BY <1>1

LEMMA RegisterPayload ==
    ASSUME NEW b \in Seq(Fields), NEW id \in Nat \ {0}, TU!ValidID(id), NEW net \in TU!Networks, NEW prt, prt # 0,
           Len(b) = 4, Cell(b, 1, 2, id), Cell(b, 2, id, id), Cell(b, 3, 1, net), Cell(b, 4, 2, prt)
    PROVE  TU!DecodePayload("register", b)
             = TU!Done([type |-> "register", id |-> id, net |-> net, port |-> prt], <<>>)
<1> DEFINE t == Tail(Tail(b))
           D == TU!Done([type |-> "register", id |-> Tail(b)[1].v, net |-> t[1].v, port |-> t[2].v], <<>>)
<1>1. Has(b, 2, id) /\ Has(Tail(b), id, id) /\ Drops(t, b, 2)
  BY Whole DEF Cursor, Cell
<1>2. b[1].v = id /\ Tail(b)[1].v = id /\ Fits(b, 2) /\ Fits(Tail(b), id)
  BY <1>1 DEF Has
<1>3. t[1] = b[3] /\ t[2] = b[4] /\ Len(t) = 2 /\ t \in Seq(Fields)
  <2>. HIDE DEF t
  <2>. QED  BY <1>1 DEF Drops
<1>4. t[1].w = 1 /\ t[1].v = net /\ t[2].w = 2 /\ t[2].v = prt
  <2>. HIDE DEF t
  <2>. QED  BY <1>3 DEF Cell
<1>5. [i \in DOMAIN t |-> t[i].w] = <<1, 2>>
  <2>. HIDE DEF t
  <2>. QED  BY <1>3, <1>4
<1>6. TU!ValidID(b[1].v) /\ Fits(Tail(b), b[1].v) /\ t[1].v \in TU!Networks /\ t[2].v # 0
  <2>. HIDE DEF t
  <2>. QED  BY <1>2, <1>4, Zenon
<1>7. ~(D = TU!Short)
  BY DoneIsNotShort, Zenon
<1>8. TU!DecodePayload("register", b) = D
  BY <1>2, <1>5, <1>6, <1>7, Tags, Zenon DEF Fits, TU!DecodePayload, TU!TakeID, TU!Take
<1>9. D = TU!Done([type |-> "register", id |-> id, net |-> net, port |-> prt], <<>>)
  <2>. HIDE DEF t
  <2>. QED  BY <1>2, <1>4, Zenon
<1>. QED  BY <1>8, <1>9

LEMMA UnregisterPayload ==
    ASSUME NEW b \in Seq(Fields), NEW id \in Nat \ {0}, TU!ValidID(id),
           Len(b) = 2, Cell(b, 1, 2, id), Cell(b, 2, id, id)
    PROVE  TU!DecodePayload("unregister", b) = TU!Done([type |-> "unregister", id |-> id], <<>>)
<1> DEFINE t == Tail(Tail(b))
           D == TU!Done([type |-> "unregister", id |-> Tail(b)[1].v], <<>>)
<1>1. Has(b, 2, id) /\ Has(Tail(b), id, id) /\ Drops(t, b, 2)
  <2>1. Cursor(b, b, b, 0) /\ Cursor(Tail(b), b, b, 1) /\ Cursor(t, b, b, 2)
    BY Whole, Zenon
  <2>2. Has(b, 2, id)
    BY <2>1 DEF Cursor, Cell
  <2>3. Has(Tail(b), id, id)
    BY <2>1 DEF Cursor, Cell
  <2>4. Drops(t, b, 2)
    <3>. HIDE DEF t
    <3>. QED  BY <2>1 DEF Cursor
  <2>. QED  BY <2>2, <2>3, <2>4
<1>2. b[1].v = id /\ Tail(b)[1].v = id /\ Fits(b, 2) /\ Fits(Tail(b), id)
  BY <1>1 DEF Has
<1>3. t = <<>>
  <2>. HIDE DEF t
  <2>1. t \in Seq(Fields) /\ Len(t) = 0
    BY <1>1 DEF Drops
  <2>. QED  BY <2>1
<1>6. TU!ValidID(b[1].v) /\ Fits(Tail(b), b[1].v)
  BY <1>2, Zenon
<1>7. ~(D = TU!Short)
  BY DoneIsNotShort, Zenon
<1>8. TU!DecodePayload("unregister", b) = D
  BY <1>2, <1>3, <1>6, <1>7, Tags, Zenon DEF Fits, TU!DecodePayload, TU!TakeID, TU!Take
<1>9. D = TU!Done([type |-> "unregister", id |-> id], <<>>)
  BY <1>2, Zenon
<1>. QED  BY <1>8, <1>9

LEMMA ReadyPayload ==
    ASSUME NEW b \in Seq(Fields), NEW id \in Nat \ {0}, TU!ValidID(id), NEW net \in TU!Networks, NEW str, str # 0,
           Len(b) = 4, Cell(b, 1, 8, str), Cell(b, 2, 2, id), Cell(b, 3, id, id), Cell(b, 4, 1, net)
    PROVE  TU!DecodePayload("ready", b)
             = TU!Done([type |-> "ready", id |-> id, net |-> net, stream |-> str], <<>>)
<1> DEFINE r == Tail(b)
           t == Tail(Tail(r))
           D == TU!Done([type |-> "ready", id |-> Tail(r)[1].v, net |-> t[1].v, stream |-> b[1].v], <<>>)
<1>1. Has(b, 8, str) /\ Has(r, 2, id) /\ Has(Tail(r), id, id) /\ Drops(t, b, 3)
  <2>1. Cursor(b, b, b, 0) /\ Cursor(r, b, b, 1) /\ Cursor(Tail(r), b, b, 2) /\ Cursor(t, b, b, 3)
    BY Whole, Zenon
  <2>2. Has(b, 8, str)
    BY <2>1 DEF Cursor, Cell
  <2>3. Has(r, 2, id)
    <3>. HIDE DEF r, t
    <3>. QED  BY <2>1 DEF Cursor, Cell
  <2>4. Has(Tail(r), id, id)
    <3>. HIDE DEF r, t
    <3>. QED  BY <2>1 DEF Cursor, Cell
  <2>5. Drops(t, b, 3)
    <3>. HIDE DEF r, t
    <3>. QED  BY <2>1 DEF Cursor
  <2>. QED  BY <2>2, <2>3, <2>4, <2>5
<1>2. /\ b[1].v = str /\ r[1].v = id /\ Tail(r)[1].v = id
      /\ Fits(b, 8) /\ Fits(r, 2) /\ Fits(Tail(r), id)
  <2>. HIDE DEF r
  <2>. QED  BY <1>1 DEF Has
<1>3. t[1] = b[4] /\ Len(t) = 1
  <2>. HIDE DEF t
  <2>. QED  BY <1>1 DEF Drops
<1>4. t[1].w = 1 /\ t[1].v = net
  <2>. HIDE DEF t
  <2>. QED  BY <1>3 DEF Cell
<1>6. TU!ValidID(r[1].v) /\ Fits(Tail(r), r[1].v) /\ t[1].v \in TU!Networks /\ b[1].v # 0
  <2>. HIDE DEF t, r
  <2>. QED  BY <1>2, <1>4, Zenon
<1>7. ~(D = TU!Short)
  BY DoneIsNotShort, Zenon
<1>8. TU!DecodePayload("ready", b) = D
  BY <1>2, <1>3, <1>4, <1>6, <1>7, Tags, Zenon DEF Fits, TU!DecodePayload, TU!TakeID, TU!Take
<1>9. D = TU!Done([type |-> "ready", id |-> id, net |-> net, stream |-> str], <<>>)
  <2>. HIDE DEF t, r
  <2>. QED  BY <1>2, <1>4, Zenon
<1>. QED  BY <1>8, <1>9

LEMMA AckPayload == TU!DecodePayload("ack", <<>>) = TU!Done([type |-> "ack"], <<>>)
<1>1. ~(TU!Done([type |-> "ack"], <<>>) = TU!Short)
  BY DoneIsNotShort, Zenon
<1>. QED  BY <1>1, Tags, Zenon DEF TU!DecodePayload

LEMMA ErrorPayload ==
    ASSUME NEW b \in Seq(Fields), NEW n \in Nat \ {0}, Len(b) = 1, Cell(b, 1, n, n)
    PROVE  TU!DecodePayload("error", b) = TU!Done([type |-> "error", text |-> n], <<>>)
<1>1. TU!Width(b) = n
  BY WidthOf DEF Cell
<1>2. ~(b = <<>>)
  OBVIOUS
<1>3. ~(TU!Done([type |-> "error", text |-> TU!Width(b)], <<>>) = TU!Short)
  BY DoneIsNotShort, Zenon
<1>4. TU!DecodePayload("error", b) = TU!Done([type |-> "error", text |-> TU!Width(b)], <<>>)
  BY <1>2, <1>3, Tags, Zenon DEF TU!DecodePayload
<1>. QED  BY <1>1, <1>4, Zenon

-----------------------------------------------------------------------------
(* What the writers put on the wire, field by field.                       *)
InByte(n) == n < 256
InU16(n) == n < 65536
Joint(e, a, b) ==
    /\ e \in Seq(Fields) /\ Len(e) = Len(a) + Len(b)
    /\ \A i \in 1..Len(a) : e[i] = a[i]
    /\ \A i \in 1..Len(b) : e[Len(a) + i] = b[i]
Single(a, w, v) == a \in Seq(Fields) /\ Len(a) = 1 /\ Cell(a, 1, w, v)
Couple(a, w, v, x, y) == a \in Seq(Fields) /\ Len(a) = 2 /\ Cell(a, 1, w, v) /\ Cell(a, 2, x, y)

LEMMA Joins ==
    ASSUME NEW a \in Seq(Fields), NEW b \in Seq(Fields)
    PROVE  Joint(a \o b, a, b)
<1> DEFINE e == a \o b
<1>0. Len(a) \in Nat /\ Len(b) \in Nat
  OBVIOUS
<1>1. /\ e \in Seq(Fields) /\ Len(e) = Len(a) + Len(b)
      /\ \A i \in 1..(Len(a) + Len(b)) : e[i] = IF i <= Len(a) THEN a[i] ELSE b[i - Len(a)]
  BY ConcatProperties
<1>. HIDE DEF e
<1>2. ASSUME NEW i \in 1..Len(a)  PROVE e[i] = a[i]
  BY <1>0, <1>1
<1>3. ASSUME NEW i \in 1..Len(b)  PROVE e[Len(a) + i] = b[i]
  <2>1. Len(a) + i \in 1..(Len(a) + Len(b)) /\ ~(Len(a) + i <= Len(a)) /\ (Len(a) + i) - Len(a) = i
    BY <1>0
  <2>. QED  BY <1>1, <2>1
<1>. QED  BY <1>1, <1>2, <1>3 DEF e, Joint

LEMMA Singles ==
    ASSUME NEW w \in Nat \ {0}, NEW v \in Nat \cup Words
    PROVE  Single(TU!Field(w, v), w, v)
<1> DEFINE x == [w |-> w, v |-> v]
<1>1. x \in Fields /\ x.w = w /\ x.v = v
  BY DEF Fields
<1>. HIDE DEF x
<1>2. <<x>> \in Seq(Fields) /\ Len(<<x>>) = 1 /\ <<x>>[1] = x
  BY <1>1
<1>3. TU!Field(w, v) = <<x>>
  BY DEF TU!Field, x
<1>. QED  BY <1>1, <1>2, <1>3 DEF Single, Cell

LEMMA Bytes ==
    ASSUME NEW n \in Nat
    PROVE  /\ InByte(n) => Single(TU!Byte(n), 1, n)
           /\ InU16(n) => Single(TU!U16(n), 2, n)
           /\ Single(TU!U64(n), 8, n)
           /\ n # 0 => Single(TU!Text(n), n, n)
<1>1. InByte(n) => n % 256 = n
  BY DEF InByte
<1>2. InU16(n) => n % 65536 = n
  BY DEF InU16
<1>3. InByte(n) => Single(TU!Byte(n), 1, n)
  BY <1>1, Singles DEF TU!Byte
<1>4. InU16(n) => Single(TU!U16(n), 2, n)
  BY <1>2, Singles DEF TU!U16
<1>5. Single(TU!U64(n), 8, n)
  BY Singles DEF TU!U64
<1>6. n # 0 => Single(TU!Text(n), n, n)
  BY Singles DEF TU!Text
<1>. QED  BY <1>3, <1>4, <1>5, <1>6

(* Fields one after another.                                               *)
LEMMA Couples ==
    ASSUME NEW a, NEW b, NEW w, NEW v, NEW x, NEW y, Single(a, w, v), Single(b, x, y)
    PROVE  Couple(a \o b, w, v, x, y)
<1>1. Joint(a \o b, a, b) /\ Len(a) = 1 /\ Len(b) = 1
  BY Joins DEF Single
<1>2. (a \o b)[1] = a[1] /\ (a \o b)[2] = b[1] /\ Len(a \o b) = 2
  BY <1>1 DEF Joint
<1>. QED  BY <1>1, <1>2 DEF Joint, Single, Couple, Cell

LEMMA PrefixedIs ==
    ASSUME NEW n \in Nat \ {0}, InU16(n)
    PROVE  Couple(TU!Prefixed(n), 2, n, n, n)
<1>1. Single(TU!U16(n), 2, n) /\ Single(TU!Text(n), n, n)
  BY Bytes
<1>. QED  BY <1>1, Couples DEF TU!Prefixed

(* Names, ports and tokens that writers let through fit their fields.      *)
LEMMA Fitting ==
    /\ \A n : TU!ValidID(n) => n \in Nat \ {0} /\ InU16(n) /\ n <= TU!maxIDSize
    /\ \A n \in TU!Ports \ {0} : n \in Nat \ {0} /\ InU16(n)
    /\ \A n \in TU!Networks : n \in Nat \ {0} /\ InByte(n)
    /\ \A n \in 1..TU!maxHostSize : n \in Nat \ {0} /\ InU16(n)
    /\ \A n \in 1..TU!MaxDatagramSize : n \in Nat \ {0} /\ InU16(n)
    /\ \A n \in Nat : n <= TU!maxErrorSize => InU16(n)
<1>1. TU!maxIDSize = 256 /\ TU!maxHostSize = 1024 /\ TU!MaxDatagramSize = 65507 /\ TU!maxErrorSize = 4096
  BY DEF TU!maxIDSize, TU!maxHostSize, TU!MaxDatagramSize, TU!maxErrorSize
<1>2. \A n : TU!ValidID(n) => n \in Nat \ {0} /\ InU16(n) /\ n <= TU!maxIDSize
  BY <1>1 DEF InU16, TU!ValidID
<1>3. \A n \in TU!Ports \ {0} : n \in Nat \ {0} /\ InU16(n)
  BY DEF InU16, TU!Ports
<1>4. \A n \in TU!Networks : n \in Nat \ {0} /\ InByte(n)
  BY DEF InByte, TU!Networks
<1>5. ASSUME NEW n \in 1..TU!maxHostSize  PROVE n \in Nat \ {0} /\ InU16(n)
  <2>1. n \in Nat \ {0} /\ n <= 1024
    BY <1>1
  <2>. QED  BY ONLY <2>1 DEF InU16
<1>6. ASSUME NEW n \in 1..TU!MaxDatagramSize  PROVE n \in Nat \ {0} /\ InU16(n)
  <2>1. n \in Nat \ {0} /\ n <= 65507
    BY <1>1, SMTT(30)
  <2>. QED  BY ONLY <2>1, SMTT(30) DEF InU16
<1>7. \A n \in Nat : n <= TU!maxErrorSize => InU16(n)
  BY <1>1 DEF InU16
<1>. QED  BY <1>2, <1>3, <1>4, <1>5, <1>6, <1>7

LEMMA FrameOf ==
    ASSUME NEW b \in Seq(Fields), InU16(TU!Width(b)), NEW ty \in Nat \cup Words
    PROVE  /\ TU!Field(1, ty) \o TU!U16(TU!Width(b)) \o b \in Seq(Fields)
           /\ Framed(TU!Field(1, ty) \o TU!U16(TU!Width(b)) \o b, ty, b)
<1>0. TU!Width(b) \in Nat /\ Len(b) \in Nat
  BY WidthOf, FieldsOf
<1>1. ASSUME NEW a, NEW e, Couple(a, 1, ty, 2, TU!Width(b)), Joint(e, a, b)
      PROVE  e \in Seq(Fields) /\ Framed(e, ty, b)
  <2>1. Len(a) = 2 /\ Len(e) = Len(b) + 2 /\ e[1] = a[1] /\ e[2] = a[2] /\ \A i \in 1..Len(b) : e[2 + i] = b[i]
    BY <1>0, <1>1 DEF Joint, Couple
  <2>2. Framed(e, ty, b)
    BY <1>1, <2>1 DEF Couple, Cell, Framed
  <2>. QED  BY <1>1, <2>2 DEF Joint
<1>2. Couple(TU!Field(1, ty) \o TU!U16(TU!Width(b)), 1, ty, 2, TU!Width(b))
  <2>0. 1 \in Nat \ {0}
    OBVIOUS
  <2>1. Single(TU!Field(1, ty), 1, ty)
    BY <2>0, Singles, Zenon
  <2>2. Single(TU!U16(TU!Width(b)), 2, TU!Width(b))
    BY <1>0, Bytes, Zenon
  <2>. QED  BY <2>1, <2>2, Couples, Zenon
<1>3. Joint(TU!Field(1, ty) \o TU!U16(TU!Width(b)) \o b, TU!Field(1, ty) \o TU!U16(TU!Width(b)), b)
  BY <1>2, Joins, Zenon DEF Couple
<1>. QED  BY <1>1, <1>2, <1>3, Zenon

Triple(e, w1, v1, w2, v2, w3, v3) ==
    /\ e \in Seq(Fields) /\ Len(e) = 3 /\ Cell(e, 1, w1, v1) /\ Cell(e, 2, w2, v2) /\ Cell(e, 3, w3, v3)
Quartet(e, w1, v1, w2, v2, w3, v3, w4, v4) ==
    /\ e \in Seq(Fields) /\ Len(e) = 4 /\ Cell(e, 1, w1, v1) /\ Cell(e, 2, w2, v2) /\ Cell(e, 3, w3, v3)
    /\ Cell(e, 4, w4, v4)
Quintet(e, w1, v1, w2, v2, w3, v3, w4, v4, w5, v5) ==
    /\ e \in Seq(Fields) /\ Len(e) = 5 /\ Cell(e, 1, w1, v1) /\ Cell(e, 2, w2, v2) /\ Cell(e, 3, w3, v3)
    /\ Cell(e, 4, w4, v4) /\ Cell(e, 5, w5, v5)
Sextet(e, w1, v1, w2, v2, w3, v3, w4, v4, w5, v5, w6, v6) ==
    /\ e \in Seq(Fields) /\ Len(e) = 6 /\ Cell(e, 1, w1, v1) /\ Cell(e, 2, w2, v2) /\ Cell(e, 3, w3, v3)
    /\ Cell(e, 4, w4, v4) /\ Cell(e, 5, w5, v5) /\ Cell(e, 6, w6, v6)

LEMMA CoupleSingle ==
    ASSUME NEW a, NEW b, NEW w1, NEW v1, NEW w2, NEW v2, NEW w3, NEW v3,
           Couple(a, w1, v1, w2, v2), Single(b, w3, v3)
    PROVE  Triple(a \o b, w1, v1, w2, v2, w3, v3)
<1>1. ASSUME NEW e, Joint(e, a, b)
      PROVE  Triple(e, w1, v1, w2, v2, w3, v3)
  <2>1. Len(a) = 2 /\ Len(b) = 1
    BY DEF Couple, Single
  <2>2. /\ e[1] = a[1] /\ e[2] = a[2]
        /\ e[3] = b[1] /\ Len(e) = 3 /\ e \in Seq(Fields)
    BY <1>1, <2>1 DEF Joint
  <2>. QED  BY <2>2 DEF Couple, Single, Triple, Cell
<1>2. Joint(a \o b, a, b)
  <2>1. a \in Seq(Fields) /\ b \in Seq(Fields)
    BY DEF Couple, Single
  <2>. QED  BY <2>1, Joins
<1>. QED  BY <1>1, <1>2, Zenon

LEMMA SingleCouple ==
    ASSUME NEW a, NEW b, NEW w1, NEW v1, NEW w2, NEW v2, NEW w3, NEW v3,
           Single(a, w1, v1), Couple(b, w2, v2, w3, v3)
    PROVE  Triple(a \o b, w1, v1, w2, v2, w3, v3)
<1>1. ASSUME NEW e, Joint(e, a, b)
      PROVE  Triple(e, w1, v1, w2, v2, w3, v3)
  <2>1. Len(a) = 1 /\ Len(b) = 2
    BY DEF Single, Couple
  <2>2. /\ e[1] = a[1]
        /\ e[2] = b[1] /\ e[3] = b[2] /\ Len(e) = 3 /\ e \in Seq(Fields)
    BY <1>1, <2>1 DEF Joint
  <2>. QED  BY <2>2 DEF Single, Couple, Triple, Cell
<1>2. Joint(a \o b, a, b)
  <2>1. a \in Seq(Fields) /\ b \in Seq(Fields)
    BY DEF Single, Couple
  <2>. QED  BY <2>1, Joins
<1>. QED  BY <1>1, <1>2, Zenon

LEMMA TripleSingle ==
    ASSUME NEW a, NEW b, NEW w1, NEW v1, NEW w2, NEW v2, NEW w3, NEW v3, NEW w4, NEW v4,
           Triple(a, w1, v1, w2, v2, w3, v3), Single(b, w4, v4)
    PROVE  Quartet(a \o b, w1, v1, w2, v2, w3, v3, w4, v4)
<1>1. ASSUME NEW e, Joint(e, a, b)
      PROVE  Quartet(e, w1, v1, w2, v2, w3, v3, w4, v4)
  <2>1. Len(a) = 3 /\ Len(b) = 1
    BY DEF Triple, Single
  <2>2. /\ e[1] = a[1] /\ e[2] = a[2] /\ e[3] = a[3]
        /\ e[4] = b[1] /\ Len(e) = 4 /\ e \in Seq(Fields)
    BY <1>1, <2>1 DEF Joint
  <2>. QED  BY <2>2 DEF Triple, Single, Quartet, Cell
<1>2. Joint(a \o b, a, b)
  <2>1. a \in Seq(Fields) /\ b \in Seq(Fields)
    BY DEF Triple, Single
  <2>. QED  BY <2>1, Joins
<1>. QED  BY <1>1, <1>2, Zenon

LEMMA TripleCouple ==
    ASSUME NEW a, NEW b, NEW w1, NEW v1, NEW w2, NEW v2, NEW w3, NEW v3, NEW w4, NEW v4, NEW w5, NEW v5,
           Triple(a, w1, v1, w2, v2, w3, v3), Couple(b, w4, v4, w5, v5)
    PROVE  Quintet(a \o b, w1, v1, w2, v2, w3, v3, w4, v4, w5, v5)
<1>1. ASSUME NEW e, Joint(e, a, b)
      PROVE  Quintet(e, w1, v1, w2, v2, w3, v3, w4, v4, w5, v5)
  <2>1. Len(a) = 3 /\ Len(b) = 2
    BY DEF Triple, Couple
  <2>2. /\ e[1] = a[1] /\ e[2] = a[2] /\ e[3] = a[3]
        /\ e[4] = b[1] /\ e[5] = b[2] /\ Len(e) = 5 /\ e \in Seq(Fields)
    BY <1>1, <2>1 DEF Joint
  <2>. QED  BY <2>2 DEF Triple, Couple, Quintet, Cell
<1>2. Joint(a \o b, a, b)
  <2>1. a \in Seq(Fields) /\ b \in Seq(Fields)
    BY DEF Triple, Couple
  <2>. QED  BY <2>1, Joins
<1>. QED  BY <1>1, <1>2, Zenon

LEMMA QuintetSingle ==
    ASSUME NEW a, NEW b, NEW w1, NEW v1, NEW w2, NEW v2, NEW w3, NEW v3, NEW w4, NEW v4, NEW w5, NEW v5, NEW w6, NEW v6,
           Quintet(a, w1, v1, w2, v2, w3, v3, w4, v4, w5, v5), Single(b, w6, v6)
    PROVE  Sextet(a \o b, w1, v1, w2, v2, w3, v3, w4, v4, w5, v5, w6, v6)
<1>1. ASSUME NEW e, Joint(e, a, b)
      PROVE  Sextet(e, w1, v1, w2, v2, w3, v3, w4, v4, w5, v5, w6, v6)
  <2>1. Len(a) = 5 /\ Len(b) = 1
    BY DEF Quintet, Single
  <2>2. /\ e[1] = a[1] /\ e[2] = a[2] /\ e[3] = a[3] /\ e[4] = a[4] /\ e[5] = a[5]
        /\ e[6] = b[1] /\ Len(e) = 6 /\ e \in Seq(Fields)
    BY <1>1, <2>1 DEF Joint
  <2>. QED  BY <2>2 DEF Quintet, Single, Sextet, Cell
<1>2. Joint(a \o b, a, b)
  <2>1. a \in Seq(Fields) /\ b \in Seq(Fields)
    BY DEF Quintet, Single
  <2>. QED  BY <2>1, Joins
<1>. QED  BY <1>1, <1>2, Zenon

(* What a reader makes of a message that its writer let through.           *)
Understood(m, e) ==
    /\ e \in Seq(Fields) /\ Len(e) >= 1
    /\ (wire \in Seq(Fields) /\ Agrees(wire, e)) =>
         IF TU!TooLong(m) THEN TU!Decode \in {TU!Short, TU!Fail} ELSE ReadsAs(TU!Decode, wire, m, e)

LEMMA KindTags ==
    /\ ~("control" = "datagram") /\ ~("control" = "open") /\ ~("control" = "accept") /\ ~("control" = "status")
    /\ ~("control" = "socks") /\ ~("datagram" = "open") /\ ~("datagram" = "accept") /\ ~("datagram" = "status")
    /\ ~("datagram" = "socks") /\ ~("open" = "accept") /\ ~("open" = "status") /\ ~("open" = "socks")
    /\ ~("accept" = "status") /\ ~("accept" = "socks") /\ ~("status" = "socks")
  OBVIOUS

LEMMA DecodeIs ==
    /\ kind = "control" => TU!Decode = TU!ReadControlMessage(wire)
    /\ kind = "datagram" => TU!Decode = TU!ReadDatagram(wire)
    /\ kind \in {"open", "accept"} => TU!Decode = TU!ReadSessionHeader(wire)
    /\ kind = "status" => TU!Decode = TU!ReadStatus(wire)
    /\ kind = "socks" => TU!Decode = TU!readAddress(wire)
  BY SMTT(30) DEF TU!Decode

LEMMA EncodeIs ==
    ASSUME NEW m
    PROVE  /\ kind = "control" => TU!Encode(m) = TU!Field(1, m.type) \o TU!U16(TU!Width(TU!Payload(m))) \o TU!Payload(m)
           /\ kind = "datagram" => TU!Encode(m) = TU!U16(m.text) \o TU!Text(m.text)
           /\ kind = "open" => TU!Encode(m) = TU!Header(m.token, m.command) \o TU!Prefixed(m.host) \o TU!U16(m.port)
           /\ kind = "accept" => TU!Encode(m) = TU!Header(m.token, TU!CommandAccept) \o TU!U64(m.stream)
           /\ kind = "status" => TU!Encode(m) = IF m.ok THEN TU!Byte(0) ELSE TU!Byte(1) \o TU!Prefixed(m.text)
           /\ kind = "socks" => TU!Encode(m) = TU!Field(1, m.host)
                                  \o (IF m.host = "name" THEN TU!Byte(m.size) ELSE <<>>)
                                  \o TU!Text(m.size) \o TU!U16(m.port)
  BY DEF TU!Encode

LEMMA PayloadIs ==
    ASSUME NEW m
    PROVE  /\ m.type = "register" => TU!Payload(m) = TU!Prefixed(m.id) \o TU!Byte(m.net) \o TU!U16(m.port)
           /\ m.type = "unregister" => TU!Payload(m) = TU!Prefixed(m.id)
           /\ m.type = "ready" => TU!Payload(m) = TU!U64(m.stream) \o TU!Prefixed(m.id) \o TU!Byte(m.net)
           /\ m.type = "ack" => TU!Payload(m) = <<>>
           /\ m.type = "error" => TU!Payload(m) = TU!Text(m.text)
  BY DEF TU!Payload

(* A control message with body b is understood when its body is.           *)
LEMMA ControlUnderstood ==
    ASSUME kind = "control", NEW m, m.type \in Words, TU!Payload(m) \in Seq(Fields),
           InU16(TU!Width(TU!Payload(m))),
           TU!TooLong(m) <=> TU!Width(TU!Payload(m)) > TU!MaxControlSize,
           TU!DecodePayload(m.type, TU!Payload(m)) = TU!Done(m, <<>>)
    PROVE  Understood(m, TU!Encode(m))
<1> DEFINE b == TU!Payload(m)
           e == TU!Encode(m)
<1>1. e \in Seq(Fields) /\ Framed(e, m.type, b)
  <2>1. m.type \in Nat \cup Words
    OBVIOUS
  <2>2. e = TU!Field(1, m.type) \o TU!U16(TU!Width(b)) \o b
    BY EncodeIs, Zenon
  <2>. HIDE DEF b
  <2>3. b \in Seq(Fields) /\ InU16(TU!Width(b))
    BY DEF b
  <2>. QED  BY <2>1, <2>2, <2>3, FrameOf, Zenon
<1>2. b \in Seq(Fields) /\ TU!DecodePayload(m.type, b) = TU!Done(m, <<>>)
  BY Zenon
<1>. HIDE DEF b, e
<1>3. Len(e) >= 1
  <2>1. Len(b) \in Nat
    BY <1>2, FieldsOf
  <2>. QED  BY <1>1, <2>1 DEF Framed
<1>4. ASSUME wire \in Seq(Fields), Agrees(wire, e), TU!TooLong(m)
      PROVE  TU!Decode \in {TU!Short, TU!Fail}
  <2>1. TU!Width(b) > TU!MaxControlSize
    BY <1>4, Zenon DEF b
  <2>. QED  BY <1>1, <1>2, <1>4, <2>1, ControlRefuses, DecodeIs, Zenon
<1>5. ASSUME wire \in Seq(Fields), Agrees(wire, e), ~TU!TooLong(m)
      PROVE  ReadsAs(TU!Decode, wire, m, e)
  <2>1. ~(TU!Width(b) > TU!MaxControlSize)
    BY <1>5, Zenon DEF b
  <2>. QED  BY <1>1, <1>2, <1>5, <2>1, ControlReads, DecodeIs, Zenon
<1>6. Understood(m, e)
  BY <1>1, <1>3, <1>4, <1>5, Zenon DEF Understood
<1>. QED  BY <1>6 DEF e

LEMMA ShortBodies ==
    ASSUME NEW b \in Seq(Fields), NEW id, TU!ValidID(id), TU!Width(b) <= id + 11
    PROVE  InU16(TU!Width(b)) /\ ~(TU!Width(b) > TU!MaxControlSize)
<1>1. TU!Width(b) \in Nat
  BY WidthOf
<1>2. id \in Nat /\ id <= TU!maxIDSize
  BY Fitting
<1>. QED  BY <1>1, <1>2 DEF InU16, TU!MaxControlSize, TU!maxIDSize, TU!maxHostSize

LEMMA QuartetWidth ==
    ASSUME NEW b, NEW w1, NEW v1, NEW w2, NEW v2, NEW w3, NEW v3, NEW w4, NEW v4,
           Quartet(b, w1, v1, w2, v2, w3, v3, w4, v4)
    PROVE  b \in Seq(Fields) /\ TU!Width(b) = w1 + w2 + w3 + w4
<1>1. b \in Seq(Fields) /\ Len(b) = 4 /\ b[1].w = w1 /\ b[2].w = w2 /\ b[3].w = w3 /\ b[4].w = w4
  BY DEF Quartet, Cell
<1>. QED  BY <1>1, WidthOf

LEMMA RegisterUnderstood ==
    ASSUME kind = "control", NEW id, TU!ValidID(id), NEW net \in TU!Networks, NEW prt \in TU!Ports \ {0},
           NEW m, m = [type |-> "register", id |-> id, net |-> net, port |-> prt]
    PROVE  Understood(m, TU!Encode(m))
<1> DEFINE b == TU!Payload(m)
<1>0. /\ id \in Nat \ {0} /\ InU16(id) /\ net \in Nat /\ InByte(net) /\ prt \in Nat \ {0} /\ InU16(prt)
  BY Fitting, Zenon
<1>1. m.type = "register" /\ m.id = id /\ m.net = net /\ m.port = prt
  OBVIOUS
<1>2. Couple(TU!Prefixed(id), 2, id, id, id) /\ Single(TU!Byte(net), 1, net) /\ Single(TU!U16(prt), 2, prt)
  BY <1>0, PrefixedIs, Bytes, Zenon
<1>3. b = TU!Prefixed(id) \o TU!Byte(net) \o TU!U16(prt)
  BY <1>1, PayloadIs, Zenon
<1>. HIDE DEF b
<1>4. Quartet(b, 2, id, id, id, 1, net, 2, prt)
  <2>1. Triple(TU!Prefixed(id) \o TU!Byte(net), 2, id, id, id, 1, net)
    BY <1>2, CoupleSingle, Zenon
  <2>. QED  BY <1>2, <1>3, <2>1, TripleSingle, Zenon
<1>5. b \in Seq(Fields) /\ TU!Width(b) = 2 + id + 1 + 2
  BY <1>4, QuartetWidth
<1>6. InU16(TU!Width(b)) /\ ~(TU!Width(b) > TU!MaxControlSize)
  <2>1. TU!Width(b) <= id + 11
    BY <1>0, <1>5
  <2>. QED  BY <1>5, <2>1, ShortBodies, Zenon
<1>7. TU!DecodePayload("register", b) = TU!Done([type |-> "register", id |-> id, net |-> net, port |-> prt], <<>>)
  <2>1. Len(b) = 4 /\ Cell(b, 1, 2, id) /\ Cell(b, 2, id, id) /\ Cell(b, 3, 1, net) /\ Cell(b, 4, 2, prt)
    BY <1>4, Zenon DEF Quartet
  <2>2. prt # 0
    BY <1>0, Zenon
  <2>. QED  BY <1>0, <1>5, <2>1, <2>2, RegisterPayload, Zenon
<1>8. TU!TooLong(m) <=> TU!Width(b) > TU!MaxControlSize
  BY <1>1, <1>6, Tags, Zenon DEF TU!TooLong
<1>9. m.type \in Words /\ TU!DecodePayload(m.type, b) = TU!Done(m, <<>>)
  <2>1. m.type \in Words
    BY <1>1, Zenon DEF Words
  <2>2. TU!DecodePayload(m.type, b) = TU!Done(m, <<>>)
    BY <1>1, <1>7, Zenon
  <2>. QED  BY <2>1, <2>2
<1>. QED  BY <1>5, <1>6, <1>8, <1>9, ControlUnderstood, Zenon DEF b

LEMMA UnregisterUnderstood ==
    ASSUME kind = "control", NEW id, TU!ValidID(id), NEW m, m = [type |-> "unregister", id |-> id]
    PROVE  Understood(m, TU!Encode(m))
<1> DEFINE b == TU!Payload(m)
<1>0. id \in Nat \ {0} /\ InU16(id)
  BY Fitting, Zenon
<1>1. m.type = "unregister" /\ m.id = id
  OBVIOUS
<1>2. b = TU!Prefixed(id)
  BY <1>1, PayloadIs, Zenon
<1>. HIDE DEF b
<1>4. Couple(b, 2, id, id, id)
  BY <1>0, <1>2, PrefixedIs, Zenon
<1>5. b \in Seq(Fields) /\ Len(b) = 2 /\ Cell(b, 1, 2, id) /\ Cell(b, 2, id, id)
  BY <1>4, Zenon DEF Couple
<1>6. InU16(TU!Width(b)) /\ ~(TU!Width(b) > TU!MaxControlSize)
  <2>1. TU!Width(b) <= id + 11
    BY <1>0, <1>5, WidthOf DEF Cell
  <2>. QED  BY <1>5, <2>1, ShortBodies, Zenon
<1>7. TU!DecodePayload("unregister", b) = TU!Done([type |-> "unregister", id |-> id], <<>>)
  BY <1>0, <1>5, UnregisterPayload, Zenon
<1>8. TU!TooLong(m) <=> TU!Width(b) > TU!MaxControlSize
  BY <1>1, <1>6, Tags, Zenon DEF TU!TooLong
<1>9. m.type \in Words /\ TU!DecodePayload(m.type, b) = TU!Done(m, <<>>)
  <2>1. m.type \in Words
    BY <1>1, Zenon DEF Words
  <2>2. TU!DecodePayload(m.type, b) = TU!Done(m, <<>>)
    BY <1>1, <1>7, Zenon
  <2>. QED  BY <2>1, <2>2
<1>. QED  BY <1>5, <1>6, <1>8, <1>9, ControlUnderstood, Zenon DEF b

LEMMA ReadyUnderstood ==
    ASSUME kind = "control", NEW id, TU!ValidID(id), NEW net \in TU!Networks, NEW str \in Nat \ {0},
           NEW m, m = [type |-> "ready", id |-> id, net |-> net, stream |-> str]
    PROVE  Understood(m, TU!Encode(m))
<1> DEFINE b == TU!Payload(m)
<1>0. id \in Nat \ {0} /\ InU16(id) /\ net \in Nat /\ InByte(net) /\ str \in Nat /\ str # 0
  BY Fitting, Zenon
<1>1. m.type = "ready" /\ m.id = id /\ m.net = net /\ m.stream = str
  OBVIOUS
<1>2. Couple(TU!Prefixed(id), 2, id, id, id) /\ Single(TU!Byte(net), 1, net) /\ Single(TU!U64(str), 8, str)
  BY <1>0, PrefixedIs, Bytes, Zenon
<1>3. b = TU!U64(str) \o TU!Prefixed(id) \o TU!Byte(net)
  BY <1>1, PayloadIs, Zenon
<1>. HIDE DEF b
<1>4. Quartet(b, 8, str, 2, id, id, id, 1, net)
  <2>1. Triple(TU!U64(str) \o TU!Prefixed(id), 8, str, 2, id, id, id)
    BY <1>2, SingleCouple, Zenon
  <2>. QED  BY <1>2, <1>3, <2>1, TripleSingle, Zenon
<1>5. b \in Seq(Fields) /\ TU!Width(b) = 8 + 2 + id + 1
  BY <1>4, QuartetWidth
<1>6. InU16(TU!Width(b)) /\ ~(TU!Width(b) > TU!MaxControlSize)
  <2>1. TU!Width(b) <= id + 11
    BY <1>0, <1>5
  <2>. QED  BY <1>5, <2>1, ShortBodies, Zenon
<1>7. TU!DecodePayload("ready", b) = TU!Done([type |-> "ready", id |-> id, net |-> net, stream |-> str], <<>>)
  <2>1. Len(b) = 4 /\ Cell(b, 1, 8, str) /\ Cell(b, 2, 2, id) /\ Cell(b, 3, id, id) /\ Cell(b, 4, 1, net)
    BY <1>4, Zenon DEF Quartet
  <2>. QED  BY <1>0, <1>5, <2>1, ReadyPayload, Zenon
<1>8. TU!TooLong(m) <=> TU!Width(b) > TU!MaxControlSize
  BY <1>1, <1>6, Tags, Zenon DEF TU!TooLong
<1>9. m.type \in Words /\ TU!DecodePayload(m.type, b) = TU!Done(m, <<>>)
  <2>1. m.type \in Words
    BY <1>1, Zenon DEF Words
  <2>2. TU!DecodePayload(m.type, b) = TU!Done(m, <<>>)
    BY <1>1, <1>7, Zenon
  <2>. QED  BY <2>1, <2>2
<1>. QED  BY <1>5, <1>6, <1>8, <1>9, ControlUnderstood, Zenon DEF b

LEMMA AckUnderstood ==
    ASSUME kind = "control", NEW m, m = [type |-> "ack"]
    PROVE  Understood(m, TU!Encode(m))
<1> DEFINE b == TU!Payload(m)
<1>1. m.type = "ack"
  OBVIOUS
<1>2. b = <<>>
  BY <1>1, PayloadIs, Zenon
<1>. HIDE DEF b
<1>5. b \in Seq(Fields) /\ TU!Width(b) = 0
  <2>1. b \in Seq(Fields) /\ Len(b) = 0
    BY <1>2
  <2>. QED  BY <2>1, WidthOf
<1>6. InU16(TU!Width(b)) /\ ~(TU!Width(b) > TU!MaxControlSize)
  <2>1. InU16(0) /\ ~(0 > TU!MaxControlSize)
    BY DEF InU16, TU!MaxControlSize, TU!maxIDSize, TU!maxHostSize
  <2>. QED  BY <1>5, <2>1, Zenon
<1>8. TU!TooLong(m) <=> TU!Width(b) > TU!MaxControlSize
  BY <1>1, <1>6, Tags, Zenon DEF TU!TooLong
<1>9. m.type \in Words /\ TU!DecodePayload(m.type, b) = TU!Done(m, <<>>)
  <2>1. m.type \in Words
    BY <1>1, Zenon DEF Words
  <2>2. TU!DecodePayload(m.type, b) = TU!Done(m, <<>>)
    BY <1>1, <1>2, AckPayload, Zenon
  <2>. QED  BY <2>1, <2>2
<1>. QED  BY <1>5, <1>6, <1>8, <1>9, ControlUnderstood, Zenon DEF b

LEMMA ErrorUnderstood ==
    ASSUME kind = "control", NEW n \in Nat \ {0}, n <= TU!maxErrorSize, NEW m, m = [type |-> "error", text |-> n]
    PROVE  Understood(m, TU!Encode(m))
<1> DEFINE b == TU!Payload(m)
<1>0. n \in Nat /\ n # 0 /\ InU16(n)
  BY Fitting
<1>1. m.type = "error" /\ m.text = n
  OBVIOUS
<1>2. b = TU!Text(n)
  BY <1>1, PayloadIs, Zenon
<1>. HIDE DEF b
<1>4. Single(b, n, n)
  BY <1>0, <1>2, Bytes, Zenon
<1>5. b \in Seq(Fields) /\ Len(b) = 1 /\ Cell(b, 1, n, n)
  BY <1>4, Zenon DEF Single
<1>6. TU!Width(b) = n
  BY <1>5, WidthOf DEF Cell
<1>7. InU16(TU!Width(b))
  BY <1>0, <1>6, Zenon
<1>8. TU!TooLong(m) <=> TU!Width(b) > TU!MaxControlSize
  BY <1>1, <1>6, Zenon DEF TU!TooLong
<1>9. m.type \in Words /\ TU!DecodePayload(m.type, b) = TU!Done(m, <<>>)
  <2>1. m.type \in Words
    BY <1>1, Zenon DEF Words
  <2>2. TU!DecodePayload(m.type, b) = TU!Done(m, <<>>)
    BY <1>1, <1>5, ErrorPayload, Zenon
  <2>. QED  BY <2>1, <2>2
<1>. QED  BY <1>5, <1>7, <1>8, <1>9, ControlUnderstood, Zenon DEF b

LEMMA PlainUnderstood ==
    ASSUME NEW m, NEW e, e \in Seq(Fields), Len(e) >= 1, ~(m.type = "error"),
           (wire \in Seq(Fields) /\ Agrees(wire, e)) => ReadsAs(TU!Decode, wire, m, e)
    PROVE  Understood(m, e)
  BY Zenon DEF Understood, TU!TooLong

LEMMA DatagramUnderstood ==
    ASSUME kind = "datagram", NEW n \in 1..TU!MaxDatagramSize, NEW m, m = [type |-> "datagram", text |-> n]
    PROVE  Understood(m, TU!Encode(m))
<1> DEFINE e == TU!Encode(m)
<1>0. n \in Nat \ {0} /\ InU16(n)
  BY Fitting, Zenon
<1>1. ~(m.type = "error") /\ m.text = n
  OBVIOUS
<1>2. e = TU!Prefixed(n)
  BY <1>1, EncodeIs, Zenon DEF TU!Prefixed
<1>. HIDE DEF e
<1>3. Couple(e, 2, n, n, n)
  BY <1>0, <1>2, PrefixedIs, Zenon
<1>4. e \in Seq(Fields) /\ Len(e) = 2 /\ Cell(e, 1, 2, n) /\ Cell(e, 2, n, n)
  BY <1>3, Zenon DEF Couple
<1>5. Len(e) >= 1
  BY <1>4
<1>6. (wire \in Seq(Fields) /\ Agrees(wire, e)) => ReadsAs(TU!Decode, wire, m, e)
  BY <1>4, DatagramReads, DecodeIs, Zenon
<1>. QED  BY <1>1, <1>4, <1>5, <1>6, PlainUnderstood, Zenon DEF e

LEMMA HeaderIs ==
    ASSUME NEW tok \in Nat, NEW c \in Nat, InByte(c)
    PROVE  Triple(TU!Header(tok, c), 4, "magic", 1, c, 32, tok)
<1>1. Single(TU!Field(4, "magic"), 4, "magic") /\ Single(TU!Field(32, tok), 32, tok)
  <2>1. "magic" \in Nat \cup Words
    BY DEF Words
  <2>2. 4 \in Nat \ {0} /\ 32 \in Nat \ {0} /\ tok \in Nat \cup Words
    OBVIOUS
  <2>. QED  BY <2>1, <2>2, Singles, Zenon
<1>2. Single(TU!Byte(c), 1, c)
  BY Bytes, Zenon
<1>3. Couple(TU!Field(4, "magic") \o TU!Byte(c), 4, "magic", 1, c)
  BY <1>1, <1>2, Couples, Zenon
<1>. QED  BY <1>1, <1>3, CoupleSingle, Zenon DEF TU!Header

LEMMA AcceptUnderstood ==
    ASSUME kind = "accept", NEW tok \in Nat \ {0}, NEW str \in Nat,
           NEW m, m = [type |-> "accept", token |-> tok, stream |-> str]
    PROVE  Understood(m, TU!Encode(m))
<1> DEFINE e == TU!Encode(m)
<1>1. ~(m.type = "error") /\ m.token = tok /\ m.stream = str
  OBVIOUS
<1>2. e = TU!Header(tok, TU!CommandAccept) \o TU!U64(str)
  BY <1>1, EncodeIs, Zenon
<1>. HIDE DEF e
<1>3. Quartet(e, 4, "magic", 1, TU!CommandAccept, 32, tok, 8, str)
  <2>1. TU!CommandAccept \in Nat /\ InByte(TU!CommandAccept) /\ tok \in Nat
    BY DEF TU!CommandAccept, InByte
  <2>2. Triple(TU!Header(tok, TU!CommandAccept), 4, "magic", 1, TU!CommandAccept, 32, tok)
    BY <2>1, HeaderIs, Zenon
  <2>3. Single(TU!U64(str), 8, str)
    BY Bytes, Zenon
  <2>. QED  BY <1>2, <2>2, <2>3, TripleSingle, Zenon
<1>4. /\ e \in Seq(Fields) /\ Len(e) = 4 /\ Cell(e, 1, 4, "magic") /\ Cell(e, 2, 1, TU!CommandAccept)
      /\ Cell(e, 3, 32, tok) /\ Cell(e, 4, 8, str)
  BY <1>3, Zenon DEF Quartet
<1>5. Len(e) >= 1
  BY <1>4
<1>6. (wire \in Seq(Fields) /\ Agrees(wire, e)) => ReadsAs(TU!Decode, wire, m, e)
  <2>1. TU!Decode = TU!ReadSessionHeader(wire)
    BY DecodeIs
  <2>. QED  BY <1>4, <2>1, AcceptReads, Zenon
<1>. QED  BY <1>1, <1>4, <1>5, <1>6, PlainUnderstood, Zenon DEF e

LEMMA OpenUnderstood ==
    ASSUME kind = "open", NEW tok \in Nat \ {0}, NEW c \in {1, 2}, NEW n \in 1..TU!maxHostSize,
           NEW prt \in TU!Ports \ {0},
           NEW m, m = [type |-> "open", token |-> tok, command |-> c, host |-> n, port |-> prt]
    PROVE  Understood(m, TU!Encode(m))
<1> DEFINE e == TU!Encode(m)
<1>0. n \in Nat \ {0} /\ InU16(n) /\ prt \in Nat \ {0} /\ prt \in Nat /\ InU16(prt)
  BY Fitting, Zenon
<1>1. ~(m.type = "error") /\ m.token = tok /\ m.command = c /\ m.host = n /\ m.port = prt
  OBVIOUS
<1>2. e = TU!Header(tok, c) \o TU!Prefixed(n) \o TU!U16(prt)
  BY <1>1, EncodeIs, Zenon
<1>. HIDE DEF e
<1>3. Sextet(e, 4, "magic", 1, c, 32, tok, 2, n, n, n, 2, prt)
  <2>1. c \in Nat /\ InByte(c) /\ tok \in Nat
    BY DEF InByte
  <2>2. Triple(TU!Header(tok, c), 4, "magic", 1, c, 32, tok)
    BY <2>1, HeaderIs, Zenon
  <2>3. Couple(TU!Prefixed(n), 2, n, n, n) /\ Single(TU!U16(prt), 2, prt)
    BY <1>0, PrefixedIs, Bytes, Zenon
  <2>4. Quintet(TU!Header(tok, c) \o TU!Prefixed(n), 4, "magic", 1, c, 32, tok, 2, n, n, n)
    BY <2>2, <2>3, TripleCouple, Zenon
  <2>. QED  BY <1>2, <2>3, <2>4, QuintetSingle, Zenon
<1>4. /\ e \in Seq(Fields) /\ Len(e) = 6 /\ Cell(e, 1, 4, "magic") /\ Cell(e, 2, 1, c)
      /\ Cell(e, 3, 32, tok) /\ Cell(e, 4, 2, n) /\ Cell(e, 5, n, n) /\ Cell(e, 6, 2, prt)
  BY <1>3, Zenon DEF Sextet
<1>5. Len(e) >= 1
  BY <1>4
<1>6. (wire \in Seq(Fields) /\ Agrees(wire, e)) => ReadsAs(TU!Decode, wire, m, e)
  <2>1. TU!Decode = TU!ReadSessionHeader(wire)
    BY DecodeIs
  <2>. QED  BY <1>0, <1>4, <2>1, OpenReads, Zenon
<1>. QED  BY <1>1, <1>4, <1>5, <1>6, PlainUnderstood, Zenon DEF e

LEMMA StatusUnderstood ==
    ASSUME kind = "status", NEW n \in Nat, n <= TU!maxErrorSize, NEW k \in BOOLEAN, k => n = 0,
           NEW m, m = [type |-> "status", ok |-> k, text |-> n]
    PROVE  Understood(m, TU!Encode(m))
<1> DEFINE e == TU!Encode(m)
<1>0. InU16(n) /\ InByte(0) /\ InByte(1) /\ 0 \in Nat /\ 1 \in Nat /\ InU16(0)
  <2>1. InU16(n)
    BY Fitting
  <2>2. InByte(0) /\ InByte(1) /\ InU16(0)
    BY DEF InByte, InU16
  <2>. QED  BY <2>1, <2>2
<1>1. ~(m.type = "error") /\ (m.ok <=> k) /\ m.text = n
  OBVIOUS
<1>2. (k => e = TU!Byte(0)) /\ (~k => e = TU!Byte(1) \o TU!Prefixed(n))
  BY <1>1, EncodeIs, Zenon
<1>. HIDE DEF e
<1>3. TU!Decode = TU!ReadStatus(wire)
  BY DecodeIs, Zenon
<1>4. CASE k
  <2>1. Single(e, 1, 0)
    BY <1>0, <1>2, <1>4, Bytes, Zenon
  <2>2. e \in Seq(Fields) /\ Len(e) = 1 /\ Cell(e, 1, 1, 0)
    BY <2>1, Zenon DEF Single
  <2>3. Len(e) >= 1 /\ m = [type |-> "status", ok |-> TRUE, text |-> 0]
    BY <1>4, <2>2
  <2>4. (wire \in Seq(Fields) /\ Agrees(wire, e)) => ReadsAs(TU!Decode, wire, m, e)
    BY <1>3, <2>2, <2>3, OkStatusReads, Zenon
  <2>. QED  BY <1>1, <2>2, <2>3, <2>4, PlainUnderstood, Zenon DEF e
<1>5. CASE ~k /\ n = 0
  <2>1. Couple(e, 1, 1, 2, 0)
    <3>1. Single(TU!Byte(1), 1, 1) /\ Single(TU!U16(0), 2, 0)
      BY <1>0, Bytes, Zenon
    <3>2. TU!Prefixed(0) = TU!U16(0)
      <4>1. TU!Text(0) = <<>>
        BY DEF TU!Text
      <4>2. TU!U16(0) \in Seq(Fields)
        BY <3>1, Zenon DEF Single
      <4>. QED  BY <4>1, <4>2, ConcatEmptySeq, Zenon DEF TU!Prefixed
    <3>. QED  BY <1>2, <1>5, <3>1, <3>2, Couples, Zenon
  <2>2. e \in Seq(Fields) /\ Len(e) = 2 /\ Cell(e, 1, 1, 1) /\ Cell(e, 2, 2, 0)
    BY <2>1, Zenon DEF Couple
  <2>3. Len(e) >= 1 /\ m = [type |-> "status", ok |-> FALSE, text |-> 0]
    <3>1. Len(e) >= 1
      BY <2>2
    <3>2. k = FALSE
      BY <1>5, Zenon
    <3>. QED  BY <1>5, <3>1, <3>2, Zenon
  <2>4. (wire \in Seq(Fields) /\ Agrees(wire, e)) => ReadsAs(TU!Decode, wire, m, e)
    BY <1>3, <2>2, <2>3, EmptyStatusReads, Zenon
  <2>. QED  BY <1>1, <2>2, <2>3, <2>4, PlainUnderstood, Zenon DEF e
<1>6. CASE ~k /\ n # 0
  <2>0. n \in Nat \ {0}
    BY <1>6
  <2>1. Triple(e, 1, 1, 2, n, n, n)
    <3>1. Single(TU!Byte(1), 1, 1)
      BY <1>0, Bytes, Zenon
    <3>2. Couple(TU!Prefixed(n), 2, n, n, n)
      BY <1>0, <2>0, PrefixedIs, Zenon
    <3>. QED  BY <1>2, <1>6, <3>1, <3>2, SingleCouple, Zenon
  <2>2. e \in Seq(Fields) /\ Len(e) = 3 /\ Cell(e, 1, 1, 1) /\ Cell(e, 2, 2, n) /\ Cell(e, 3, n, n)
    BY <2>1, Zenon DEF Triple
  <2>3. Len(e) >= 1 /\ m = [type |-> "status", ok |-> FALSE, text |-> n]
    <3>1. Len(e) >= 1
      BY <2>2
    <3>2. k = FALSE
      BY <1>6, Zenon
    <3>. QED  BY <1>6, <3>1, <3>2, Zenon
  <2>4. (wire \in Seq(Fields) /\ Agrees(wire, e)) => ReadsAs(TU!Decode, wire, m, e)
    BY <1>3, <2>0, <2>2, <2>3, ErrorStatusReads, Zenon
  <2>. QED  BY <1>1, <2>2, <2>3, <2>4, PlainUnderstood, Zenon DEF e
<1>. QED  BY <1>4, <1>5, <1>6

LEMMA AddressUnderstood ==
    ASSUME kind = "socks", NEW prt \in TU!Ports \ {0}, NEW h \in {"v4", "v6", "name"}, NEW n \in Nat \ {0},
           InByte(n), h = "v4" => n = 4, h = "v6" => n = 16,
           NEW m, m = [type |-> "socks", host |-> h, size |-> n, port |-> prt]
    PROVE  Understood(m, TU!Encode(m))
<1> DEFINE e == TU!Encode(m)
<1>0. prt \in Nat /\ InU16(prt) /\ n \in Nat /\ n # 0
  BY Fitting, Zenon
<1>1. ~(m.type = "error") /\ m.host = h /\ m.size = n /\ m.port = prt
  OBVIOUS
<1>2. e = TU!Field(1, h) \o (IF h = "name" THEN TU!Byte(n) ELSE <<>>) \o TU!Text(n) \o TU!U16(prt)
  BY <1>1, EncodeIs, Zenon
<1>. HIDE DEF e
<1>3. TU!Decode = TU!readAddress(wire)
  BY DecodeIs, Zenon
<1>4. /\ Single(TU!Field(1, h), 1, h) /\ Single(TU!Byte(n), 1, n)
      /\ Single(TU!Text(n), n, n) /\ Single(TU!U16(prt), 2, prt)
  <2>1. h \in Nat \cup Words /\ 1 \in Nat \ {0}
    BY DEF Words
  <2>. QED  BY <1>0, <2>1, Singles, Bytes, Zenon
<1>5. ASSUME h # "name"
      PROVE  e \in Seq(Fields) /\ Len(e) = 3 /\ Cell(e, 1, 1, h) /\ Cell(e, 2, n, n) /\ Cell(e, 3, 2, prt)
  <2>1. TU!Field(1, h) \o <<>> = TU!Field(1, h)
    <3>1. TU!Field(1, h) \in Seq(Fields)
      BY <1>4, Zenon DEF Single
    <3>. QED  BY <3>1, ConcatEmptySeq, Zenon
  <2>2. e = TU!Field(1, h) \o TU!Text(n) \o TU!U16(prt)
    BY <1>2, <1>5, <2>1, Zenon
  <2>3. Couple(TU!Field(1, h) \o TU!Text(n), 1, h, n, n)
    BY <1>4, Couples, Zenon
  <2>4. Triple(e, 1, h, n, n, 2, prt)
    BY <1>4, <2>2, <2>3, CoupleSingle, Zenon
  <2>. QED  BY <2>4, Zenon DEF Triple
<1>6. CASE h = "v4"
  <2>1. h # "name" /\ n = 4
    BY <1>6
  <2>2. e \in Seq(Fields) /\ Len(e) = 3 /\ Cell(e, 1, 1, "v4") /\ Cell(e, 2, 4, 4) /\ Cell(e, 3, 2, prt)
    BY <1>5, <1>6, <2>1, Zenon
  <2>3. Len(e) >= 1 /\ m = [type |-> "socks", host |-> "v4", size |-> 4, port |-> prt]
    BY <1>6, <2>1, <2>2
  <2>4. (wire \in Seq(Fields) /\ Agrees(wire, e)) => ReadsAs(TU!Decode, wire, m, e)
    BY <1>3, <2>2, <2>3, SocksV4Reads, Zenon
  <2>. QED  BY <1>1, <2>2, <2>3, <2>4, PlainUnderstood, Zenon DEF e
<1>7. CASE h = "v6"
  <2>1. h # "name" /\ n = 16
    BY <1>7
  <2>2. e \in Seq(Fields) /\ Len(e) = 3 /\ Cell(e, 1, 1, "v6") /\ Cell(e, 2, 16, 16) /\ Cell(e, 3, 2, prt)
    BY <1>5, <1>7, <2>1, Zenon
  <2>3. Len(e) >= 1 /\ m = [type |-> "socks", host |-> "v6", size |-> 16, port |-> prt]
    BY <1>7, <2>1, <2>2
  <2>4. (wire \in Seq(Fields) /\ Agrees(wire, e)) => ReadsAs(TU!Decode, wire, m, e)
    BY <1>3, <2>2, <2>3, SocksV6Reads, Zenon
  <2>. QED  BY <1>1, <2>2, <2>3, <2>4, PlainUnderstood, Zenon DEF e
<1>8. CASE h = "name"
  <2>1. e = TU!Field(1, h) \o TU!Byte(n) \o TU!Text(n) \o TU!U16(prt)
    BY <1>2, <1>8, Zenon
  <2>2. Couple(TU!Field(1, h) \o TU!Byte(n), 1, h, 1, n)
    BY <1>4, Couples, Zenon
  <2>3. Triple(TU!Field(1, h) \o TU!Byte(n) \o TU!Text(n), 1, h, 1, n, n, n)
    BY <1>4, <2>2, CoupleSingle, Zenon
  <2>4. Quartet(e, 1, h, 1, n, n, n, 2, prt)
    BY <1>4, <2>1, <2>3, TripleSingle, Zenon
  <2>5. e \in Seq(Fields) /\ Len(e) = 4 /\ Cell(e, 1, 1, "name") /\ Cell(e, 2, 1, n) /\ Cell(e, 3, n, n) /\ Cell(e, 4, 2, prt)
    BY <1>8, <2>4, Zenon DEF Quartet
  <2>6. Len(e) >= 1 /\ m = [type |-> "socks", host |-> "name", size |-> n, port |-> prt]
    BY <1>8, <2>5
  <2>7. (wire \in Seq(Fields) /\ Agrees(wire, e)) => ReadsAs(TU!Decode, wire, m, e)
    BY <1>3, <2>5, <2>6, SocksNameReads, Zenon
  <2>. QED  BY <1>1, <2>5, <2>6, <2>7, PlainUnderstood, Zenon DEF e
<1>. QED  BY <1>6, <1>7, <1>8

-----------------------------------------------------------------------------
(* The messages that a connection may carry, as they are carried.          *)
Sendable(k) == {TU!Carried(m) : m \in {x \in TU!Messages[k] : TU!Accepts(x)}}

LEMMA KindsAre ==
    /\ DOMAIN TU!Messages = {"control", "datagram", "open", "accept", "status", "socks"}
    /\ TU!Messages["control"] =
         [type : {"register"}, id : TU!Ids, net : 0..3, port : TU!Ports]
         \cup [type : {"unregister"}, id : TU!Ids] \cup [type : {"ack"}]
         \cup [type : {"ready"}, id : TU!Ids, net : 0..3, stream : {0, 1}]
         \cup [type : {"error"}, text : {0, 1, TU!MaxControlSize, TU!MaxControlSize + 1, TU!maxErrorSize + 1}]
    /\ TU!Messages["datagram"] =
         [type : {"datagram"}, text : {0, 1, TU!MaxDatagramSize, TU!MaxDatagramSize + 1}]
    /\ TU!Messages["open"] =
         [type : {"open"}, token : {0, 1}, command : 1..3, port : TU!Ports,
          host : {0, 1, TU!maxHostSize, TU!maxHostSize + 1}]
    /\ TU!Messages["accept"] = [type : {"accept"}, token : {0, 1}, stream : {0, 1}]
    /\ TU!Messages["status"] =
         [type : {"status"}, ok : {TRUE}, text : {0}]
         \cup [type : {"status"}, ok : {FALSE}, text : {0, 1, TU!maxErrorSize, TU!maxErrorSize + 1}]
    /\ TU!Messages["socks"] =
         [type : {"socks"}, host : {"v4", "v6"} \cup {"name"}, size : {0, 1, 255, 256}, port : TU!Ports]
  BY DEF TU!Messages

LEMMA AcceptsIs ==
    ASSUME NEW m, TU!Accepts(m)
    PROVE  /\ m.type = "register" => TU!ValidID(m.id) /\ m.net \in TU!Networks /\ m.port # 0
           /\ m.type = "unregister" => TU!ValidID(m.id)
           /\ m.type = "ready" => TU!ValidID(m.id) /\ m.stream # 0 /\ m.net \in TU!Networks
           /\ m.type = "error" => m.text # 0
           /\ m.type = "datagram" => m.text \in 1..TU!MaxDatagramSize
           /\ m.type = "open" => m.token # 0 /\ m.command \in {1, 2} /\ m.port # 0 /\ m.host \in 1..TU!maxHostSize
           /\ m.type = "accept" => m.token # 0
           /\ m.type = "socks" => m.port # 0 /\ (m.host = "name" => m.size \in 1..255)
  BY DEF TU!Accepts

LEMMA CarriedIs ==
    ASSUME NEW m
    PROVE  /\ m.type \notin {"error", "status", "socks"} => TU!Carried(m) = m
           /\ m.type \in {"error", "status"} =>
                TU!Carried(m) = [m EXCEPT !.text = IF @ > TU!maxErrorSize THEN TU!maxErrorSize ELSE @]
           /\ m.type = "socks" =>
                TU!Carried(m) = [m EXCEPT !.size = CASE m.host = "v4" -> 4 [] m.host = "v6" -> 16 [] OTHER -> @]
  BY DEF TU!Carried

LEMMA ControlSendable ==
    ASSUME kind = "control", NEW m \in TU!Messages["control"], TU!Accepts(m)
    PROVE  Understood(TU!Carried(m), TU!Encode(TU!Carried(m)))
<1>1. CASE m \in [type : {"register"}, id : TU!Ids, net : 0..3, port : TU!Ports]
  <2>1. m.type = "register" /\ m.port \in TU!Ports
        /\ m = [type |-> "register", id |-> m.id, net |-> m.net, port |-> m.port]
    BY <1>1
  <2>2. TU!ValidID(m.id) /\ m.net \in TU!Networks /\ m.port # 0
    BY <2>1, AcceptsIs, Zenon
  <2>3. TU!Carried(m) = m
    BY <2>1, CarriedIs
  <2>4. m.port \in TU!Ports \ {0}
    BY <2>1, <2>2
  <2>. QED  BY <2>1, <2>2, <2>3, <2>4, RegisterUnderstood, Zenon
<1>2. CASE m \in [type : {"unregister"}, id : TU!Ids]
  <2>1. m.type = "unregister" /\ m = [type |-> "unregister", id |-> m.id]
    BY <1>2
  <2>2. TU!ValidID(m.id)
    BY <2>1, AcceptsIs, Zenon
  <2>3. TU!Carried(m) = m
    BY <2>1, CarriedIs
  <2>. QED  BY <2>1, <2>2, <2>3, UnregisterUnderstood, Zenon
<1>3. CASE m \in [type : {"ack"}]
  <2>1. m.type = "ack" /\ m = [type |-> "ack"]
    BY <1>3
  <2>3. TU!Carried(m) = m
    BY <2>1, CarriedIs
  <2>. QED  BY <2>1, <2>3, AckUnderstood, Zenon
<1>4. CASE m \in [type : {"ready"}, id : TU!Ids, net : 0..3, stream : {0, 1}]
  <2>1. m.type = "ready" /\ m.stream \in {0, 1}
        /\ m = [type |-> "ready", id |-> m.id, net |-> m.net, stream |-> m.stream]
    BY <1>4
  <2>2. TU!ValidID(m.id) /\ m.net \in TU!Networks /\ m.stream # 0
    BY <2>1, AcceptsIs, Zenon
  <2>3. TU!Carried(m) = m
    BY <2>1, CarriedIs
  <2>4. m.stream \in Nat \ {0}
    BY <2>1, <2>2
  <2>. QED  BY <2>1, <2>2, <2>3, <2>4, ReadyUnderstood, Zenon
<1>5. CASE m \in [type : {"error"}, text : {0, 1, TU!MaxControlSize, TU!MaxControlSize + 1, TU!maxErrorSize + 1}]
  <2> DEFINE n == IF m.text > TU!maxErrorSize THEN TU!maxErrorSize ELSE m.text
  <2>1. /\ m.type = "error" /\ m = [type |-> "error", text |-> m.text]
        /\ m.text \in {0, 1, TU!MaxControlSize, TU!MaxControlSize + 1, TU!maxErrorSize + 1}
    BY <1>5
  <2>2. m.text # 0
    BY <2>1, AcceptsIs, Zenon
  <2>3. n \in Nat \ {0} /\ n <= TU!maxErrorSize
    BY <2>1, <2>2 DEF TU!MaxControlSize, TU!maxErrorSize, TU!maxHostSize, TU!maxIDSize
  <2>4. TU!Carried(m) = [type |-> "error", text |-> n]
    <3>1. TU!Carried(m) = [m EXCEPT !.text = n]
      BY <2>1, CarriedIs, Zenon
    <3>. HIDE DEF n
    <3>. QED  BY <2>1, <3>1
  <2>. HIDE DEF n
  <2>. QED  BY <2>3, <2>4, ErrorUnderstood, Zenon
<1>. QED  BY <1>1, <1>2, <1>3, <1>4, <1>5, KindsAre, Zenon

LEMMA OpeningSendable ==
    ASSUME kind \in {"datagram", "open", "accept"}, NEW m \in TU!Messages[kind], TU!Accepts(m)
    PROVE  Understood(TU!Carried(m), TU!Encode(TU!Carried(m)))
<1>1. CASE kind = "datagram"
  <2>1. m.type = "datagram" /\ m = [type |-> "datagram", text |-> m.text]
    BY <1>1, KindsAre
  <2>2. m.text \in 1..TU!MaxDatagramSize
    BY <2>1, AcceptsIs, Zenon
  <2>3. TU!Carried(m) = m
    BY <2>1, CarriedIs
  <2>. QED  BY <1>1, <2>1, <2>2, <2>3, DatagramUnderstood, Zenon
<1>2. CASE kind = "open"
  <2>1. /\ m.type = "open" /\ m.token \in {0, 1} /\ m.port \in TU!Ports
        /\ m = [type |-> "open", token |-> m.token, command |-> m.command, host |-> m.host, port |-> m.port]
    BY <1>2, KindsAre
  <2>2. m.token # 0 /\ m.command \in {1, 2} /\ m.port # 0 /\ m.host \in 1..TU!maxHostSize
    BY <2>1, AcceptsIs, Zenon
  <2>3. TU!Carried(m) = m
    BY <2>1, CarriedIs
  <2>4. m.token \in Nat \ {0} /\ m.port \in TU!Ports \ {0}
    BY <2>1, <2>2
  <2>. QED  BY <1>2, <2>1, <2>2, <2>3, <2>4, OpenUnderstood, Zenon
<1>3. CASE kind = "accept"
  <2>1. /\ m.type = "accept" /\ m.token \in {0, 1} /\ m.stream \in {0, 1}
        /\ m = [type |-> "accept", token |-> m.token, stream |-> m.stream]
    BY <1>3, KindsAre
  <2>2. m.token # 0
    BY <2>1, AcceptsIs, Zenon
  <2>3. TU!Carried(m) = m
    BY <2>1, CarriedIs
  <2>4. m.token \in Nat \ {0} /\ m.stream \in Nat
    BY <2>1, <2>2
  <2>. QED  BY <1>3, <2>1, <2>3, <2>4, AcceptUnderstood, Zenon
<1>. QED  BY <1>1, <1>2, <1>3

LEMMA StatusSendable ==
    ASSUME kind = "status", NEW m \in TU!Messages["status"], TU!Accepts(m)
    PROVE  Understood(TU!Carried(m), TU!Encode(TU!Carried(m)))
<1> DEFINE n == IF m.text > TU!maxErrorSize THEN TU!maxErrorSize ELSE m.text
<1>1. /\ m.type = "status" /\ m.ok \in BOOLEAN /\ (m.ok => m.text = 0)
      /\ m = [type |-> "status", ok |-> m.ok, text |-> m.text]
      /\ m.text \in {0, 1, TU!maxErrorSize, TU!maxErrorSize + 1}
  <2>1. CASE m \in [type : {"status"}, ok : {TRUE}, text : {0}]
    BY <2>1
  <2>2. CASE m \in [type : {"status"}, ok : {FALSE}, text : {0, 1, TU!maxErrorSize, TU!maxErrorSize + 1}]
    BY <2>2
  <2>. QED  BY <2>1, <2>2, KindsAre, Zenon
<1>2. n \in Nat /\ n <= TU!maxErrorSize /\ (m.ok => n = 0)
  BY <1>1 DEF TU!maxErrorSize
<1>3. TU!Carried(m) = [type |-> "status", ok |-> m.ok, text |-> n]
  <2>1. TU!Carried(m) = [m EXCEPT !.text = n]
    BY <1>1, CarriedIs, Zenon
  <2>. HIDE DEF n
  <2>. QED  BY <1>1, <2>1
<1>. HIDE DEF n
<1>. QED  BY <1>1, <1>2, <1>3, StatusUnderstood, Zenon

LEMMA AddressSendable ==
    ASSUME kind = "socks", NEW m \in TU!Messages["socks"], TU!Accepts(m)
    PROVE  Understood(TU!Carried(m), TU!Encode(TU!Carried(m)))
<1> DEFINE n == CASE m.host = "v4" -> 4 [] m.host = "v6" -> 16 [] OTHER -> m.size
<1>1. /\ m.type = "socks" /\ m.host \in {"v4", "v6", "name"} /\ m.port \in TU!Ports
      /\ m = [type |-> "socks", host |-> m.host, size |-> m.size, port |-> m.port]
  BY KindsAre
<1>2. m.port # 0 /\ (m.host = "name" => m.size \in 1..255)
  BY <1>1, AcceptsIs, Zenon
<1>3. n \in Nat \ {0} /\ InByte(n) /\ (m.host = "v4" => n = 4) /\ (m.host = "v6" => n = 16)
  BY <1>1, <1>2 DEF InByte
<1>4. TU!Carried(m) = [type |-> "socks", host |-> m.host, size |-> n, port |-> m.port]
  <2>1. TU!Carried(m) = [m EXCEPT !.size = n]
    BY <1>1, CarriedIs, Zenon
  <2>. HIDE DEF n
  <2>. QED  BY <1>1, <2>1
<1>5. m.port \in TU!Ports \ {0}
  BY <1>1, <1>2
<1>. HIDE DEF n
<1>. QED  BY <1>1, <1>3, <1>4, <1>5, AddressUnderstood, Zenon

(* Every message that a writer accepts is understood.                      *)
LEMMA SendableUnderstood ==
    ASSUME kind \in DOMAIN TU!Messages, NEW x \in Sendable(kind)
    PROVE  Understood(x, TU!Encode(x))
<1>1. PICK m \in TU!Messages[kind] : TU!Accepts(m) /\ x = TU!Carried(m)
  BY Zenon DEF Sendable
<1>2. kind \in {"control", "datagram", "open", "accept", "status", "socks"}
  BY KindsAre, Zenon
<1>3. CASE kind = "control"
  BY <1>1, <1>3, ControlSendable, Zenon
<1>4. CASE kind \in {"datagram", "open", "accept"}
  BY <1>1, <1>4, OpeningSendable, Zenon
<1>5. CASE kind = "status"
  BY <1>1, <1>5, StatusSendable, Zenon
<1>6. CASE kind = "socks"
  BY <1>1, <1>6, AddressSendable, Zenon
<1>. QED  BY <1>2, <1>3, <1>4, <1>5, <1>6

(* A reader waits for a connection that carries nothing.                   *)
LEMMA NothingToRead ==
    ASSUME kind \in DOMAIN TU!Messages, wire \in Seq(Fields), Len(wire) = 0
    PROVE  TU!Decode = TU!Short
<1>1. Measured(wire) /\ TU!Width(wire) = 0
  BY WidthMeasures, WidthOf
<1>2. Lacks(wire, 1) /\ Lacks(wire, 2) /\ TU!Width(wire) < 37
  BY <1>1 DEF Lacks
<1>3. kind \in {"control", "datagram", "open", "accept", "status", "socks"}
  BY KindsAre, Zenon
<1>4. TU!ReadControlMessage(wire) = TU!Short
  BY <1>2, Zenon DEF Lacks, TU!ReadControlMessage, TU!Take
<1>5. TU!ReadDatagram(wire) = TU!Short
  BY <1>2, Zenon DEF Lacks, TU!ReadDatagram, TU!Take
<1>6. TU!ReadSessionHeader(wire) = TU!Short
  BY <1>2, Zenon DEF TU!ReadSessionHeader
<1>7. TU!ReadStatus(wire) = TU!Short
  BY <1>2, Zenon DEF Lacks, TU!ReadStatus, TU!Take
<1>8. TU!readAddress(wire) = TU!Short
  BY <1>2, Zenon DEF Lacks, TU!readAddress, TU!Take
<1>. QED  BY <1>3, <1>4, <1>5, <1>6, <1>7, <1>8, DecodeIs

-----------------------------------------------------------------------------
(* What is on the wire w of a connection that has carried n messages, e[i] *)
(* the fields of message i, of which the reader has had g: p[i] is where   *)
(* message i ends, and the wire holds what comes after p[g], all of it     *)
(* unless the connection is broken (x).                                    *)
At(p, i) == p[i]
Size(e, i) == Len(e[i])
Ends(p, e, n) == \A i \in 1..n : At(p, i) = At(p, i - 1) + Size(e, i)
Rises(p, n) == \A i, j \in 0..n : i <= j => At(p, i) <= At(p, j)
Shows(p, e, n, g, w) ==
    \A i \in (g + 1)..n : \A j \in 1..Size(e, i) :
        At(p, i - 1) + j <= At(p, g) + Len(w) => w[(At(p, i - 1) + j) - At(p, g)] = e[i][j]
Sized(p, e, n) == p \in [Nat -> Nat] /\ e \in [1..n -> Seq(Fields)]
Layout(p, e, n, g, w, x) ==
    /\ Sized(p, e, n) /\ w \in Seq(Fields)
    /\ Ends(p, e, n) /\ Rises(p, n) /\ Shows(p, e, n, g, w)
    /\ At(p, g) + Len(w) <= At(p, n)
    /\ ~x => At(p, g) + Len(w) = At(p, n)

LEMMA Within ==
    ASSUME NEW a \in Nat, NEW b \in Nat, b <= a, NEW j \in Nat \ {0}, NEW k \in Nat, a + j <= b + k
    PROVE  (a + j) - b \in 1..k
  OBVIOUS

LEMMA Shifted ==
    ASSUME NEW a \in Nat, NEW b \in Nat, NEW c \in Nat, NEW l \in Nat, NEW j \in Nat, a = b + l
    PROVE  l + ((c + j) - a) = (c + j) - b
  OBVIOUS

LEMMA PositionsSized ==
    ASSUME NEW n \in Nat, NEW p, NEW e, Sized(p, e, n)
    PROVE  (\A i \in Nat : At(p, i) \in Nat) /\ \A i \in 1..n : Size(e, i) \in Nat /\ e[i] \in Seq(Fields)
<1>1. \A i \in Nat : At(p, i) \in Nat
  BY DEF Sized, At
<1>2. \A i \in 1..n : e[i] \in Seq(Fields)
  BY DEF Sized
<1>3. \A i \in 1..n : Size(e, i) \in Nat
  BY <1>2, FieldsOf DEF Size
<1>. QED  BY <1>1, <1>2, <1>3

LEMMA LayoutNumbers ==
    ASSUME NEW n \in Nat, NEW w, NEW p, NEW e, NEW x, NEW g \in Nat, Layout(p, e, n, g, w, x)
    PROVE  Len(w) \in Nat /\ (\A i \in Nat : At(p, i) \in Nat) /\ \A i \in 1..n : Size(e, i) \in Nat
  BY FieldsOf, PositionsSized DEF Layout

LEMMA LayoutStep ==
    ASSUME NEW n \in Nat, NEW w, NEW x, NEW p, NEW e, NEW g \in Nat, Layout(p, e, n, g, w, x), NEW i \in 1..n
    PROVE  /\ Size(e, i) \in Nat /\ At(p, i) \in Nat /\ At(p, i - 1) \in Nat /\ At(p, i) = At(p, i - 1) + Size(e, i)
           /\ At(p, i) <= At(p, n) /\ (g < i => At(p, g) <= At(p, i - 1))
<1>1. i \in 0..n /\ i - 1 \in 0..n /\ i \in Nat /\ i - 1 \in Nat /\ i <= n /\ n \in 0..n
  OBVIOUS
<1>2. At(p, i) \in Nat /\ At(p, i - 1) \in Nat /\ Size(e, i) \in Nat
  BY <1>1, LayoutNumbers, Zenon
<1>4. At(p, i) = At(p, i - 1) + Size(e, i)
  BY Zenon DEF Layout, Ends
<1>5. At(p, i) <= At(p, n)
  BY <1>1, Zenon DEF Layout, Rises
<1>6. ASSUME g < i  PROVE At(p, g) <= At(p, i - 1)
  <2>1. g \in 0..n /\ g <= i - 1
    BY <1>1, <1>6
  <2>. QED  BY <1>1, <2>1, Zenon DEF Layout, Rises
<1>. QED  BY <1>2, <1>4, <1>5, <1>6

(* Where field j of message i is.                                          *)
LEMMA LayoutPlace ==
    ASSUME NEW n \in Nat, NEW w, NEW x, NEW p, NEW e, NEW g \in Nat, g <= n, Layout(p, e, n, g, w, x),
           NEW i \in (g + 1)..n, NEW j \in 1..Size(e, i), NEW k \in Nat, At(p, i - 1) + j <= At(p, g) + k
    PROVE  (At(p, i - 1) + j) - At(p, g) \in 1..k
<1>1. i \in 1..n /\ g < i
  OBVIOUS
<1>2. At(p, i - 1) \in Nat /\ At(p, g) \in Nat /\ At(p, g) <= At(p, i - 1) /\ Size(e, i) \in Nat /\ Len(w) \in Nat
  BY <1>1, LayoutStep, LayoutNumbers, Zenon
<1>3. j \in Nat \ {0}
  BY <1>2
<1>. QED  BY <1>2, <1>3, Within, Zenon

LEMMA LayoutNext ==
    ASSUME NEW n \in Nat, NEW w, NEW x, NEW p, NEW e, NEW g \in Nat, g < n, Layout(p, e, n, g, w, x)
    PROVE  Agrees(w, e[g + 1])
<1>0. g + 1 \in (g + 1)..n /\ (g + 1) - 1 = g /\ g + 1 \in 1..n
  OBVIOUS
<1>1. Len(w) \in Nat /\ At(p, g) \in Nat /\ Size(e, g + 1) \in Nat
  BY <1>0, LayoutNumbers, Zenon
<1>2. \A j \in 1..Size(e, g + 1) : At(p, g) + j <= At(p, g) + Len(w) => w[(At(p, g) + j) - At(p, g)] = e[g + 1][j]
  BY <1>0, Zenon DEF Layout, Shows
<1>3. ASSUME NEW j \in 1..Size(e, g + 1), j <= Len(w)  PROVE w[j] = e[g + 1][j]
  <2>1. At(p, g) + j <= At(p, g) + Len(w) /\ (At(p, g) + j) - At(p, g) = j
    BY <1>1, <1>3
  <2>. QED  BY <1>2, <2>1, Zenon
<1>. QED  BY <1>3, Zenon DEF Agrees, Size

LEMMA LayoutEnds ==
    ASSUME NEW n \in Nat, NEW w, NEW x, NEW p, NEW e, NEW g \in Nat, g <= n, Layout(p, e, n, g, w, x)
    PROVE  /\ g = n => Len(w) = 0
           /\ (~x /\ Len(w) = 0 /\ \A i \in 1..n : Size(e, i) >= 1) => g = n
<1>0. Len(w) \in Nat /\ At(p, g) \in Nat /\ At(p, n) \in Nat
  BY LayoutNumbers, Zenon
<1>1. At(p, g) + Len(w) <= At(p, n) /\ (~x => At(p, g) + Len(w) = At(p, n))
  BY Zenon DEF Layout
<1>2. g = n => Len(w) = 0
  BY <1>0, <1>1
<1>3. ASSUME ~x, Len(w) = 0, \A i \in 1..n : Size(e, i) >= 1, g < n  PROVE FALSE
  <2>0. g + 1 \in 1..n /\ (g + 1) - 1 = g
    BY <1>3
  <2>1. Size(e, g + 1) >= 1
    BY <1>3, <2>0, Zenon
  <2>2. At(p, g + 1) <= At(p, n) /\ At(p, g + 1) = At(p, (g + 1) - 1) + Size(e, g + 1)
        /\ Size(e, g + 1) \in Nat /\ At(p, g + 1) \in Nat
    BY <2>0, LayoutStep
  <2>3. At(p, (g + 1) - 1) = At(p, g)
    BY <2>0, Zenon
  <2>4. At(p, g) = At(p, n)
    BY <1>0, <1>1, <1>3
  <2>. QED  BY <1>0, <2>1, <2>2, <2>3, <2>4
<1>. QED  BY <1>2, <1>3

LEMMA LayoutBreak ==
    ASSUME NEW n \in Nat, NEW w, NEW x, NEW p, NEW e, NEW g \in Nat, g <= n, Layout(p, e, n, g, w, x),
           NEW k \in 0..Len(w)
    PROVE  Layout(p, e, n, g, SubSeq(w, 1, k), TRUE)
<1> DEFINE u == SubSeq(w, 1, k)
<1>0. Len(w) \in Nat /\ At(p, g) \in Nat /\ At(p, n) \in Nat
  BY LayoutNumbers, Zenon
<1>1. u \in Seq(Fields) /\ Len(u) = k /\ \A i \in 1..k : u[i] = w[i]
  <2>1. w \in Seq(Fields)
    BY Zenon DEF Layout
  <2>. QED  BY <1>0, <2>1
<1>. HIDE DEF u
<1>2. At(p, g) + Len(u) <= At(p, n)
  <2>1. At(p, g) + Len(w) <= At(p, n)
    BY Zenon DEF Layout
  <2>. QED  BY <1>0, <1>1, <2>1
<1>3. ASSUME NEW i \in (g + 1)..n, NEW j \in 1..Size(e, i), At(p, i - 1) + j <= At(p, g) + Len(u)
      PROVE  u[(At(p, i - 1) + j) - At(p, g)] = e[i][j]
  <2>1. k \in Nat /\ k <= Len(w) /\ At(p, i - 1) + j <= At(p, g) + k
    BY <1>0, <1>1, <1>3
  <2>2. (At(p, i - 1) + j) - At(p, g) \in 1..k /\ w[(At(p, i - 1) + j) - At(p, g)] = e[i][j]
    <3>1. (At(p, i - 1) + j) - At(p, g) \in 1..k
      BY <2>1, LayoutPlace
    <3>2. At(p, i - 1) \in Nat /\ Size(e, i) \in Nat
      <4>1. i \in 1..n
        OBVIOUS
      <4>. QED  BY <4>1, LayoutStep, Zenon
    <3>3. At(p, i - 1) + j <= At(p, g) + Len(w)
      BY ONLY <1>0, <2>1, <3>2, j \in 1..Size(e, i)
    <3>. QED  BY <3>1, <3>3, Zenon DEF Layout, Shows
  <2>. QED  BY <1>1, <2>2, Zenon
<1>4. Sized(p, e, n) /\ Ends(p, e, n) /\ Rises(p, n)
  BY Zenon DEF Layout
<1>5. Shows(p, e, n, g, u)
  BY <1>3, Zenon DEF Shows
<1>. QED  BY <1>1, <1>2, <1>4, <1>5, Zenon DEF Layout, u

LEMMA LayoutRead ==
    ASSUME NEW n \in Nat, NEW w, NEW x, NEW p, NEW e, NEW g \in Nat, g < n,
           Layout(p, e, n, g, w, x), NEW r, Size(e, g + 1) <= Len(w), Drops(r, w, Size(e, g + 1))
    PROVE  Layout(p, e, n, g + 1, r, x)
<1> DEFINE l == Size(e, g + 1)
<1>a. g + 1 \in 1..n /\ (g + 1) - 1 = g /\ g <= n /\ g + 1 \in Nat
  OBVIOUS
<1>0. Len(w) \in Nat /\ At(p, g) \in Nat /\ At(p, n) \in Nat /\ l \in Nat /\ At(p, g + 1) \in Nat
  BY <1>a, LayoutNumbers, Zenon
<1>b. At(p, g + 1) = At(p, g) + l
  <2>1. At(p, g + 1) = At(p, (g + 1) - 1) + l
    BY <1>a, LayoutStep
  <2>. QED  BY <1>a, <2>1, Zenon
<1>1. r \in Seq(Fields) /\ Len(r) = Len(w) - l /\ \A i \in 1..Len(r) : r[i] = w[l + i]
  BY Zenon DEF Drops
<1>c. Len(r) \in Nat
  BY <1>1, FieldsOf
<1>. HIDE DEF l
<1>2. At(p, g + 1) + Len(r) = At(p, g) + Len(w)
  BY <1>0, <1>b, <1>1
<1>3. At(p, g + 1) + Len(r) <= At(p, n) /\ (~x => At(p, g + 1) + Len(r) = At(p, n))
  BY <1>2, Zenon DEF Layout
<1>4. ASSUME NEW i \in ((g + 1) + 1)..n, NEW j \in 1..Size(e, i), At(p, i - 1) + j <= At(p, g + 1) + Len(r)
      PROVE  r[(At(p, i - 1) + j) - At(p, g + 1)] = e[i][j]
  <2>0. i \in (g + 1)..n /\ i \in 1..n /\ i - 1 \in 0..n /\ g + 1 \in 0..n /\ g + 1 <= i - 1
    OBVIOUS
  <2>1. At(p, i - 1) \in Nat /\ Size(e, i) \in Nat
    BY <2>0, LayoutStep, Zenon
  <2>2. At(p, g + 1) <= At(p, i - 1)
    BY <2>0, Zenon DEF Layout, Rises
  <2>3. j \in Nat \ {0} /\ j \in Nat
    BY <2>1
  <2> DEFINE a == (At(p, i - 1) + j) - At(p, g + 1)
  <2>4. a \in 1..Len(r)
    BY <1>0, <1>c, <1>4, <2>1, <2>2, <2>3, Within, Zenon
  <2>5. l + a = (At(p, i - 1) + j) - At(p, g)
    BY ONLY <1>0, <1>b, <2>1, <2>3, SMTT(30)
  <2>6. At(p, i - 1) + j <= At(p, g) + Len(w)
    BY <1>2, <1>4, Zenon
  <2>7. w[(At(p, i - 1) + j) - At(p, g)] = e[i][j]
    BY <2>0, <2>6, Zenon DEF Layout, Shows
  <2>. HIDE DEF a
  <2>8. r[a] = e[i][j]
    BY <1>1, <2>4, <2>5, <2>7, Zenon
  <2>. QED  BY <2>8 DEF a
<1>5. Sized(p, e, n) /\ Ends(p, e, n) /\ Rises(p, n)
  BY Zenon DEF Layout
<1>6. Shows(p, e, n, g + 1, r)
  BY <1>4, Zenon DEF Shows
<1>. QED  BY <1>1, <1>3, <1>5, <1>6, Zenon DEF Layout

(* The fields of n messages, and of one more that has the fields c.        *)
Follows(f, e, n, c) ==
    f \in [1..(n + 1) -> Seq(Fields)] /\ f[n + 1] = c /\ \A i \in 1..n : f[i] = e[i]
Longer(q, p, n, l) == q \in [Nat -> Nat] /\ At(q, n + 1) = At(p, n) + l /\ \A i \in 0..n : At(q, i) = At(p, i)

LEMMA LongerExists ==
    ASSUME NEW n \in Nat, NEW l \in Nat, NEW p, p \in [Nat -> Nat]
    PROVE  \E q : Longer(q, p, n, l)
<1> DEFINE q == [i \in Nat |-> IF i = n + 1 THEN p[n] + l ELSE p[i]]
<1>1. q \in [Nat -> Nat] /\ q[n + 1] = p[n] + l /\ \A i \in 0..n : q[i] = p[i]
  OBVIOUS
<1>. HIDE DEF q
<1>2. Longer(q, p, n, l)
  BY <1>1 DEF Longer, At
<1>. QED  BY <1>2

LEMMA LayoutWrite ==
    ASSUME NEW n \in Nat, NEW w, NEW p, NEW e, NEW g \in Nat, g <= n, Layout(p, e, n, g, w, FALSE),
           NEW c, c \in Seq(Fields), NEW f, Follows(f, e, n, c)
    PROVE  \E q : Layout(q, f, n + 1, g, w \o c, FALSE)
<1> DEFINE l == Len(c)
           u == w \o c
<1>0. Len(w) \in Nat /\ At(p, g) \in Nat /\ At(p, n) \in Nat /\ l \in Nat /\ \A i \in Nat : At(p, i) \in Nat
  <2>1. l \in Nat
    BY FieldsOf
  <2>. QED  BY <2>1, LayoutNumbers, Zenon
<1>a. Len(w) \in Nat /\ At(p, g) \in Nat /\ At(p, n) \in Nat /\ l \in Nat
  BY <1>0
<1>1. w \in Seq(Fields) /\ p \in [Nat -> Nat] /\ At(p, g) + Len(w) = At(p, n) /\ Rises(p, n) /\ Ends(p, e, n)
  BY Zenon DEF Layout, Sized
<1>2. u \in Seq(Fields) /\ Len(u) = Len(w) + l /\ (\A i \in 1..Len(w) : u[i] = w[i]) /\ \A j \in 1..l : u[Len(w) + j] = c[j]
  BY <1>1, Joins, Zenon DEF Joint
<1>b. At(p, g) + Len(w) = At(p, n) /\ Len(u) = Len(w) + l
  BY <1>1, <1>2, Zenon
<1>3. PICK q : Longer(q, p, n, l)
  BY <1>0, <1>1, LongerExists, Zenon
<1>4. q \in [Nat -> Nat] /\ At(q, n + 1) = At(p, n) + l /\ \A i \in 0..n : At(q, i) = At(p, i)
  BY <1>3, Zenon DEF Longer
<1>5. f \in [1..(n + 1) -> Seq(Fields)] /\ f[n + 1] = c /\ \A i \in 1..n : f[i] = e[i]
  BY Zenon DEF Follows
<1>6. Size(f, n + 1) = l /\ \A i \in 1..n : Size(f, i) = Size(e, i)
  BY <1>5, Zenon DEF Size
<1>. HIDE DEF l, u
<1>7. Ends(q, f, n + 1)
  <2> SUFFICES ASSUME NEW i \in 1..(n + 1)  PROVE At(q, i) = At(q, i - 1) + Size(f, i)
    BY Zenon DEF Ends
  <2>1. CASE i = n + 1
    <3>1. i - 1 = n /\ n \in 0..n
      BY ONLY <2>1, n \in Nat
    <3>. QED  BY <1>4, <1>6, <2>1, <3>1, Zenon
  <2>2. CASE i # n + 1
    <3>1. i \in 1..n /\ i \in 0..n /\ i - 1 \in 0..n
      BY ONLY <2>2, n \in Nat, i \in 1..(n + 1)
    <3>2. At(p, i) = At(p, i - 1) + Size(e, i)
      BY <1>1, <3>1, Zenon DEF Ends
    <3>. QED  BY <1>4, <1>6, <3>1, <3>2, Zenon
  <2>. QED  BY <2>1, <2>2, Zenon
<1>8. Rises(q, n + 1)
  <2> SUFFICES ASSUME NEW i \in 0..(n + 1), NEW j \in 0..(n + 1), i <= j  PROVE At(q, i) <= At(q, j)
    BY Zenon DEF Rises
  <2>1. CASE j # n + 1
    <3>1. i \in 0..n /\ j \in 0..n
      BY ONLY <2>1, n \in Nat, i \in 0..(n + 1), j \in 0..(n + 1), i <= j
    <3>2. At(p, i) <= At(p, j)
      BY <1>1, <3>1, Zenon DEF Rises
    <3>. QED  BY <1>4, <3>1, <3>2, Zenon
  <2>2. CASE i # n + 1 /\ j = n + 1
    <3>1. i \in 0..n /\ n \in 0..n /\ i <= n /\ i \in Nat
      BY ONLY <2>2, n \in Nat, i \in 0..(n + 1)
    <3>2. At(p, i) <= At(p, n)
      BY <1>1, <3>1, Zenon DEF Rises
    <3>3. At(q, i) = At(p, i) /\ At(p, i) \in Nat
      BY <1>0, <1>4, <3>1, Zenon
    <3>4. At(p, i) <= At(p, n) + l
      BY ONLY <1>a, <3>2, <3>3
    <3>. QED  BY <1>4, <2>2, <3>3, <3>4, Zenon
  <2>3. CASE i = n + 1 /\ j = n + 1
    <3>1. At(p, n) + l <= At(p, n) + l
      BY ONLY <1>a
    <3>. QED  BY <1>4, <2>3, <3>1, Zenon
  <2>. QED  BY ONLY <2>1, <2>2, <2>3, n \in Nat
<1>9. At(q, g) = At(p, g) /\ At(q, g) + Len(u) = At(q, n + 1) /\ At(q, g) + Len(u) <= At(q, n + 1)
  <2>1. g \in 0..n
    BY ONLY n \in Nat, g \in Nat, g <= n
  <2>2. At(q, g) = At(p, g)
    BY <1>4, <2>1, Zenon
  <2>3. At(p, g) + Len(u) = At(p, n) + l /\ At(p, n) + l <= At(p, n) + l
    BY ONLY <1>a, <1>b
  <2>. QED  BY <1>4, <2>2, <2>3, Zenon
<1>10. Shows(q, f, n + 1, g, u)
  <2> SUFFICES ASSUME NEW i \in (g + 1)..(n + 1), NEW j \in 1..Size(f, i)
               PROVE  u[(At(q, i - 1) + j) - At(q, g)] = f[i][j]
    BY Zenon DEF Shows
  <2>1. CASE i = n + 1
    <3>1. i - 1 = n /\ n \in 0..n
      BY ONLY <2>1, n \in Nat
    <3>2. f[i] = c /\ At(q, i - 1) = At(p, n) /\ j \in 1..l
      BY <1>4, <1>5, <1>6, <2>1, <3>1, Zenon
    <3>3. (At(p, n) + j) - At(p, g) = Len(w) + j
      <4>1. j \in 1..l
        BY <3>2
      <4>. QED  BY ONLY <1>a, <1>b, <4>1
    <3>. QED  BY <1>2, <1>9, <3>2, <3>3, Zenon
  <2>2. CASE i # n + 1
    <3>1. i \in (g + 1)..n /\ i \in 1..n /\ i - 1 \in 0..n
      BY ONLY <2>2, n \in Nat, g \in Nat, i \in (g + 1)..(n + 1)
    <3>2. f[i] = e[i] /\ At(q, i - 1) = At(p, i - 1) /\ j \in 1..Size(e, i)
      BY <1>4, <1>5, <1>6, <3>1, Zenon
    <3>3. At(p, i - 1) \in Nat /\ At(p, i) \in Nat /\ At(p, i) <= At(p, n) /\ At(p, i) = At(p, i - 1) + Size(e, i) /\ Size(e, i) \in Nat
      <4>1. At(p, i - 1) \in Nat /\ At(p, i) \in Nat /\ Size(e, i) \in Nat
        BY <3>1, LayoutStep, Zenon
      <4>2. At(p, i) <= At(p, n)
        BY <3>1, LayoutStep, Zenon
      <4>3. At(p, i) = At(p, i - 1) + Size(e, i)
        BY <1>1, <3>1, Zenon DEF Ends
      <4>. QED  BY <4>1, <4>2, <4>3, Zenon
    <3>4. At(p, i - 1) + j <= At(p, g) + Len(w) /\ Len(w) <= Len(w)
      <4>1. j \in 1..Size(e, i)
        BY <3>2
      <4>. QED  BY ONLY <1>a, <1>b, <3>3, <4>1, SMTT(30)
    <3>6. (At(p, i - 1) + j) - At(p, g) \in 1..Len(w)
      BY <1>a, <3>1, <3>2, <3>4, LayoutPlace
    <3>5. (At(p, i - 1) + j) - At(p, g) \in 1..Len(w) /\ w[(At(p, i - 1) + j) - At(p, g)] = e[i][j]
      BY <3>1, <3>2, <3>4, <3>6, Zenon DEF Layout, Shows
    <3>. QED  BY <1>2, <1>9, <3>2, <3>5, Zenon
  <2>. QED  BY <2>1, <2>2, Zenon
<1>11. Layout(q, f, n + 1, g, u, FALSE)
  BY <1>2, <1>4, <1>5, <1>7, <1>8, <1>9, <1>10, Zenon DEF Layout, Sized
<1>. QED  BY <1>11, Zenon DEF u

-----------------------------------------------------------------------------
(* A connection.  The reader has had the first messages that were sent, as *)
(* they were sent, and the wire holds the fields of the others.            *)
Codes == [i \in 1..Len(sent) |-> TU!Encode(sent[i])]
InOrder(g, s) == Len(g) <= Len(s) /\ \A i \in 1..Len(g) : g[i] = s[i]
TunnelTyped ==
    /\ kind \in DOMAIN TU!Messages /\ sent \in Seq(Sendable(kind)) /\ got \in Seq(Sendable(kind))
    /\ Len(sent) <= TunnelMessages /\ wire \in Seq(Fields) /\ cut \in BOOLEAN
    /\ reader \in {"reading", "failed", "ended"}
ReaderSound ==
    /\ reader = "failed" => Len(got) < Len(sent) /\ TU!TooLong(sent[Len(got) + 1])
    /\ reader = "ended" => cut = TRUE
OnTheWire == \E p : Layout(p, Codes, Len(sent), Len(got), wire, cut)

TunnelInv == TunnelTyped /\ InOrder(got, sent) /\ ReaderSound /\ OnTheWire

LEMMA Lengths ==
    ASSUME TunnelTyped
    PROVE  Len(sent) \in Nat /\ Len(got) \in Nat /\ Len(wire) \in Nat
  BY FieldsOf DEF TunnelTyped

LEMMA CodesUnderstood ==
    ASSUME TunnelTyped
    PROVE  /\ Codes \in [1..Len(sent) -> Seq(Fields)]
           /\ \A i \in 1..Len(sent) : Understood(sent[i], Codes[i]) /\ Size(Codes, i) >= 1
<1>1. kind \in DOMAIN TU!Messages /\ sent \in Seq(Sendable(kind))
  BY Zenon DEF TunnelTyped
<1>2. \A i \in 1..Len(sent) : sent[i] \in Sendable(kind)
  BY <1>1, ElementOfSeq, Zenon
<1>3. \A i \in 1..Len(sent) : Understood(sent[i], TU!Encode(sent[i]))
  BY <1>1, <1>2, SendableUnderstood, Zenon
<1>4. \A i \in 1..Len(sent) : TU!Encode(sent[i]) \in Seq(Fields) /\ Len(TU!Encode(sent[i])) >= 1
  BY <1>3, Zenon DEF Understood
<1>5. \A i \in 1..Len(sent) : Codes[i] = TU!Encode(sent[i])
  BY Zenon DEF Codes
<1>6. Codes \in [1..Len(sent) -> Seq(Fields)]
  BY <1>4, Zenon DEF Codes
<1>. QED  BY <1>3, <1>4, <1>5, <1>6, Zenon DEF Size

LEMMA SameEncoding ==
    ASSUME kind' = kind, NEW x
    PROVE  TU!Encode(x)' = TU!Encode(x)
  BY DEF TU!Encode

LEMMA SameCodes ==
    ASSUME kind' = kind, sent' = sent
    PROVE  Codes' = Codes
<1>1. \A x : TU!Encode(x)' = TU!Encode(x)
  BY SameEncoding
<1>. QED  BY <1>1, Zenon DEF Codes

LEMMA NothingIsLaid ==
    ASSUME NEW p, p = [i \in Nat |-> 0], NEW e, e \in [1..0 -> Seq(Fields)]
    PROVE  Layout(p, e, 0, 0, <<>>, FALSE)
<1>1. \A i \in Nat : At(p, i) = 0
  BY DEF At
<1>2. Sized(p, e, 0)
  BY DEF Sized
<1>3. Ends(p, e, 0) /\ Rises(p, 0)
  BY <1>1 DEF Ends, Rises
<1>4. Shows(p, e, 0, 0, <<>>)
  BY DEF Shows
<1>5. <<>> \in Seq(Fields) /\ Len(<<>>) = 0
  BY EmptySeq, Zenon
<1>. QED  BY <1>1, <1>2, <1>3, <1>4, <1>5 DEF Layout

LEMMA TunnelBegins ==
    ASSUME TU!Init
    PROVE  TunnelInv
<1>1. kind \in DOMAIN TU!Messages /\ sent = <<>> /\ wire = <<>> /\ cut = FALSE /\ got = <<>> /\ reader = "reading"
  BY Zenon DEF TU!Init
<1>2. Len(sent) = 0 /\ Len(got) = 0 /\ Len(wire) = 0
  BY <1>1
<1>3. TunnelTyped
  <2>1. sent \in Seq(Sendable(kind)) /\ got \in Seq(Sendable(kind)) /\ wire \in Seq(Fields)
    BY <1>1, EmptySeq, Zenon
  <2>2. Len(sent) <= TunnelMessages
    BY <1>2, TunnelNumber
  <2>. QED  BY <1>1, <2>1, <2>2, Zenon DEF TunnelTyped
<1>4. InOrder(got, sent) /\ ReaderSound
  BY <1>1, <1>2 DEF InOrder, ReaderSound
<1>5. OnTheWire
  <2>1. Codes \in [1..0 -> Seq(Fields)]
    BY <1>2, <1>3, CodesUnderstood
  <2>2. Layout([i \in Nat |-> 0], Codes, 0, 0, <<>>, FALSE)
    BY <2>1, NothingIsLaid, Zenon
  <2>. QED  BY <1>1, <1>2, <2>2, Zenon DEF OnTheWire
<1>. QED  BY <1>3, <1>4, <1>5, Zenon DEF TunnelInv

LEMMA TunnelWrites ==
    ASSUME TunnelInv, NEW m \in TU!Messages[kind], TU!Write(m)
    PROVE  TunnelInv'
<1> DEFINE x == TU!Carried(m)
           n == Len(sent)
<1>1. /\ ~cut /\ TU!Accepts(m) /\ n < TunnelMessages
      /\ sent' = Append(sent, x) /\ wire' = wire \o TU!Encode(x)
      /\ kind' = kind /\ cut' = cut /\ got' = got /\ reader' = reader
  BY Zenon DEF TU!Write
<1>2. TunnelTyped /\ InOrder(got, sent) /\ ReaderSound /\ OnTheWire
  BY Zenon DEF TunnelInv
<1>3. x \in Sendable(kind)
  BY <1>1, Zenon DEF Sendable
<1>. HIDE DEF x
<1>4. n \in Nat /\ Len(got) \in Nat /\ Len(got) <= n /\ kind \in DOMAIN TU!Messages /\ cut = FALSE
  BY <1>1, <1>2, Lengths DEF TunnelTyped, InOrder
<1>5. /\ sent' \in Seq(Sendable(kind)) /\ Len(sent') = n + 1
      /\ (\A i \in 1..n : sent'[i] = sent[i]) /\ sent'[n + 1] = x
  <2>1. sent \in Seq(Sendable(kind))
    BY <1>2, Zenon DEF TunnelTyped
  <2>2. sent' = Append(sent, x)
    BY <1>1, Zenon
  <2>. QED  BY ONLY <1>3, <2>1, <2>2, AppendProperties
<1>6. TU!Encode(x) \in Seq(Fields)
  BY <1>3, <1>4, SendableUnderstood, Zenon DEF Understood
<1>7. wire' \in Seq(Fields)
  <2>1. wire \in Seq(Fields)
    BY <1>2, Zenon DEF TunnelTyped
  <2>. QED  BY <1>1, <1>6, <2>1
<1>8. TunnelTyped'
  <2>1. Len(sent') <= TunnelMessages
    BY <1>1, <1>4, <1>5, TunnelNumber
  <2>. QED  BY <1>1, <1>2, <1>5, <1>7, <2>1, Zenon DEF TunnelTyped
<1>9. InOrder(got, sent)'
  <2>1. \A i \in 1..Len(got) : i \in 1..n /\ got[i] = sent[i]
    BY <1>2, <1>4 DEF InOrder
  <2>2. Len(got) <= Len(sent')
    BY <1>4, <1>5
  <2>. QED  BY <1>1, <1>5, <2>1, <2>2, Zenon DEF InOrder
<1>10. ReaderSound'
  <2>1. ASSUME reader = "failed"  PROVE Len(got) < Len(sent') /\ TU!TooLong(sent'[Len(got) + 1])
    <3>1. Len(got) < n /\ TU!TooLong(sent[Len(got) + 1])
      BY <1>2, <2>1, Zenon DEF ReaderSound
    <3>2. Len(got) + 1 \in 1..n /\ Len(got) < Len(sent')
      BY <1>4, <1>5, <3>1
    <3>. QED  BY <1>5, <3>1, <3>2, Zenon
  <2>. QED  BY <1>1, <1>2, <2>1, Zenon DEF ReaderSound
<1>11. Follows(Codes', Codes, n, TU!Encode(x))
  <2>1. Codes \in [1..n -> Seq(Fields)] /\ \A i \in 1..n : Codes[i] = TU!Encode(sent[i])
    BY <1>2, CodesUnderstood, Zenon DEF Codes
  <2>2. \A y : TU!Encode(y)' = TU!Encode(y)
    BY <1>1, SameEncoding
  <2>3. Codes' = [i \in 1..Len(sent') |-> TU!Encode(sent'[i])]
    BY <2>2, Zenon DEF Codes
  <2>4. Codes' = [i \in 1..(n + 1) |-> TU!Encode(sent'[i])]
    BY <1>5, <2>3, Zenon
  <2>5. \A i \in 1..n : i \in 1..(n + 1)
    BY <1>4
  <2>6. n + 1 \in 1..(n + 1) /\ \A i \in 1..(n + 1) : i \in 1..n \/ i = n + 1
    BY <1>4
  <2>7. \A i \in 1..n : Codes'[i] = Codes[i]
    BY <1>5, <2>1, <2>4, <2>5, Zenon
  <2>8. Codes'[n + 1] = TU!Encode(x)
    BY <1>5, <2>4, <2>6, Zenon
  <2>9. \A i \in 1..(n + 1) : TU!Encode(sent'[i]) \in Seq(Fields)
    BY <1>5, <1>6, <2>1, <2>6, Zenon
  <2>10. Codes' \in [1..(n + 1) -> Seq(Fields)]
    BY <2>4, <2>9, Zenon
  <2>. QED  BY <2>7, <2>8, <2>10, Zenon DEF Follows
<1>12. OnTheWire'
  <2>1. PICK p : Layout(p, Codes, n, Len(got), wire, cut)
    BY <1>2, Zenon DEF OnTheWire
  <2>2. Layout(p, Codes, n, Len(got), wire, FALSE)
    BY <1>4, <2>1, Zenon
  <2>3. PICK q : Layout(q, Codes', n + 1, Len(got), wire \o TU!Encode(x), FALSE)
    BY <1>4, <1>6, <1>11, <2>2, LayoutWrite, Zenon
  <2>4. Layout(q, Codes', Len(sent'), Len(got'), wire', cut')
    BY <1>1, <1>4, <1>5, <2>3, Zenon
  <2>. QED  BY <2>4, Zenon DEF OnTheWire
<1>. QED  BY <1>8, <1>9, <1>10, <1>12, Zenon DEF TunnelInv

LEMMA TunnelCut ==
    ASSUME TunnelInv, NEW k \in 0..Len(wire), wire' = SubSeq(wire, 1, k), cut' = TRUE,
           kind' = kind, sent' = sent, got' = got, reader' = reader
    PROVE  TunnelInv'
<1>2. TunnelTyped /\ InOrder(got, sent) /\ ReaderSound /\ OnTheWire
  BY Zenon DEF TunnelInv
<1>3. Len(sent) \in Nat /\ Len(got) \in Nat /\ Len(got) <= Len(sent)
  BY <1>2, Lengths DEF InOrder
<1>4. PICK p : Layout(p, Codes, Len(sent), Len(got), wire, cut)
  BY <1>2, Zenon DEF OnTheWire
<1>5. Layout(p, Codes, Len(sent), Len(got), wire', TRUE)
  BY <1>3, <1>4, LayoutBreak, Zenon
<1>6. wire' \in Seq(Fields)
  BY <1>5, Zenon DEF Layout
<1>7. Layout(p, Codes', Len(sent'), Len(got'), wire', cut')
  BY <1>5, SameCodes, Zenon
<1>8. TunnelTyped'
  BY <1>2, <1>6, Zenon DEF TunnelTyped
<1>9. InOrder(got, sent)' /\ ReaderSound'
  BY <1>2, Zenon DEF InOrder, ReaderSound
<1>10. OnTheWire'
  BY <1>7, Zenon DEF OnTheWire
<1>. QED  BY <1>8, <1>9, <1>10, Zenon DEF TunnelInv

LEMMA TunnelBreaks ==
    ASSUME TunnelInv, (\E m \in TU!Messages[kind] : TU!Refuse(m)) \/ TU!Break
    PROVE  TunnelInv'
<1>1. CASE TU!Break
  <2>1. PICK k \in 0..Len(wire) : wire' = SubSeq(wire, 1, k)
    BY <1>1, Zenon DEF TU!Break
  <2>2. cut' = TRUE /\ kind' = kind /\ sent' = sent /\ got' = got /\ reader' = reader
    BY <1>1, Zenon DEF TU!Break
  <2>. QED  BY <2>1, <2>2, TunnelCut, Zenon
<1>2. CASE \E m \in TU!Messages[kind] : TU!Refuse(m)
  <2>1. cut' = TRUE /\ kind' = kind /\ sent' = sent /\ wire' = wire /\ got' = got /\ reader' = reader
    BY <1>2, Zenon DEF TU!Refuse
  <2>2. wire \in Seq(Fields)
    BY Zenon DEF TunnelInv, TunnelTyped
  <2>3. Len(wire) \in 0..Len(wire) /\ wire' = SubSeq(wire, 1, Len(wire))
    BY <2>1, <2>2
  <2>. QED  BY <2>1, <2>3, TunnelCut, Zenon
<1>. QED  BY <1>1, <1>2

(* What a step of the reader finds.                                        *)
LEMMA ReaderFinds ==
    ASSUME TunnelInv
    PROVE  \/ Len(got) = Len(sent) /\ TU!Decode = TU!Short
           \/ /\ Len(got) < Len(sent) /\ TU!TooLong(sent[Len(got) + 1])
              /\ TU!Decode \in {TU!Short, TU!Fail}
           \/ /\ Len(got) < Len(sent)
              /\ ReadsAs(TU!Decode, wire, sent[Len(got) + 1], Codes[Len(got) + 1])
<1>2. TunnelTyped /\ InOrder(got, sent) /\ OnTheWire
  BY Zenon DEF TunnelInv
<1>3. Len(sent) \in Nat /\ Len(got) \in Nat /\ Len(got) <= Len(sent)
  BY <1>2, Lengths DEF InOrder
<1>4. PICK p : Layout(p, Codes, Len(sent), Len(got), wire, cut)
  BY <1>2, Zenon DEF OnTheWire
<1>5. kind \in DOMAIN TU!Messages /\ wire \in Seq(Fields)
  BY <1>2, Zenon DEF TunnelTyped
<1>6. CASE Len(got) = Len(sent)
  <2>1. Len(wire) = 0
    BY <1>3, <1>4, <1>6, LayoutEnds, Zenon
  <2>. QED  BY <1>5, <1>6, <2>1, NothingToRead, Zenon
<1>7. CASE Len(got) < Len(sent)
  <2>1. Agrees(wire, Codes[Len(got) + 1])
    BY <1>3, <1>4, <1>7, LayoutNext, Zenon
  <2>2. Len(got) + 1 \in 1..Len(sent)
    BY ONLY <1>3, <1>7
  <2>3. Understood(sent[Len(got) + 1], Codes[Len(got) + 1])
    BY <1>2, <2>2, CodesUnderstood, Zenon
  <2>. QED  BY <1>5, <1>7, <2>1, <2>3, Zenon DEF Understood
<1>. QED  BY ONLY <1>3, <1>6, <1>7

LEMMA Outcomes ==
    /\ TU!Short.is = "short" /\ TU!Fail.is = "fail" /\ ~("short" = "ok") /\ ~("fail" = "ok") /\ ~("short" = "fail")
    /\ ~("ok" = "short") /\ ~("ok" = "fail") /\ ~("fail" = "short")
  BY DEF TU!Short, TU!Fail

LEMMA TunnelReads ==
    ASSUME TunnelInv, TU!Read
    PROVE  TunnelInv'
<1> DEFINE g == Len(got)
           n == Len(sent)
<1>1. reader = "reading" /\ kind' = kind /\ sent' = sent /\ cut' = cut
  BY Zenon DEF TU!Read
<1>2. TunnelTyped /\ InOrder(got, sent) /\ ReaderSound /\ OnTheWire
  BY Zenon DEF TunnelInv
<1>3. n \in Nat /\ g \in Nat /\ Len(wire) \in Nat /\ g <= n
  BY <1>2, Lengths DEF InOrder
<1>4. PICK p : Layout(p, Codes, n, g, wire, cut)
  BY <1>2, Zenon DEF OnTheWire
<1>5. Codes' = Codes
  BY <1>1, SameCodes, Zenon
<1>6. CASE TU!Decode.is = "ok" /\ got' = Append(got, TU!Decode.m) /\ wire' = TU!Decode.rest /\ reader' = reader
  <2>1. g < n /\ ReadsAs(TU!Decode, wire, sent[g + 1], Codes[g + 1])
    BY <1>6, ReaderFinds, Outcomes, Zenon
  <2>2. g + 1 \in 1..n
    BY ONLY <1>3, <2>1
  <2>3. Len(Codes[g + 1]) \in Nat
    BY <1>2, <2>2, CodesUnderstood, FieldsOf
  <2>4. ~(Len(wire) < Len(Codes[g + 1]))
    BY <1>6, <2>1, Outcomes, Zenon DEF ReadsAs
  <2>5. Len(Codes[g + 1]) <= Len(wire)
    BY ONLY <1>3, <2>3, <2>4
  <2>6. TU!Decode.m = sent[g + 1] /\ Drops(TU!Decode.rest, wire, Len(Codes[g + 1]))
    BY <2>1, <2>5, Zenon DEF ReadsAs
  <2>7. Layout(p, Codes, n, g + 1, wire', cut)
    BY <1>3, <1>4, <1>6, <2>1, <2>5, <2>6, LayoutRead, Zenon DEF Size
  <2>8. /\ got' \in Seq(Sendable(kind)) /\ Len(got') = g + 1
        /\ (\A i \in 1..g : got'[i] = got[i]) /\ got'[g + 1] = sent[g + 1]
    <3>1. got \in Seq(Sendable(kind)) /\ sent \in Seq(Sendable(kind))
      BY <1>2, Zenon DEF TunnelTyped
    <3>2. sent[g + 1] \in Sendable(kind)
      BY <2>2, <3>1, ElementOfSeq, Zenon
    <3>3. got' = Append(got, sent[g + 1])
      BY <1>6, <2>6, Zenon
    <3> DEFINE x == sent[g + 1]
    <3>4. x \in Sendable(kind) /\ got' = Append(got, x)
      BY <3>2, <3>3
    <3>. HIDE DEF x
    <3>5. /\ got' \in Seq(Sendable(kind)) /\ Len(got') = g + 1
          /\ (\A i \in 1..g : got'[i] = got[i]) /\ got'[g + 1] = x
      BY ONLY <3>1, <3>4, AppendProperties
    <3>. QED  BY <3>5 DEF x
  <2>9. wire' \in Seq(Fields)
    BY <2>7, Zenon DEF Layout
  <2>10. TunnelTyped'
    BY <1>1, <1>2, <1>6, <2>8, <2>9, Zenon DEF TunnelTyped
  <2>11. InOrder(got, sent)'
    <3>1. \A i \in 1..g : got[i] = sent[i]
      BY <1>2, Zenon DEF InOrder
    <3>2. \A i \in 1..(g + 1) : i \in 1..g \/ i = g + 1
      BY ONLY <1>3
    <3>3. g + 1 <= n
      BY ONLY <1>3, <2>1
    <3>. QED  BY <1>1, <2>8, <3>1, <3>2, <3>3, Zenon DEF InOrder
  <2>12. ReaderSound'
    BY <1>1, <1>6 DEF ReaderSound
  <2>13. Layout(p, Codes', Len(sent'), Len(got'), wire', cut')
    BY <1>1, <1>5, <2>7, <2>8, Zenon
  <2>14. OnTheWire'
    BY <2>13, Zenon DEF OnTheWire
  <2>. QED  BY <2>10, <2>11, <2>12, <2>14, Zenon DEF TunnelInv
<1>7. ASSUME got' = got, wire' = wire,
             \/ TU!Decode.is = "fail" /\ reader' = "failed"
             \/ TU!Decode.is = "short" /\ cut /\ reader' = "ended"
      PROVE  TunnelInv'
  <2>1. TunnelTyped' /\ InOrder(got, sent)'
    BY <1>1, <1>2, <1>7 DEF TunnelTyped, InOrder
  <2>2. ReaderSound'
    <3>1. CASE TU!Decode.is = "short" /\ cut /\ reader' = "ended"
      <4>1. cut' = TRUE
        BY <1>1, <1>2, <3>1 DEF TunnelTyped
      <4>. QED  BY <3>1, <4>1 DEF ReaderSound
    <3>2. CASE TU!Decode.is = "fail" /\ reader' = "failed"
      <4>1. g < n /\ (TU!TooLong(sent[g + 1]) \/ ReadsAs(TU!Decode, wire, sent[g + 1], Codes[g + 1]))
        BY <3>2, ReaderFinds, Outcomes, Zenon
      <4>2. g + 1 \in 1..n
        BY ONLY <1>3, <4>1
      <4>3. Len(Codes[g + 1]) \in Nat
        BY <1>2, <4>2, CodesUnderstood, FieldsOf
      <4>4. Len(Codes[g + 1]) <= Len(wire) \/ Len(wire) < Len(Codes[g + 1])
        BY ONLY <1>3, <4>3
      <4>5. TU!TooLong(sent[g + 1])
        BY <3>2, <4>1, <4>4, Outcomes, Zenon DEF ReadsAs
      <4>6. ~("failed" = "ended")
        OBVIOUS
      <4>. QED  BY <1>1, <1>7, <3>2, <4>1, <4>5, <4>6, Zenon DEF ReaderSound
    <3>. QED  BY <1>7, <3>1, <3>2, Zenon
  <2>3. Layout(p, Codes', Len(sent'), Len(got'), wire', cut')
    BY <1>1, <1>4, <1>5, <1>7, Zenon
  <2>4. OnTheWire'
    BY <2>3, Zenon DEF OnTheWire
  <2>. QED  BY <2>1, <2>2, <2>4, Zenon DEF TunnelInv
<1>. QED  BY <1>6, <1>7, Zenon DEF TU!Read

LEMMA TunnelStepKeeps ==
    ASSUME TunnelInv, [TU!Next]_tuVars
    PROVE  TunnelInv'
<1>1. CASE \E m \in TU!Messages[kind] : TU!Write(m)
  BY <1>1, TunnelWrites, Zenon
<1>2. CASE (\E m \in TU!Messages[kind] : TU!Refuse(m)) \/ TU!Break
  BY <1>2, TunnelBreaks, Zenon
<1>3. CASE TU!Read
  BY <1>3, TunnelReads, Zenon
<1>4. CASE UNCHANGED tuVars
  <2>1. kind' = kind /\ sent' = sent /\ wire' = wire /\ cut' = cut /\ got' = got /\ reader' = reader
    BY <1>4 DEF tuVars
  <2>2. Codes' = Codes
    BY <2>1, SameCodes, Zenon
  <2>3. TunnelTyped /\ InOrder(got, sent) /\ ReaderSound /\ OnTheWire
    BY Zenon DEF TunnelInv
  <2>4. TunnelTyped' /\ InOrder(got, sent)' /\ ReaderSound'
    BY <2>1, <2>3, Zenon DEF TunnelTyped, InOrder, ReaderSound
  <2>5. OnTheWire'
    BY <2>1, <2>2, <2>3, Zenon DEF OnTheWire
  <2>. QED  BY <2>4, <2>5, Zenon DEF TunnelInv
<1>. QED  BY <1>1, <1>2, <1>3, <1>4, Zenon DEF TU!Next

LEMMA TunnelInvSuffices ==
    ASSUME TunnelInv
    PROVE  TU!TypeOK /\ TU!TunnelFaithful
<1>2. TunnelTyped /\ InOrder(got, sent) /\ ReaderSound /\ OnTheWire
  BY Zenon DEF TunnelInv
<1>3. Len(sent) \in Nat /\ Len(got) \in Nat /\ Len(got) <= Len(sent)
  BY <1>2, Lengths DEF InOrder
<1>4. got \in Seq(Sendable(kind)) /\ sent \in Seq(Sendable(kind)) /\ \A i \in 1..Len(got) : got[i] = sent[i]
  BY <1>2, Zenon DEF TunnelTyped, InOrder
<1>5. TU!IsPrefix(got, sent)
  <2>1. SubSeq(got, 1, Len(got)) = SubSeq(sent, 1, Len(got))
    <3>1. SubSeq(got, 1, Len(got)) \in Seq(Sendable(kind)) /\ SubSeq(sent, 1, Len(got)) \in Seq(Sendable(kind))
      BY ONLY <1>3, <1>4
    <3>2. Len(SubSeq(got, 1, Len(got))) = Len(got) /\ Len(SubSeq(sent, 1, Len(got))) = Len(got)
      BY ONLY <1>3, <1>4
    <3>3. \A i \in 1..Len(got) : SubSeq(got, 1, Len(got))[i] = got[i] /\ SubSeq(sent, 1, Len(got))[i] = sent[i]
      BY ONLY <1>3, <1>4
    <3>. QED  BY <1>4, <3>1, <3>2, <3>3, SeqEqual, Zenon
  <2>. QED  BY <1>3, <2>1, Zenon DEF TU!IsPrefix
<1>6. ASSUME wire = <<>>, ~cut  PROVE got = sent
  <2>1. PICK p : Layout(p, Codes, Len(sent), Len(got), wire, cut)
    BY <1>2, Zenon DEF OnTheWire
  <2>2. Len(wire) = 0
    BY <1>6
  <2>3. \A i \in 1..Len(sent) : Size(Codes, i) >= 1
    BY <1>2, CodesUnderstood, Zenon
  <2>4. Len(got) = Len(sent)
    <3>1. (~cut /\ Len(wire) = 0 /\ \A i \in 1..Len(sent) : Size(Codes, i) >= 1) => Len(got) = Len(sent)
      BY <1>3, <2>1, LayoutEnds
    <3>. QED  BY <1>6, <2>2, <2>3, <3>1, Zenon
  <2>. QED  BY <1>4, <2>4, SeqEqual, Zenon
<1>7. TU!TypeOK
  BY <1>2, Zenon DEF TunnelTyped, TU!TypeOK
<1>8. (reader = "failed" => Len(got) < Len(sent) /\ TU!TooLong(sent[Len(got) + 1])) /\ (reader = "ended" => cut)
  BY <1>2, Zenon DEF ReaderSound
<1>. QED  BY <1>5, <1>6, <1>7, <1>8, Zenon DEF TU!TunnelFaithful

-----------------------------------------------------------------------------
LEMMA TunnelRuns ==
    ASSUME [Next]_vars
    PROVE  model' = model /\ (model = "tunnel" => [TU!Next]_tuVars)
<1> USE DEF vars
<1>1. CASE Next
  BY <1>1 DEF Next, ForwardsStep, McpStep, SftpStep, SshKeysStep, StoreStep, TunnelStep,
              InstallStep, PreviewStep
<1>2. CASE UNCHANGED vars
  BY <1>2
<1>. QED  BY <1>1, <1>2

(* internal/tunnel and traffic/socks.go: the reader delivers the messages  *)
(* that the writer accepted, in order and as they were carried, whatever   *)
(* their number and wherever the connection breaks; it fails on nothing    *)
(* but an error text above MaxControlSize, it ends only on a connection    *)
(* that is broken or closed, and a wire that is empty has been read.       *)
THEOREM TunnelIsFaithful == Spec => []TunnelFaithful
<1> DEFINE Inv == model = "tunnel" => TunnelInv
<1>1. Init => Inv
  BY TunnelBegins, Zenon DEF Init
<1>2. Inv /\ [Next]_vars => Inv'
  <2> SUFFICES ASSUME Inv, [Next]_vars  PROVE Inv'
    BY Zenon
  <2>1. model' = model /\ (model = "tunnel" => [TU!Next]_tuVars)
    BY TunnelRuns, Zenon
  <2>2. CASE model = "tunnel"
    BY <2>1, <2>2, TunnelStepKeeps, Zenon
  <2>3. CASE model # "tunnel"
    BY <2>1, <2>3, Zenon
  <2>. QED  BY <2>2, <2>3, Zenon
<1>3. Inv => TunnelFaithful
  BY TunnelInvSuffices, Zenon DEF TunnelFaithful
<1>. QED  BY <1>1, <1>2, <1>3, PTL DEF Spec
=============================================================================
