------------------------ MODULE PlanificadorPruebas ------------------------
(***************************************************************************)
(* Proofs about module Planificador, for every number of processes and of  *)
(* interfaces, every quantum and degree, and the three algorithms.         *)
(*                                                                         *)
(* The first lemmas are about the operators of module Colas: moving a pcb  *)
(* from one queue to another keeps every pcb in one place only and moves   *)
(* that pcb alone.                                                         *)
(*                                                                         *)
(* The inductive invariant IInv has two layers.  Base says what the state  *)
(* is made of: types, each pcb in one place, the permits, and what the     *)
(* kernel and the CPU agree on (it is what makes the pops of the queues    *)
(* legal).  The counting invariants then follow from how each action moves *)
(* one pcb (lemma Mudanzas).                                               *)
(***************************************************************************)
EXTENDS Planificador, SecuenciasTeoremas, FiniteSetTheorems

(* Tail is the removal of the first element.                               *)
LEMMA TailEsRemoveAt ==
    ASSUME NEW S, NEW s \in Seq(S), s # <<>>
    PROVE  /\ Tail(s) = RemoveAt(s, 1) /\ 1 \in 1..Len(s) /\ Head(s) = s[1]
<1>1. Len(s) \in Nat /\ Len(s) >= 1 /\ Head(s) = s[1]
  OBVIOUS
<1>2. /\ Tail(s) \in Seq(S)
      /\ Len(Tail(s)) = Len(s) - 1
      /\ \A i \in 1..(Len(s) - 1) : Tail(s)[i] = s[i + 1]
  BY HeadTailProperties
<1>3. /\ RemoveAt(s, 1) \in Seq(S)
      /\ Len(RemoveAt(s, 1)) = Len(s) - 1
      /\ \A i \in 1..(Len(s) - 1) : RemoveAt(s, 1)[i] = s[i + 1]
  <2>1. 1 \in 1..Len(s)
    BY <1>1
  <2>2. /\ RemoveAt(s, 1) \in Seq(S)
        /\ Len(RemoveAt(s, 1)) = Len(s) - 1
        /\ \A i \in 1..(Len(s) - 1) :
              RemoveAt(s, 1)[i] = IF i < 1 THEN s[i] ELSE s[i + 1]
    BY <2>1, RemoveAtPropiedades
  <2>3. QED
    BY <2>2, <1>1
<1>4. Tail(s) = RemoveAt(s, 1)
  BY <1>2, <1>3, SeqEqual
<1>5. QED
  BY <1>1, <1>4

(* A queue that holds p holds it at Posicion.                              *)
LEMMA PosicionPropiedades ==
    ASSUME NEW S, NEW s \in Seq(S), NEW p, Contains(s, p)
    PROVE  Posicion(s, p) \in 1..Len(s) /\ s[Posicion(s, p)] = p
  BY DEF Contains, Posicion

-----------------------------------------------------------------------------
Tipo(c) == c \in [NombresCola -> Seq(Pids)]

(* Pushing a pcb that no queue holds.                                      *)
LEMMA PushPropiedades ==
    ASSUME NEW c, Tipo(c), SinRepetidos(c),
           NEW a \in NombresCola, NEW p \in Pids,
           \A q \in NombresCola : ~Esta(c, q, p)
    PROVE  /\ Tipo(Push(c, a, p))
           /\ SinRepetidos(Push(c, a, p))
           /\ \A q \in NombresCola, x \in Pids :
                 Esta(Push(c, a, p), q, x) <=> (Esta(c, q, x) \/ (q = a /\ x = p))
           /\ Len(Push(c, a, p)[a]) = Len(c[a]) + 1
           /\ \A q \in NombresCola \ {a} : Push(c, a, p)[q] = c[q]
<1> DEFINE d == Push(c, a, p)
<1>1. d[a] = Append(c[a], p) /\ \A q \in NombresCola \ {a} : d[q] = c[q]
  BY DEF Push, Tipo
<1>2. Tipo(d)
  BY <1>1 DEF Push, Tipo
<1>3. /\ Len(d[a]) = Len(c[a]) + 1
      /\ \A i \in 1..Len(c[a]) : d[a][i] = c[a][i]
      /\ d[a][Len(c[a]) + 1] = p
  BY <1>1 DEF Tipo
<1>4. \A q \in NombresCola : c[q] \in Seq(Pids) /\ Len(c[q]) \in Nat
  BY DEF Tipo
<1>5. \A q \in NombresCola : \A i \in 1..Len(c[q]) : c[q][i] # p
  BY DEF Esta, Contains
<1>6. SinRepetidos(d)
  <2> SUFFICES ASSUME NEW q1 \in NombresCola, NEW q2 \in NombresCola,
                      NEW i \in 1..Len(d[q1]), NEW j \in 1..Len(d[q2]),
                      d[q1][i] = d[q2][j]
               PROVE  q1 = q2 /\ i = j
    BY DEF SinRepetidos
  <2>1. CASE q1 # a /\ q2 # a
    BY <2>1, <1>1 DEF SinRepetidos
  <2>2. CASE q1 = a /\ q2 # a
    <3>1. CASE i = Len(c[a]) + 1
      BY <3>1, <2>2, <1>1, <1>3, <1>5
    <3>2. CASE i \in 1..Len(c[a])
      BY <3>2, <2>2, <1>1, <1>3 DEF SinRepetidos
    <3>3. QED
      BY <3>1, <3>2, <2>2, <1>3, <1>4
  <2>3. CASE q1 # a /\ q2 = a
    <3>1. CASE j = Len(c[a]) + 1
      BY <3>1, <2>3, <1>1, <1>3, <1>5
    <3>2. CASE j \in 1..Len(c[a])
      BY <3>2, <2>3, <1>1, <1>3 DEF SinRepetidos
    <3>3. QED
      BY <3>1, <3>2, <2>3, <1>3, <1>4
  <2>4. CASE q1 = a /\ q2 = a
    <3>1. CASE i \in 1..Len(c[a]) /\ j \in 1..Len(c[a])
      <4>1. \A m, n \in 1..Len(c[a]) : c[a][m] = c[a][n] => m = n
        BY DEF SinRepetidos
      <4> HIDE DEF d
      <4>2. d[a][i] = d[a][j]
        BY <2>4
      <4>3. c[a][i] = c[a][j]
        BY <3>1, <4>2, <1>3
      <4>4. QED
        BY <3>1, <4>1, <4>3, <2>4
    <3>2. CASE i = Len(c[a]) + 1 \/ j = Len(c[a]) + 1
      <4> HIDE DEF d
      <4>1. d[a][i] = d[a][j] /\ i \in 1..Len(d[a]) /\ j \in 1..Len(d[a])
        BY <2>4
      <4>2. \A m \in 1..Len(c[a]) : d[a][m] # p
        BY <1>3, <1>5
      <4>3. QED
        BY <3>2, <2>4, <4>1, <4>2, <1>3, <1>4
    <3>3. QED
      BY <3>1, <3>2, <2>4, <1>3, <1>4
  <2>5. QED
    BY <2>1, <2>2, <2>3, <2>4
<1>7. ASSUME NEW q \in NombresCola, NEW x \in Pids
      PROVE  Esta(d, q, x) <=> (Esta(c, q, x) \/ (q = a /\ x = p))
  <2>1. CASE q # a
    BY <2>1, <1>1 DEF Esta
  <2>2. CASE q = a
    <3>1. Esta(d, a, x) <=> \E i \in 1..(Len(c[a]) + 1) : d[a][i] = x
      BY <1>3 DEF Esta, Contains
    <3>2. (\E i \in 1..(Len(c[a]) + 1) : d[a][i] = x)
             <=> ((\E i \in 1..Len(c[a]) : c[a][i] = x) \/ x = p)
      <4>1. ASSUME NEW i \in 1..(Len(c[a]) + 1), d[a][i] = x, x # p
            PROVE  i \in 1..Len(c[a]) /\ c[a][i] = x
        BY <4>1, <1>3, <1>4
      <4>2. ASSUME NEW i \in 1..Len(c[a]), c[a][i] = x
            PROVE  i \in 1..(Len(c[a]) + 1) /\ d[a][i] = x
        BY <4>2, <1>3, <1>4
      <4>3. Len(c[a]) + 1 \in 1..(Len(c[a]) + 1) /\ d[a][Len(c[a]) + 1] = p
        BY <1>3, <1>4
      <4>4. QED
        BY <4>1, <4>2, <4>3, Zenon
    <3>3. QED
      BY <2>2, <3>1, <3>2 DEF Esta, Contains
  <2>3. QED
    BY <2>1, <2>2
<1>8. QED
  BY <1>1, <1>2, <1>3, <1>6, <1>7

(* Taking the k-th pcb out of a queue.                                     *)
Sacado(d, c, p, a) ==
    /\ Tipo(d)
    /\ SinRepetidos(d)
    /\ \A q \in NombresCola, x \in Pids : Esta(d, q, x) <=> (Esta(c, q, x) /\ x # p)
    /\ Len(d[a]) = Len(c[a]) - 1
    /\ \A q \in NombresCola \ {a} : d[q] = c[q]

LEMMA SacaPropiedades ==
    ASSUME NEW c, Tipo(c), SinRepetidos(c),
           NEW a \in NombresCola, NEW k \in 1..Len(c[a])
    PROVE  Sacado([c EXCEPT ![a] = RemoveAt(@, k)], c, c[a][k], a)
<1> DEFINE d == [c EXCEPT ![a] = RemoveAt(@, k)]
           orig(i) == IF i < k THEN i ELSE i + 1
<1>1. d[a] = RemoveAt(c[a], k) /\ \A q \in NombresCola \ {a} : d[q] = c[q]
  BY DEF Tipo
<1>2. \A q \in NombresCola : c[q] \in Seq(Pids) /\ Len(c[q]) \in Nat
  BY DEF Tipo
<1>3. /\ d[a] \in Seq(Pids)
      /\ Len(d[a]) = Len(c[a]) - 1
      /\ \A i \in 1..(Len(c[a]) - 1) :
            d[a][i] = IF i < k THEN c[a][i] ELSE c[a][i + 1]
  BY <1>1, <1>2, RemoveAtPropiedades
<1>4. Tipo(d)
  BY <1>1, <1>3 DEF Tipo
<1>5. \A i \in 1..(Len(c[a]) - 1) :
         /\ orig(i) \in 1..Len(c[a]) /\ orig(i) # k
         /\ d[a][i] = c[a][orig(i)]
  BY <1>2, <1>3
<1>6. SinRepetidos(d)
  <2> SUFFICES ASSUME NEW q1 \in NombresCola, NEW q2 \in NombresCola,
                      NEW i \in 1..Len(d[q1]), NEW j \in 1..Len(d[q2]),
                      d[q1][i] = d[q2][j]
               PROVE  q1 = q2 /\ i = j
    BY DEF SinRepetidos
  <2>1. CASE q1 # a /\ q2 # a
    BY <2>1, <1>1 DEF SinRepetidos
  <2>2. CASE q1 = a /\ q2 # a
    BY <2>2, <1>1, <1>3, <1>5 DEF SinRepetidos
  <2>3. CASE q1 # a /\ q2 = a
    BY <2>3, <1>1, <1>3, <1>5 DEF SinRepetidos
  <2>4. CASE q1 = a /\ q2 = a
    <3>1. i \in 1..(Len(c[a]) - 1) /\ j \in 1..(Len(c[a]) - 1)
      BY <2>4, <1>3
    <3>2. orig(i) = orig(j)
      <4>1. \A m, n \in 1..Len(c[a]) : c[a][m] = c[a][n] => m = n
        BY DEF SinRepetidos
      <4>2. c[a][orig(i)] = c[a][orig(j)]
        BY <2>4, <3>1, <1>5
      <4>3. QED
        BY <3>1, <4>1, <4>2, <1>5
    <3>3. QED
      BY <2>4, <3>1, <3>2, <1>2
  <2>5. QED
    BY <2>1, <2>2, <2>3, <2>4
<1>7. ASSUME NEW q \in NombresCola, NEW x \in Pids
      PROVE  Esta(d, q, x) <=> (Esta(c, q, x) /\ x # c[a][k])
  <2>1. CASE q # a
    <3>1. Esta(c, q, x) => x # c[a][k]
      BY <2>1 DEF SinRepetidos, Esta, Contains
    <3>2. QED
      BY <2>1, <3>1, <1>1 DEF Esta
  <2>2. CASE q = a
    <3>1. ASSUME Esta(d, a, x) PROVE Esta(c, a, x) /\ x # c[a][k]
      <4>1. PICK i \in 1..(Len(c[a]) - 1) : d[a][i] = x
        BY <3>1, <1>3 DEF Esta, Contains
      <4>2. orig(i) \in 1..Len(c[a]) /\ c[a][orig(i)] = x /\ orig(i) # k
        BY <4>1, <1>5
      <4>3. QED
        BY <4>2 DEF Esta, Contains, SinRepetidos
    <3>2. ASSUME Esta(c, a, x), x # c[a][k] PROVE Esta(d, a, x)
      <4>1. PICK i \in 1..Len(c[a]) : c[a][i] = x
        BY <3>2 DEF Esta, Contains
      <4>2. i # k
        BY <4>1, <3>2
      <4> DEFINE j == IF i < k THEN i ELSE i - 1
      <4>3. j \in 1..(Len(c[a]) - 1) /\ orig(j) = i
        BY <4>2, <1>2
      <4>4. d[a][j] = x
        BY <4>1, <4>3, <1>5
      <4>5. QED
        BY <4>3, <4>4, <1>3 DEF Esta, Contains
    <3>3. QED
      BY <2>2, <3>1, <3>2
  <2>3. QED
    BY <2>1, <2>2
<1>8. QED
  BY <1>1, <1>3, <1>4, <1>6, <1>7 DEF Sacado

-----------------------------------------------------------------------------
(* What is known of the queues once p went from queue de to queue a.       *)
Mudado(d, c, p, de, a) ==
    /\ Tipo(d) /\ SinRepetidos(d)
    /\ p \in Pids /\ Esta(c, de, p)
    /\ \A q \in NombresCola, x \in Pids :
          Esta(d, q, x) <=> IF x = p THEN q = a ELSE Esta(c, q, x)
    /\ Len(d[de]) = Len(c[de]) - 1
    /\ Len(d[a]) = Len(c[a]) + 1
    /\ \A q \in NombresCola \ {de, a} : d[q] = c[q]

(* Taking the k-th pcb of a queue and pushing it to another moves it.      *)
LEMMA MudaPropiedades ==
    ASSUME NEW c, Tipo(c), SinRepetidos(c),
           NEW de \in NombresCola, NEW a \in NombresCola, de # a,
           NEW k \in 1..Len(c[de])
    PROVE  Mudado(Push([c EXCEPT ![de] = RemoveAt(@, k)], a, c[de][k]), c, c[de][k], de, a)
<1> DEFINE e == [c EXCEPT ![de] = RemoveAt(@, k)]
           p == c[de][k]
           d == Push(e, a, p)
<1>1. /\ Tipo(e)
      /\ SinRepetidos(e)
      /\ \A q \in NombresCola, x \in Pids : Esta(e, q, x) <=> (Esta(c, q, x) /\ x # p)
      /\ Len(e[de]) = Len(c[de]) - 1
      /\ \A q \in NombresCola \ {de} : e[q] = c[q]
  <2>1. Sacado(e, c, p, de)
    BY SacaPropiedades
  <2>2. QED
    BY <2>1 DEF Sacado
<1>2. p \in Pids /\ Esta(c, de, p)
  BY DEF Tipo, Esta, Contains
<1> HIDE DEF e, p
<1>3. \A q \in NombresCola : ~Esta(e, q, p)
  BY <1>1, <1>2
<1>4. /\ Tipo(d)
      /\ SinRepetidos(d)
      /\ \A q \in NombresCola, x \in Pids :
            Esta(d, q, x) <=> (Esta(e, q, x) \/ (q = a /\ x = p))
      /\ Len(d[a]) = Len(e[a]) + 1
      /\ \A q \in NombresCola \ {a} : d[q] = e[q]
  BY <1>1, <1>2, <1>3, PushPropiedades
<1> HIDE DEF d
<1>5. \A q \in NombresCola, x \in Pids :
         Esta(d, q, x) <=> IF x = p THEN q = a ELSE Esta(c, q, x)
  BY <1>1, <1>2, <1>3, <1>4
<1>6. Mudado(d, c, p, de, a)
  BY <1>1, <1>2, <1>4, <1>5 DEF Mudado
<1>7. QED
  BY <1>6 DEF d, e, p

(* PasaCabeza moves the head of a queue that is not empty.                 *)
LEMMA PasaCabezaPropiedades ==
    ASSUME NEW c, Tipo(c), SinRepetidos(c),
           NEW de \in NombresCola, NEW a \in NombresCola, de # a, ~Vacia(c, de)
    PROVE  Mudado(PasaCabeza(c, de, a), c, Head(c[de]), de, a)
<1>1. c[de] \in Seq(Pids) /\ c[de] # <<>>
  BY DEF Tipo, Vacia
<1>2. Tail(c[de]) = RemoveAt(c[de], 1) /\ 1 \in 1..Len(c[de]) /\ Head(c[de]) = c[de][1]
  BY <1>1, TailEsRemoveAt
<1>3. PasaCabeza(c, de, a) = Push([c EXCEPT ![de] = RemoveAt(@, 1)], a, c[de][1])
  BY <1>2 DEF PasaCabeza, Pop
<1>4. QED
  BY <1>2, <1>3, MudaPropiedades

(* Pasa moves a pcb from wherever it is in the queue.                      *)
LEMMA PasaPropiedades ==
    ASSUME NEW c, Tipo(c), SinRepetidos(c),
           NEW de \in NombresCola, NEW a \in NombresCola, de # a,
           NEW p, Esta(c, de, p)
    PROVE  Mudado(Pasa(c, p, de, a), c, p, de, a)
<1> DEFINE k == Posicion(c[de], p)
<1>1. c[de] \in Seq(Pids) /\ Contains(c[de], p)
  BY DEF Tipo, Esta
<1>2. k \in 1..Len(c[de]) /\ c[de][k] = p
  BY <1>1, PosicionPropiedades
<1>3. Pasa(c, p, de, a) = Push([c EXCEPT ![de] = RemoveAt(@, k)], a, c[de][k])
  BY <1>2 DEF Pasa, Quita
<1> HIDE DEF k
<1>4. QED
  BY <1>2, <1>3, MudaPropiedades

-----------------------------------------------------------------------------
(* A queue is empty exactly when no pid is in it.                          *)
LEMMA VaciaPropiedades ==
    ASSUME NEW c, Tipo(c), NEW q \in NombresCola
    PROVE  /\ Vacia(c, q) <=> Len(c[q]) = 0
           /\ Vacia(c, q) <=> \A p \in Pids : ~Esta(c, q, p)
           /\ ~Vacia(c, q) => Head(c[q]) \in Pids /\ Esta(c, q, Head(c[q]))
<1>1. c[q] \in Seq(Pids) /\ Len(c[q]) \in Nat
  BY DEF Tipo
<1>2. c[q] = <<>> <=> Len(c[q]) = 0
  BY <1>1
<1>3. ASSUME c[q] # <<>>
      PROVE  Head(c[q]) \in Pids /\ Esta(c, q, Head(c[q]))
  <2>1. 1 \in 1..Len(c[q]) /\ Head(c[q]) = c[q][1]
    BY <1>1, <1>3, TailEsRemoveAt
  <2>2. QED
    BY <2>1, <1>1 DEF Esta, Contains
<1>4. c[q] = <<>> => \A p \in Pids : ~Esta(c, q, p)
  BY <1>2 DEF Esta, Contains
<1>5. QED
  BY <1>2, <1>3, <1>4 DEF Vacia

-----------------------------------------------------------------------------
(* A move changes the pids a set of queues holds by the moved one only.    *)
LEMMA UbicadosPropiedades ==
    ASSUME NEW c, Tipo(c), SinRepetidos(c), NEW d, NEW p,
           NEW de \in NombresCola, NEW a \in NombresCola, de # a,
           Mudado(d, c, p, de, a), NEW Q \in SUBSET NombresCola
    PROVE  /\ Ubicados(d, Q) =
                 IF a \in Q THEN Ubicados(c, Q) \cup {p} ELSE Ubicados(c, Q) \ {p}
           /\ p \in Ubicados(c, Q) <=> de \in Q
<1>1. \A q \in NombresCola : Esta(c, q, p) => q = de
  BY DEF Mudado, SinRepetidos, Esta, Contains
<1>2. p \in Ubicados(c, Q) <=> de \in Q
  BY <1>1 DEF Ubicados, Mudado
<1>3. ASSUME NEW x \in Pids
      PROVE  x \in Ubicados(d, Q) <=> IF x = p THEN a \in Q ELSE x \in Ubicados(c, Q)
  BY DEF Ubicados, Mudado
<1>4. Ubicados(d, Q) =
         IF a \in Q THEN Ubicados(c, Q) \cup {p} ELSE Ubicados(c, Q) \ {p}
  <2>1. Ubicados(d, Q) \subseteq Pids /\ Ubicados(c, Q) \subseteq Pids /\ p \in Pids
    BY DEF Ubicados, Mudado
  <2>2. QED
    BY <1>3, <2>1
<1>5. QED
  BY <1>2, <1>4

(* Hence their number.                                                     *)
LEMMA CardinalUbicados ==
    ASSUME NEW c, NEW Q
    PROVE  IsFiniteSet(Ubicados(c, Q)) /\ Cardinality(Ubicados(c, Q)) \in Nat
<1>1. IsFiniteSet(Pids)
  BY ColasAssumption, FS_Interval DEF Pids
<1>2. Ubicados(c, Q) \subseteq Pids
  BY DEF Ubicados
<1>3. QED
  BY <1>1, <1>2, FS_Subset, FS_CardinalityType

LEMMA CardinalMudado ==
    ASSUME NEW c, Tipo(c), SinRepetidos(c), NEW d, NEW p,
           NEW de \in NombresCola, NEW a \in NombresCola, de # a,
           Mudado(d, c, p, de, a), NEW Q \in SUBSET NombresCola
    PROVE  Cardinality(Ubicados(d, Q)) =
             Cardinality(Ubicados(c, Q)) + (IF a \in Q THEN 1 ELSE 0)
                                         - (IF de \in Q THEN 1 ELSE 0)
<1> DEFINE U == Ubicados(c, Q)
           V == Ubicados(d, Q)
<1>1. /\ V = IF a \in Q THEN U \cup {p} ELSE U \ {p}
      /\ p \in U <=> de \in Q
  BY UbicadosPropiedades
<1>2. IsFiniteSet(U) /\ Cardinality(U) \in Nat
  BY CardinalUbicados
<1> HIDE DEF U, V
<1>3. /\ Cardinality(U \cup {p}) = IF p \in U THEN Cardinality(U) ELSE Cardinality(U) + 1
      /\ Cardinality(U \ {p}) = IF p \in U THEN Cardinality(U) - 1 ELSE Cardinality(U)
  BY <1>2, FS_AddElement, FS_RemoveElement
<1>4. Cardinality(V) = Cardinality(U) + (IF a \in Q THEN 1 ELSE 0)
                                      - (IF de \in Q THEN 1 ELSE 0)
  BY <1>1, <1>2, <1>3
<1>5. QED
  BY <1>4 DEF U, V

-----------------------------------------------------------------------------
(* The pid the creator thread holds is the last one assigned.              *)
CreadorCoherente == creando # Nadie => pidContador > 0 /\ creando = pidContador - 1

(* A permit is there exactly while the scheduler is started or the thread  *)
(* that has to take it has not run yet.                                    *)
FichasCoherentes ==
    /\ \A f \in Fases : ficha[f] = IF iniciada \/ f \in detenedores THEN 1 ELSE 0
    /\ iniciada => detenedores = {}
    /\ pedido.fase # "libre" => ~iniciada
    /\ pedido.fase \in {"busca", "reanuda"} => detenedores = {}

Base ==
    /\ TypeOK
    /\ UnSoloLugar
    /\ CreadorCoherente
    /\ FichasCoherentes
    /\ CPUCoherente

-----------------------------------------------------------------------------
(* Names that are different.                                               *)
LEMMA Nombres ==
    /\ EstadosKernel \subseteq NombresCola
    /\ Interfaces \subseteq NombresCola
    /\ \A i \in Interfaces : i \notin EstadosKernel /\ i \notin Motivos
    /\ \A p \in Pids : p # Nadie /\ p \in Nat
    /\ Tipo(ColasVacias)
<1>1. \A i \in Interfaces : i \notin EstadosKernel /\ i \notin Motivos
  BY ColasAssumption, PlanificadorAssumption
<1>2. \A p \in Pids : p # Nadie /\ p \in Nat
  BY ColasAssumption DEF Pids, Nadie
<1>3. QED
  BY <1>1, <1>2 DEF NombresCola, Tipo, ColasVacias

(* EXEC holds a process whenever a context is being received.              *)
LEMMA HayCorriendo ==
    ASSUME Base, Recibe
    PROVE  /\ cola["EXEC"] = <<contexto.pid>> /\ contexto.pid \in Pids
           /\ ~Vacia(cola, "EXEC") /\ Corriendo = contexto.pid
           /\ despacho = Nadie /\ cpu = Nadie
<1>1. cp = "recibe" /\ contexto.pid # Nadie
  BY DEF Recibe
<1>2. PICK p \in Pids :
         /\ cola["EXEC"] = <<p>>
         /\ <<despacho, cpu, contexto.pid>>
              \in {<<p, Nadie, Nadie>>, <<Nadie, p, Nadie>>, <<Nadie, Nadie, p>>}
  BY <1>1 DEF Base, CPUCoherente
<1>3. contexto.pid = p /\ despacho = Nadie /\ cpu = Nadie
  BY <1>1, <1>2
<1>4. <<p>> # <<>> /\ Head(<<p>>) = p
  OBVIOUS
<1>5. QED
  BY <1>2, <1>3, <1>4 DEF Vacia, Corriendo

(* How each action moves a pcb.                                            *)
LEMMA Mudanzas ==
    ASSUME Base
    PROVE  /\ LPMueve /\ ~Vacia(cola, "NEW")
                => Mudado(cola', cola, Head(cola["NEW"]), "NEW", "READY")
           /\ \A q \in ColasDePlanificacion : CPDespacha(q)
                => Mudado(cola', cola, Head(cola[q]), q, "EXEC")
           /\ FinDeEjecucion => Mudado(cola', cola, Corriendo, "EXEC", "EXIT")
           /\ FinDeQuantum => Mudado(cola', cola, Corriendo, "EXEC", "READY")
           /\ \A i \in Interfaces : BloqueoPorIO(i)
                => Mudado(cola', cola, Corriendo, "EXEC", i)
           /\ \A i \in Interfaces : IOCompleta(i)
                => LET p == Head(cola[i])
                       d == destino[p]
                   IN  Mudado(cola', cola, p, i, IF d = "COLA_EXIT_USUARIO" THEN "EXIT" ELSE d)
           /\ \A i \in Interfaces : IODrena(i)
                => Mudado(cola', cola, Head(cola[i]), i, "EXIT")
           /\ MataEnNew => Mudado(cola', cola, pedido.pid, "NEW", "EXIT")
           /\ \A q \in {"READY", "READYPLUS"} : MataEnReady(q)
                => Mudado(cola', cola, pedido.pid, q, "EXIT")
           /\ \A i \in Interfaces : MataEnIO(i) /\ Head(cola[i]) # pedido.pid
                => Mudado(cola', cola, pedido.pid, i, "EXIT")
<1>1. Tipo(cola) /\ SinRepetidos(cola)
  BY DEF Base, TypeOK, UnSoloLugar, Tipo
<1>2. /\ {"NEW", "READY", "READYPLUS", "EXEC", "EXIT"} \subseteq NombresCola
      /\ \A i \in Interfaces : i \in NombresCola
      /\ \A i \in Interfaces : i \notin {"NEW", "READY", "READYPLUS", "EXEC", "EXIT"}
  BY Nombres DEF EstadosKernel
<1>3. ASSUME NEW de \in NombresCola, NEW a \in NombresCola, de # a, ~Vacia(cola, de)
      PROVE  Mudado(PasaCabeza(cola, de, a), cola, Head(cola[de]), de, a)
  BY <1>1, <1>3, PasaCabezaPropiedades
<1>4. ASSUME NEW de \in NombresCola, NEW a \in NombresCola, de # a, NEW p, Esta(cola, de, p)
      PROVE  Mudado(Pasa(cola, p, de, a), cola, p, de, a)
  BY <1>1, <1>4, PasaPropiedades
<1>5. LPMueve /\ ~Vacia(cola, "NEW")
         => Mudado(cola', cola, Head(cola["NEW"]), "NEW", "READY")
  BY <1>2, <1>3 DEF LPMueve
<1>6. \A q \in ColasDePlanificacion : CPDespacha(q)
         => Mudado(cola', cola, Head(cola[q]), q, "EXEC")
  BY <1>2, <1>3 DEF CPDespacha, Elegible, ColasDePlanificacion
<1>7. FinDeEjecucion => Mudado(cola', cola, Corriendo, "EXEC", "EXIT")
  BY <1>2, <1>3, HayCorriendo DEF FinDeEjecucion, Corriendo
<1>8. FinDeQuantum => Mudado(cola', cola, Corriendo, "EXEC", "READY")
  BY <1>2, <1>3, HayCorriendo DEF FinDeQuantum, Corriendo
<1>9. \A i \in Interfaces : BloqueoPorIO(i)
         => Mudado(cola', cola, Corriendo, "EXEC", i)
  BY <1>2, <1>3, HayCorriendo DEF BloqueoPorIO, Corriendo
<1>10. ASSUME NEW i \in Interfaces, IOCompleta(i)
       PROVE  LET p == Head(cola[i])
                  d == destino[p]
              IN  Mudado(cola', cola, p, i, IF d = "COLA_EXIT_USUARIO" THEN "EXIT" ELSE d)
  <2>1. i \in NombresCola /\ ~Vacia(cola, i)
    BY <1>2, <1>10 DEF IOCompleta
  <2>2. Head(cola[i]) \in Pids
    BY <2>1, <1>1, VaciaPropiedades
  <2>3. destino[Head(cola[i])] \in {"READY", "READYPLUS", "COLA_EXIT_USUARIO"}
    BY <2>2 DEF Base, TypeOK
  <2>4. QED
    BY <2>1, <2>3, <1>2, <1>3, <1>10 DEF IOCompleta
<1>11. \A i \in Interfaces : IODrena(i) => Mudado(cola', cola, Head(cola[i]), i, "EXIT")
  BY <1>2, <1>3 DEF IODrena
<1>12. MataEnNew => Mudado(cola', cola, pedido.pid, "NEW", "EXIT")
  BY <1>2, <1>4 DEF MataEnNew
<1>13. \A q \in {"READY", "READYPLUS"} : MataEnReady(q)
         => Mudado(cola', cola, pedido.pid, q, "EXIT")
  BY <1>2, <1>4 DEF MataEnReady
<1>14. \A i \in Interfaces : MataEnIO(i) /\ Head(cola[i]) # pedido.pid
         => Mudado(cola', cola, pedido.pid, i, "EXIT")
  BY <1>2, <1>4 DEF MataEnIO
<1>15. QED
  BY <1>5, <1>6, <1>7, <1>8, <1>9, <1>10, <1>11, <1>12, <1>13, <1>14

(* Every step leaves the queues as they are, adds to NEW the process the   *)
(* creator thread holds, or moves one process, never out of EXIT.          *)
UnaMudanza ==
    \E p \in Pids, de \in NombresCola \ {"EXIT"}, a \in NombresCola :
        de # a /\ Mudado(cola', cola, p, de, a)

(* Every step leaves the queues alone, puts a new pcb in one, or moves one *)
(* pcb from a queue that is not EXIT to another.                           *)
LEMMA PasoDeColas ==
    ASSUME Base, [Next]_vars
    PROVE  \/ cola' = cola /\ UNCHANGED creacion
           \/ AsignarPid \/ ArchivoInvalido \/ CrearProceso
           \/ UnaMudanza /\ UNCHANGED creacion
<1>1. /\ {"NEW", "READY", "READYPLUS", "EXEC", "EXIT"} \subseteq NombresCola
      /\ \A i \in Interfaces : i \in NombresCola
      /\ \A i \in Interfaces : i \notin {"NEW", "READY", "READYPLUS", "EXEC", "EXIT"}
  BY Nombres DEF EstadosKernel
<1>2. ASSUME NEW p, NEW de \in NombresCola \ {"EXIT"}, NEW a \in NombresCola, de # a,
             Mudado(cola', cola, p, de, a)
      PROVE  UnaMudanza
  BY <1>2 DEF UnaMudanza, Mudado
<1>3. CASE Creador
  BY <1>3 DEF Creador
<1>4. CASE LargoPlazo
  <2>1. CASE LPMueve /\ ~Vacia(cola, "NEW")
    BY <2>1, <1>1, <1>2, Mudanzas DEF LPMueve
  <2>2. QED
    BY <1>4, <2>1 DEF LargoPlazo, LPEsperaNew, LPEsperaGrado, LPMueve, procesos
<1>5. CASE Planifica
  <2>1. ASSUME NEW q \in ColasDePlanificacion, CPDespacha(q)
        PROVE  UnaMudanza /\ UNCHANGED creacion
    <3>1. q \in NombresCola /\ q # "EXEC" /\ q # "EXIT"
      BY <1>1 DEF ColasDePlanificacion
    <3>2. QED
      BY <2>1, <3>1, <1>1, <1>2, Mudanzas DEF CPDespacha
  <2>2. QED
    BY <1>5, <2>1 DEF Planifica, CPEsperaReady, CPColaVacia, procesos
<1>6. CASE Atiende
  <2>1. UNCHANGED creacion
    BY <1>6 DEF Atiende, FinDeEjecucion, FinDeQuantum, BloqueoPorIO, Recibe
  <2>2. CASE FinDeEjecucion
    BY <2>1, <2>2, <1>1, <1>2, Mudanzas
  <2>3. CASE FinDeQuantum
    BY <2>1, <2>3, <1>1, <1>2, Mudanzas
  <2>4. ASSUME NEW i \in Interfaces, BloqueoPorIO(i)
        PROVE  UnaMudanza
    BY <2>4, <1>1, <1>2, Mudanzas
  <2>5. QED
    BY <1>6, <2>1, <2>2, <2>3, <2>4 DEF Atiende
<1>7. CASE CPCancela \/ CPU \/ VenceQuantum
  BY <1>7 DEF CPCancela, CPU, CPURecibe, CPUInterrumpe, CPUDevuelve, VenceQuantum, procesos
<1>8. ASSUME NEW i \in Interfaces, HiloIO(i)
      PROVE  UNCHANGED creacion /\ (cola' = cola \/ UnaMudanza)
  <2>1. CASE IOCompleta(i)
    <3> DEFINE d == destino[Head(cola[i])]
               a == IF d = "COLA_EXIT_USUARIO" THEN "EXIT" ELSE d
    <3>1. Mudado(cola', cola, Head(cola[i]), i, a)
      BY <2>1, Mudanzas
    <3>2. Head(cola[i]) \in Pids
      BY <3>1 DEF Mudado
    <3>3. a \in {"READY", "READYPLUS", "EXIT"}
      BY <3>2 DEF Base, TypeOK
    <3>4. QED
      BY <2>1, <3>1, <3>3, <1>1, <1>2 DEF IOCompleta
  <2>2. CASE IODrena(i)
    BY <2>2, <1>1, <1>2, Mudanzas DEF IODrena
  <2>3. QED
    BY <1>8, <2>1, <2>2 DEF HiloIO, IOConecta, IODesconecta, IOSale, procesos
<1>9. CASE Finalizador
  <2>1. CASE MataEnNew
    BY <2>1, <1>1, <1>2, Mudanzas DEF MataEnNew, Busca
  <2>2. ASSUME NEW q \in {"READY", "READYPLUS"}, MataEnReady(q)
        PROVE  UnaMudanza /\ UNCHANGED creacion
    BY <2>2, <1>1, <1>2, Mudanzas DEF MataEnReady, Busca
  <2>3. ASSUME NEW i \in Interfaces, MataEnIO(i)
        PROVE  UNCHANGED creacion /\ (cola' = cola \/ UnaMudanza)
    BY <2>3, <1>1, <1>2, Mudanzas DEF MataEnIO, Busca
  <2>4. QED
    BY <1>9, <2>1, <2>2, <2>3 DEF Finalizador, Mata, MataEnExec, NadaQueMatar, Busca,
       PlanificacionDetenida, Reanuda, DetenerCola, procesos
<1>10. CASE Consola \/ BajarGrado
  BY <1>10 DEF Consola, Iniciar, Detener, FinalizarProceso, CambiarGrado, BajarGrado, procesos
<1>11. CASE UNCHANGED vars
  BY <1>11 DEF vars, creacion
<1>12. QED
  BY <1>3, <1>4, <1>5, <1>6, <1>7, <1>8, <1>9, <1>10, <1>11 DEF Next, CortoPlazo

-----------------------------------------------------------------------------
(* Every queue is empty and no thread has begun.                           *)
LEMMA BaseInicial == Init => Base
<1> SUFFICES ASSUME Init PROVE Base
  OBVIOUS
<1>1. TypeOK
  <2>1. cola \in [NombresCola -> Seq(Pids)]
    BY Nombres DEF Init, Tipo
  <2>2. /\ Quantum \in 0..Quantum /\ 0 \in 0..Quantum /\ 0 \in 0..MaxProcesos
        /\ Multiprog \in Nat
    BY ColasAssumption, PlanificadorAssumption
  <2>3. /\ contexto \in [pid : Pids \cup {Nadie}, motivo : Motivos \cup Interfaces,
                         quantum : 0..Quantum]
        /\ pedido \in [fase : {"libre", "detiene", "busca", "reanuda"},
                       pid : Pids \cup {Nadie}, reanuda : BOOLEAN]
        /\ interrupcion \in [pid : Pids \cup {Nadie},
                             motivo : {"INTERRUPCION_QUANTUM", "USER_INTERRUPT"}]
    BY <2>2 DEF Init, SinContexto, SinInterrupcion, SinPedido, Motivos
  <2>4. QED
    BY <2>1, <2>2, <2>3 DEF Init, TypeOK
<1>2. \A q \in NombresCola : cola[q] = <<>>
  BY DEF Init, ColasVacias
<1>3. UnSoloLugar
  <2>1. SinRepetidos(cola)
    BY <1>2 DEF SinRepetidos
  <2>2. \A q \in NombresCola, p \in Pids : ~Esta(cola, q, p)
    BY <1>2 DEF Esta, Contains
  <2>3. Ubicados(cola, NombresCola) = {}
    BY <2>2 DEF Ubicados
  <2>4. {p \in Pids : p < pidContador} = {}
    BY Nombres DEF Init
  <2>5. QED
    BY <2>1, <2>3, <2>4 DEF UnSoloLugar
<1>4. CPUCoherente
  BY <1>2, Nombres DEF CPUCoherente, Init, SinContexto, Vacia, EstadosKernel
<1>5. CreadorCoherente /\ FichasCoherentes
  BY DEF Init, CreadorCoherente, FichasCoherentes, SinPedido, Fases
<1>6. QED
  BY <1>1, <1>3, <1>4, <1>5 DEF Base

-----------------------------------------------------------------------------
(* Each part of Base is preserved.                                         *)
LEMMA UnSoloLugarPaso ==
    ASSUME Base, [Next]_vars
    PROVE  UnSoloLugar' /\ Tipo(cola')
<1>1. /\ Tipo(cola) /\ SinRepetidos(cola)
      /\ Ubicados(cola, NombresCola) = {p \in Pids : p < pidContador} \ {creando}
      /\ pidContador \in 0..MaxProcesos
      /\ creando # Nadie => pidContador > 0 /\ creando = pidContador - 1
      /\ creando \in Pids \cup {Nadie}
  BY DEF Base, TypeOK, UnSoloLugar, CreadorCoherente, Tipo
<1>2. CASE cola' = cola /\ UNCHANGED creacion
  BY <1>1, <1>2 DEF UnSoloLugar, creacion
<1>3. CASE AsignarPid
  <2>1. cola' = cola /\ creando' = pidContador /\ pidContador' = pidContador + 1 /\ creando = Nadie
    BY <1>3 DEF AsignarPid, procesos
  <2>2. {p \in Pids : p < pidContador'} \ {creando'} = {p \in Pids : p < pidContador} \ {creando}
    BY <2>1, <1>1, Nombres
  <2>3. QED
    BY <2>1, <2>2, <1>1 DEF UnSoloLugar
<1>4. CASE ArchivoInvalido
  <2>1. cola' = cola /\ creando' = Nadie /\ pidContador' = pidContador - 1 /\ creando # Nadie
    BY <1>4 DEF ArchivoInvalido, procesos
  <2>2. {p \in Pids : p < pidContador'} \ {creando'} = {p \in Pids : p < pidContador} \ {creando}
    BY <2>1, <1>1, Nombres
  <2>3. QED
    BY <2>1, <2>2, <1>1 DEF UnSoloLugar
<1>5. CASE CrearProceso
  <2>1. /\ creando \in Pids /\ cola' = Push(cola, "NEW", creando)
        /\ creando' = Nadie /\ pidContador' = pidContador
    BY <1>1, <1>5 DEF CrearProceso
  <2>2. "NEW" \in NombresCola /\ \A q \in NombresCola : ~Esta(cola, q, creando)
    BY <1>1, <2>1, Nombres DEF Ubicados, EstadosKernel
  <2>3. /\ Tipo(cola') /\ SinRepetidos(cola')
        /\ \A q \in NombresCola, x \in Pids :
              Esta(cola', q, x) <=> (Esta(cola, q, x) \/ (q = "NEW" /\ x = creando))
    BY <1>1, <2>1, <2>2, PushPropiedades
  <2>4. Ubicados(cola', NombresCola) = Ubicados(cola, NombresCola) \cup {creando}
    BY <2>1, <2>2, <2>3 DEF Ubicados
  <2>5. {p \in Pids : p < pidContador'} \ {creando'}
          = ({p \in Pids : p < pidContador} \ {creando}) \cup {creando}
    BY <1>1, <2>1, Nombres
  <2>6. QED
    BY <2>3, <2>4, <2>5, <1>1 DEF UnSoloLugar
<1>6. CASE UnaMudanza /\ UNCHANGED creacion
  <2>1. PICK p \in Pids, de \in NombresCola \ {"EXIT"}, a \in NombresCola :
               de # a /\ Mudado(cola', cola, p, de, a)
    BY <1>6 DEF UnaMudanza
  <2>2. Tipo(cola') /\ SinRepetidos(cola')
    BY <2>1 DEF Mudado
  <2>3. Ubicados(cola', NombresCola) = Ubicados(cola, NombresCola)
    BY <1>1, <2>1, UbicadosPropiedades
  <2>4. QED
    BY <2>2, <2>3, <1>1, <1>6 DEF UnSoloLugar, creacion
<1>7. QED
  BY <1>2, <1>3, <1>4, <1>5, <1>6, PasoDeColas

(* Only the creator assigns pids.                                          *)
LEMMA CreadorPaso ==
    ASSUME Base, [Next]_vars
    PROVE  CreadorCoherente'
<1>1. CASE UNCHANGED creacion
  BY <1>1 DEF creacion, Base, CreadorCoherente
<1>2. CASE AsignarPid \/ ArchivoInvalido \/ CrearProceso
  <2>1. pidContador \in Int /\ pidContador >= 0
    BY ColasAssumption DEF Base, TypeOK
  <2>2. QED
    BY <1>2, <2>1 DEF AsignarPid, ArchivoInvalido, CrearProceso, CreadorCoherente
<1>3. QED
  BY <1>1, <1>2, PasoDeColas

(* Stopping and starting the scheduler takes and gives back each permit    *)
(* once.                                                                   *)
LEMMA FichasPaso ==
    ASSUME Base, [Next]_vars
    PROVE  FichasCoherentes' /\ ficha' \in [Fases -> {0, 1}]
<1> USE DEF FichasCoherentes
<1>1. FichasCoherentes /\ ficha \in [Fases -> {0, 1}]
  BY DEF Base, TypeOK
<1>2. CASE UNCHANGED control
  BY <1>1, <1>2 DEF control
<1>3. CASE Iniciar
  BY <1>1, <1>3 DEF Iniciar, IniciarPlanificacion, ConsolaQuieta
<1>4. CASE Detener
  BY <1>1, <1>4 DEF Detener, Pausa, ConsolaQuieta
<1>5. ASSUME NEW f \in Fases, DetenerCola(f)
      PROVE  FichasCoherentes' /\ ficha' \in [Fases -> {0, 1}]
  BY <1>1, <1>5 DEF DetenerCola
<1>6. ASSUME NEW p \in Pids, FinalizarProceso(p)
      PROVE  FichasCoherentes' /\ ficha' \in [Fases -> {0, 1}]
  BY <1>1, <1>6 DEF FinalizarProceso, Pausa, ConsolaQuieta
<1>7. CASE PlanificacionDetenida
  BY <1>1, <1>7 DEF PlanificacionDetenida, Base, TypeOK
<1>8. CASE Mata
  <2>1. Busca
    BY <1>8 DEF Mata, MataEnNew, MataEnReady, MataEnExec, MataEnIO, NadaQueMatar
  <2>2. QED
    BY <1>1, <2>1 DEF Busca, Base, TypeOK, SinPedido
<1>9. CASE Reanuda
  BY <1>1, <1>9 DEF Reanuda, IniciarPlanificacion, SinPedido
<1>10. CASE Creador \/ LargoPlazo
  <2>1. UNCHANGED control
    BY <1>10 DEF Creador, AsignarPid, CrearProceso, ArchivoInvalido,
       LargoPlazo, LPEsperaNew, LPEsperaGrado, LPMueve
  <2>2. QED
    BY <2>1, <1>2
<1>11. CASE CortoPlazo \/ CPU \/ VenceQuantum
  <2>1. UNCHANGED control
    BY <1>11 DEF CortoPlazo, Planifica, CPEsperaReady, CPDespacha, CPColaVacia,
       Atiende, FinDeEjecucion, FinDeQuantum, BloqueoPorIO, Recibe, CPCancela,
       CPU, CPURecibe, CPUInterrumpe, CPUDevuelve, VenceQuantum
  <2>2. QED
    BY <2>1, <1>2
<1>12. ASSUME NEW i \in Interfaces, HiloIO(i)
       PROVE  UNCHANGED control
  BY <1>12 DEF HiloIO, IOConecta, IOCompleta, IODesconecta, IODrena, IOSale
<1>13. ASSUME BajarGrado \/ (\E n \in Grados : CambiarGrado(n))
       PROVE  UNCHANGED control
  BY <1>13 DEF BajarGrado, CambiarGrado
<1>14. CASE UNCHANGED vars
  BY <1>14, <1>2 DEF vars, control
<1>15. QED
  BY <1>2, <1>3, <1>4, <1>5, <1>6, <1>7, <1>8, <1>9, <1>10, <1>11, <1>12, <1>13, <1>14
     DEF Next, Finalizador, Consola

(* The steps that move no pcb in or out of EXEC and touch nothing of the   *)
(* dispatch protocol.                                                      *)
LEMMA ExecIgual ==
    ASSUME Base, cola' = cola \/ CrearProceso \/
                 (\E p \in Pids, de, a \in NombresCola \ {"EXEC"} :
                     de # a /\ Mudado(cola', cola, p, de, a)),
           UNCHANGED <<cp, despacho, cpu, contexto>>
    PROVE  CPUCoherente'
<1>1. "EXEC" \in NombresCola /\ "NEW" \in NombresCola /\ Tipo(cola)
  BY Nombres DEF EstadosKernel, Base, TypeOK, Tipo
<1>2. cola'["EXEC"] = cola["EXEC"]
  <2>1. CASE CrearProceso
    BY <1>1, <2>1 DEF CrearProceso, Push, Tipo
  <2>2. QED
    BY <1>1, <2>1 DEF Mudado
<1>3. QED
  BY <1>2 DEF Base, CPUCoherente, Vacia

(* The pcb in EXEC, and nobody else, is in the CPU or on its way to it or  *)
(* from it.                                                                *)
LEMMA CPUPaso ==
    ASSUME Base, [Next]_vars
    PROVE  CPUCoherente'
<1>1. /\ {"NEW", "READY", "READYPLUS", "EXEC", "EXIT"} \subseteq NombresCola
      /\ \A i \in Interfaces : i \in NombresCola
      /\ \A i \in Interfaces : i \notin {"NEW", "READY", "READYPLUS", "EXEC", "EXIT"}
  BY Nombres DEF EstadosKernel
<1>2. ASSUME NEW p, NEW de \in NombresCola \ {"EXEC"}, NEW a \in NombresCola \ {"EXEC"},
             de # a, Mudado(cola', cola, p, de, a), UNCHANGED <<cp, despacho, cpu, contexto>>
      PROVE  CPUCoherente'
  <2>1. p \in Pids
    BY <1>2 DEF Mudado
  <2>2. QED
    BY <1>2, <2>1, ExecIgual
<1>3. ASSUME cola' = cola, UNCHANGED <<cp, despacho, cpu, contexto>>
      PROVE  CPUCoherente'
  BY <1>3, ExecIgual
<1>4. CASE Creador
  <2>1. UNCHANGED <<cp, despacho, cpu, contexto>>
    BY <1>4 DEF Creador, AsignarPid, CrearProceso, ArchivoInvalido, ejecucion
  <2>2. cola' = cola \/ CrearProceso
    BY <1>4 DEF Creador, AsignarPid, ArchivoInvalido, procesos
  <2>3. QED
    BY <2>1, <2>2, ExecIgual
<1>5. CASE LargoPlazo
  <2>1. UNCHANGED <<cp, despacho, cpu, contexto>>
    BY <1>5 DEF LargoPlazo, LPEsperaNew, LPEsperaGrado, LPMueve, ejecucion
  <2>2. CASE LPMueve /\ ~Vacia(cola, "NEW")
    BY <2>1, <2>2, <1>1, <1>2, Mudanzas
  <2>3. QED
    BY <1>5, <2>1, <2>2, <1>3 DEF LargoPlazo, LPEsperaNew, LPEsperaGrado, LPMueve, procesos
<1>6. CASE CPEsperaReady \/ CPColaVacia
  BY <1>6 DEF CPEsperaReady, CPColaVacia, procesos, ejecucion, Base, CPUCoherente, Vacia
<1>7. ASSUME NEW q \in ColasDePlanificacion, CPDespacha(q)
      PROVE  CPUCoherente'
  <2>1. q \in NombresCola /\ q # "EXEC"
    BY <1>1 DEF ColasDePlanificacion
  <2>2. Mudado(cola', cola, Head(cola[q]), q, "EXEC")
    BY <1>7, Mudanzas
  <2>3. Head(cola[q]) \in Pids
    BY <2>2 DEF Mudado
  <2>4. /\ cp = "espera_plani" /\ cp' = "recibe"
        /\ despacho' = Head(cola[q]) /\ cpu' = cpu /\ contexto' = contexto
        /\ cola' = PasaCabeza(cola, q, "EXEC")
    BY <1>7 DEF CPDespacha
  <2>5. cola["EXEC"] = <<>> /\ cpu = Nadie /\ contexto.pid = Nadie
    BY <2>4 DEF Base, CPUCoherente, Vacia
  <2>6. cola'["EXEC"] = Append(<<>>, Head(cola[q]))
    BY <2>1, <2>4, <2>5, <1>1 DEF PasaCabeza, Push, Pop, Base, TypeOK
  <2>7. cola'["EXEC"] = <<Head(cola[q])>>
    BY <2>6
  <2>8. QED
    BY <2>3, <2>4, <2>5, <2>7 DEF CPUCoherente
<1>8. CASE Atiende
  <2>1. PICK a \in NombresCola \ {"EXEC"} :
           Recibe /\ Mudado(cola', cola, Corriendo, "EXEC", a)
    <3>1. CASE FinDeEjecucion
      BY <3>1, <1>1, Mudanzas DEF FinDeEjecucion
    <3>2. CASE FinDeQuantum
      BY <3>2, <1>1, Mudanzas DEF FinDeQuantum
    <3>3. ASSUME NEW i \in Interfaces, BloqueoPorIO(i)
          PROVE  \E a \in NombresCola \ {"EXEC"} :
                    Recibe /\ Mudado(cola', cola, Corriendo, "EXEC", a)
      BY <3>3, <1>1, Mudanzas DEF BloqueoPorIO
    <3>4. QED
      BY <1>8, <3>1, <3>2, <3>3 DEF Atiende
  <2>2. /\ cola["EXEC"] = <<contexto.pid>> /\ despacho = Nadie /\ cpu = Nadie
    BY <2>1, HayCorriendo
  <2>3. Len(cola'["EXEC"]) = 0 /\ Tipo(cola')
    BY <2>1, <2>2 DEF Mudado
  <2>4. Vacia(cola', "EXEC")
    BY <2>3, <1>1, VaciaPropiedades
  <2>5. /\ cp' # "recibe" /\ despacho' = Nadie /\ cpu' = Nadie /\ contexto' = SinContexto
    BY <2>1, <2>2 DEF Recibe
  <2>6. QED
    BY <2>4, <2>5 DEF CPUCoherente, Vacia, SinContexto
<1>9. CASE CPCancela
  BY <1>9 DEF CPCancela, procesos, Base, CPUCoherente, Vacia
<1>10. CASE CPURecibe
  <2>1. /\ cpu = Nadie /\ despacho # Nadie /\ cpu' = despacho /\ despacho' = Nadie
        /\ cola' = cola /\ cp' = cp /\ contexto' = contexto
    BY <1>10 DEF CPURecibe, procesos
  <2>2. QED
    BY <2>1, Nombres DEF Base, CPUCoherente
<1>11. ASSUME CPUInterrumpe \/ (\E m \in {"EXIT", "OUT_OF_MEMORY"} \cup Interfaces : CPUDevuelve(m))
       PROVE  CPUCoherente'
  <2>1. /\ cpu # Nadie /\ cola' = cola /\ cp' = cp /\ despacho' = despacho
        /\ \/ cpu' = Nadie /\ contexto'.pid = cpu
           \/ cpu' = cpu /\ contexto' = contexto
    BY <1>11 DEF CPUInterrumpe, CPUDevuelve, procesos
  <2>2. QED
    BY <2>1, Nombres DEF Base, CPUCoherente, Vacia
<1>12. CASE VenceQuantum
  BY <1>12, <1>3 DEF VenceQuantum, procesos
<1>13. ASSUME NEW i \in Interfaces, HiloIO(i)
       PROVE  CPUCoherente'
  <2>1. UNCHANGED <<cp, despacho, cpu, contexto>>
    BY <1>13 DEF HiloIO, IOConecta, IOCompleta, IODesconecta, IODrena, IOSale, ejecucion
  <2>2. CASE IOCompleta(i)
    <3> DEFINE d == destino[Head(cola[i])]
               a == IF d = "COLA_EXIT_USUARIO" THEN "EXIT" ELSE d
    <3>1. Mudado(cola', cola, Head(cola[i]), i, a)
      BY <2>2, Mudanzas
    <3>2. Head(cola[i]) \in Pids
      BY <3>1 DEF Mudado
    <3>3. a \in {"READY", "READYPLUS", "EXIT"}
      BY <3>2 DEF Base, TypeOK
    <3>4. QED
      BY <2>1, <3>1, <3>3, <1>1, <1>2
  <2>3. CASE IODrena(i)
    BY <2>1, <2>3, <1>1, <1>2, Mudanzas
  <2>4. QED
    BY <1>13, <2>1, <2>2, <2>3, <1>3 DEF HiloIO, IOConecta, IODesconecta, IOSale, procesos
<1>14. CASE Finalizador
  <2>1. UNCHANGED <<cp, despacho, cpu, contexto>>
    BY <1>14 DEF Finalizador, PlanificacionDetenida, Reanuda, DetenerCola, ejecucion,
       Mata, MataEnNew, MataEnReady, MataEnExec, MataEnIO, NadaQueMatar, Busca
  <2>2. CASE MataEnNew
    BY <2>1, <2>2, <1>1, <1>2, Mudanzas
  <2>3. ASSUME NEW q \in {"READY", "READYPLUS"}, MataEnReady(q)
        PROVE  CPUCoherente'
    BY <2>1, <2>3, <1>1, <1>2, Mudanzas
  <2>4. ASSUME NEW i \in Interfaces, MataEnIO(i)
        PROVE  CPUCoherente'
    BY <2>1, <2>4, <1>1, <1>2, <1>3, Mudanzas DEF MataEnIO
  <2>5. QED
    BY <1>14, <2>1, <2>2, <2>3, <2>4, <1>3 DEF Finalizador, PlanificacionDetenida,
       Reanuda, DetenerCola, Mata, MataEnExec, NadaQueMatar, procesos
<1>15. CASE Consola \/ BajarGrado
  <2>1. cola' = cola /\ UNCHANGED <<cp, despacho, cpu, contexto>>
    BY <1>15 DEF Consola, Iniciar, Detener, FinalizarProceso, CambiarGrado, BajarGrado,
       procesos, ejecucion
  <2>2. QED
    BY <2>1, <1>3
<1>16. CASE UNCHANGED vars
  BY <1>16, <1>3 DEF vars
<1>17. QED
  BY <1>4, <1>5, <1>6, <1>7, <1>8, <1>9, <1>10, <1>11, <1>12, <1>13, <1>14, <1>15, <1>16
     DEF Next, CortoPlazo, Planifica, CPU

-----------------------------------------------------------------------------
(* The part of TypeOK about variables other than the queues and permits.   *)
TipoResto ==
    /\ quantum \in [Pids -> 0..Quantum]
    /\ destino \in [Pids -> {"READY", "READYPLUS", "COLA_EXIT_USUARIO"}]
    /\ pidContador \in 0..MaxProcesos
    /\ creando \in Pids \cup {Nadie}
    /\ semNew \in Nat /\ semReady \in Nat
    /\ grado \in Nat /\ multiprog \in Nat /\ bajadores \in Nat
    /\ iniciada \in BOOLEAN /\ intUsuario \in BOOLEAN
    /\ detenedores \subseteq Fases
    /\ pedido \in [fase : {"libre", "detiene", "busca", "reanuda"},
                   pid : Pids \cup {Nadie}, reanuda : BOOLEAN]
    /\ lp \in {"espera_new", "espera_grado", "espera_plani"}
    /\ cp \in {"espera_ready", "espera_plani", "recibe", "cancela"}
    /\ despacho \in Pids \cup {Nadie}
    /\ cpu \in Pids \cup {Nadie}
    /\ contexto \in [pid : Pids \cup {Nadie}, motivo : Motivos \cup Interfaces,
                     quantum : 0..Quantum]
    /\ interrupcion \in [pid : Pids \cup {Nadie},
                         motivo : {"INTERRUPCION_QUANTUM", "USER_INTERRUPT"}]
    /\ reloj \in Pids \cup {Nadie}
    /\ io \in [Interfaces -> {"fuera", "atiende", "drena"}]
    /\ fugados \subseteq Pids /\ condenados \subseteq Pids

(* TypeOK in the parts that are proved apart.                              *)
LEMMA TipoSeparado ==
    TypeOK <=> TipoResto /\ Tipo(cola) /\ ficha \in [Fases -> {0, 1}]
  BY DEF TypeOK, TipoResto, Tipo

(* Every step keeps the types of what is neither a queue nor a permit.     *)
LEMMA TipoRestoPaso ==
    ASSUME Base, [Next]_vars
    PROVE  TipoResto'
<1> USE DEF TipoResto, procesos, creacion, cupos, control, ejecucion, historia
<1>1. TipoResto
  BY TipoSeparado DEF Base
<1>2. CASE Creador
  <2>1. CASE AsignarPid
    BY <1>1, <2>1, ColasAssumption DEF AsignarPid, Pids
  <2>2. CASE CrearProceso
    BY <1>1, <2>2, PlanificadorAssumption DEF CrearProceso
  <2>3. CASE ArchivoInvalido
    BY <1>1, <2>3, ColasAssumption DEF ArchivoInvalido, Base, CreadorCoherente
  <2>4. QED
    BY <1>2, <2>1, <2>2, <2>3 DEF Creador
<1>3. CASE LPEsperaNew
  BY <1>1, <1>3 DEF LPEsperaNew
<1>4. CASE LPEsperaGrado
  BY <1>1, <1>4 DEF LPEsperaGrado
<1>5. CASE LPMueve
  BY <1>1, <1>5 DEF LPMueve
<1>6. CASE CPEsperaReady
  BY <1>1, <1>6 DEF CPEsperaReady
<1>7. ASSUME NEW q \in ColasDePlanificacion, CPDespacha(q)
      PROVE  TipoResto'
  <2>1. Head(cola[q]) \in Pids
    BY <1>7, Mudanzas DEF Mudado
  <2>2. QED
    BY <1>1, <1>7, <2>1 DEF CPDespacha
<1>8. CASE CPColaVacia
  BY <1>1, <1>8 DEF CPColaVacia
<1>9. CASE Recibe /\ Atiende
  <2>1. Corriendo \in Pids /\ contexto.quantum \in 0..Quantum /\ Quantum \in 0..Quantum
    BY <1>1, <1>9, HayCorriendo, PlanificadorAssumption
  <2>2. SinContexto \in [pid : Pids \cup {Nadie}, motivo : Motivos \cup Interfaces,
                        quantum : 0..Quantum]
    BY PlanificadorAssumption DEF SinContexto, Motivos
  <2>3. /\ contexto' = SinContexto /\ intUsuario' = FALSE
        /\ cp' \in {"cancela", "espera_ready"}
        /\ UNCHANGED <<creacion, semNew, multiprog, bajadores, control, lp,
                       despacho, cpu, interrupcion, reloj, io, historia>>
    BY <1>9 DEF Recibe
  <2>4. /\ quantum' \in [Pids -> 0..Quantum]
        /\ destino' \in [Pids -> {"READY", "READYPLUS", "COLA_EXIT_USUARIO"}]
        /\ grado' \in Nat /\ semReady' \in Nat
    <3>1. CASE FinDeEjecucion
      BY <1>1, <2>1, <3>1 DEF FinDeEjecucion
    <3>2. CASE FinDeQuantum
      BY <1>1, <2>1, <3>2 DEF FinDeQuantum
    <3>3. ASSUME NEW i \in Interfaces, BloqueoPorIO(i)
          PROVE  /\ quantum' \in [Pids -> 0..Quantum]
                 /\ destino' \in [Pids -> {"READY", "READYPLUS", "COLA_EXIT_USUARIO"}]
                 /\ grado' \in Nat /\ semReady' \in Nat
      <4>1. QuantumTrasIO(contexto.quantum) \in 0..Quantum
        BY <2>1 DEF QuantumTrasIO
      <4>2. DestinoTrasIO(i, contexto.quantum) \in {"READY", "READYPLUS"}
        BY DEF DestinoTrasIO
      <4>3. QED
        BY <1>1, <3>3, <4>1, <4>2 DEF BloqueoPorIO
    <3>4. QED
      BY <1>9, <3>1, <3>2, <3>3 DEF Atiende
  <2>5. contexto' \in [pid : Pids \cup {Nadie}, motivo : Motivos \cup Interfaces,
                      quantum : 0..Quantum]
    BY <2>2, <2>3
  <2>6. intUsuario' \in BOOLEAN /\ cp' \in {"espera_ready", "espera_plani", "recibe", "cancela"}
    BY <2>3
  <2>7. QED
    BY <1>1, <2>3, <2>4, <2>5, <2>6
<1>10. CASE CPCancela
  BY <1>1, <1>10 DEF CPCancela
<1>11. CASE CPURecibe
  BY <1>1, <1>11 DEF CPURecibe, SinInterrupcion
<1>12. ASSUME NEW p \in Pids
       PROVE  Restos(p) \subseteq 0..Quantum
  BY <1>1, <1>12, PlanificadorAssumption DEF Restos
<1>13. ASSUME NEW m \in {"EXIT", "OUT_OF_MEMORY"} \cup Interfaces, CPUDevuelve(m)
       PROVE  TipoResto'
  BY <1>1, <1>12, <1>13 DEF CPUDevuelve, Motivos
<1>14. CASE CPUInterrumpe
  BY <1>1, <1>12, <1>14 DEF CPUInterrumpe, SinInterrupcion, Motivos
<1>15. CASE VenceQuantum
  BY <1>1, <1>15 DEF VenceQuantum
<1>16. ASSUME NEW i \in Interfaces, HiloIO(i)
       PROVE  TipoResto'
  <2>1. CASE IOConecta(i) \/ IODesconecta(i) \/ IOSale(i)
    BY <1>1, <2>1 DEF IOConecta, IODesconecta, IOSale
  <2>2. CASE IOCompleta(i)
    BY <1>1, <2>2 DEF IOCompleta
  <2>3. CASE IODrena(i)
    <3>1. Head(cola[i]) \in Pids
      BY <2>3, Mudanzas DEF Mudado
    <3>2. QED
      BY <1>1, <2>3, <3>1 DEF IODrena
  <2>4. QED
    BY <1>16, <2>1, <2>2, <2>3 DEF HiloIO
<1>17. CASE Iniciar \/ Detener
  BY <1>1, <1>17 DEF Iniciar, Detener, IniciarPlanificacion, Pausa
<1>18. ASSUME NEW f \in Fases, DetenerCola(f)
       PROVE  TipoResto'
  BY <1>1, <1>18 DEF DetenerCola
<1>19. ASSUME NEW p \in Pids, FinalizarProceso(p)
       PROVE  TipoResto'
  <2>1. /\ [fase |-> "detiene", pid |-> p, reanuda |-> TRUE]
             \in [fase : {"libre", "detiene", "busca", "reanuda"},
                  pid : Pids \cup {Nadie}, reanuda : BOOLEAN]
        /\ [fase |-> "busca", pid |-> p, reanuda |-> FALSE]
             \in [fase : {"libre", "detiene", "busca", "reanuda"},
                  pid : Pids \cup {Nadie}, reanuda : BOOLEAN]
    OBVIOUS
  <2>2. /\ pedido' \in [fase : {"libre", "detiene", "busca", "reanuda"},
                       pid : Pids \cup {Nadie}, reanuda : BOOLEAN]
        /\ iniciada' \in BOOLEAN /\ detenedores' \subseteq Fases
    BY <1>1, <1>19, <2>1 DEF FinalizarProceso, Pausa
  <2>3. QED
    BY <1>1, <1>19, <2>2 DEF FinalizarProceso
<1>20. CASE PlanificacionDetenida
  BY <1>1, <1>20 DEF PlanificacionDetenida
<1>21. CASE Mata
  <2>1. Busca
    BY <1>21 DEF Mata, MataEnNew, MataEnReady, MataEnExec, MataEnIO, NadaQueMatar
  <2>2. pedido' \in [fase : {"libre", "detiene", "busca", "reanuda"},
                     pid : Pids \cup {Nadie}, reanuda : BOOLEAN]
    BY <1>1, <2>1 DEF Busca, SinPedido
  <2>3. /\ destino' \in [Pids -> {"READY", "READYPLUS", "COLA_EXIT_USUARIO"}]
        /\ grado' \in Nat /\ intUsuario' \in BOOLEAN /\ condenados' \subseteq Pids
        /\ interrupcion' \in [pid : Pids \cup {Nadie},
                              motivo : {"INTERRUPCION_QUANTUM", "USER_INTERRUPT"}]
    <3>1. CASE MataEnNew
      BY <1>1, <3>1 DEF MataEnNew
    <3>2. ASSUME NEW q \in {"READY", "READYPLUS"}, MataEnReady(q)
          PROVE  destino' = destino /\ grado' \in Nat /\ intUsuario' = intUsuario
                 /\ condenados' = condenados /\ interrupcion' = interrupcion
      BY <1>1, <3>2 DEF MataEnReady
    <3>3. CASE MataEnExec
      <4>1. ~Vacia(cola, "EXEC") /\ Esta(cola, "EXEC", pedido.pid)
        BY <3>3 DEF MataEnExec, Vacia, Esta, Contains
      <4>2. PICK p \in Pids : cola["EXEC"] = <<p>>
        BY <4>1 DEF Base, CPUCoherente
      <4>3. Corriendo = p /\ pedido.pid = p
        BY <4>1, <4>2 DEF Corriendo, Esta, Contains
      <4>4. QED
        BY <1>1, <3>3, <4>3 DEF MataEnExec, ConReloj
    <3>4. ASSUME NEW i \in Interfaces, MataEnIO(i)
          PROVE  /\ destino' \in [Pids -> {"READY", "READYPLUS", "COLA_EXIT_USUARIO"}]
                 /\ grado' \in Nat /\ condenados' \subseteq Pids
                 /\ intUsuario' = intUsuario /\ interrupcion' = interrupcion
      <4>1. pedido.pid \in Pids
        <5>1. i \in NombresCola /\ Esta(cola, i, pedido.pid)
          BY <3>4, Nombres DEF MataEnIO
        <5>2. QED
          BY <5>1 DEF Esta, Contains, Base, TypeOK
      <4>2. QED
        BY <1>1, <3>4, <4>1 DEF MataEnIO
    <3>5. CASE NadaQueMatar
      BY <1>1, <3>5 DEF NadaQueMatar
    <3>6. QED
      BY <1>1, <1>21, <3>1, <3>2, <3>3, <3>4, <3>5 DEF Mata
  <2>4. QED
    BY <1>1, <2>1, <2>2, <2>3 DEF Busca
<1>22. CASE Reanuda
  <2>1. SinPedido \in [fase : {"libre", "detiene", "busca", "reanuda"},
                      pid : Pids \cup {Nadie}, reanuda : BOOLEAN]
    BY DEF SinPedido
  <2>2. pedido' = SinPedido /\ iniciada' \in BOOLEAN
    BY <1>1, <1>22 DEF Reanuda, IniciarPlanificacion
  <2>3. QED
    BY <1>1, <1>22, <2>1, <2>2 DEF Reanuda
<1>23. ASSUME NEW n \in Grados, CambiarGrado(n)
       PROVE  TipoResto'
  BY <1>1, <1>23, PlanificadorAssumption DEF CambiarGrado
<1>24. CASE BajarGrado
  BY <1>1, <1>24 DEF BajarGrado
<1>25. CASE UNCHANGED vars
  BY <1>1, <1>25 DEF vars
<1>26. Atiende => Recibe
  BY DEF Atiende, FinDeEjecucion, FinDeQuantum, BloqueoPorIO
<1>27. QED
  BY <1>2, <1>3, <1>4, <1>5, <1>6, <1>7, <1>8, <1>9, <1>10, <1>11, <1>13, <1>14, <1>15,
     <1>16, <1>17, <1>18, <1>19, <1>20, <1>21, <1>22, <1>23, <1>24, <1>25, <1>26
     DEF Next, LargoPlazo, CortoPlazo, Planifica, CPU, Finalizador, Consola

(* Every step keeps Base.                                                  *)
LEMMA BasePaso == Base /\ [Next]_vars => Base'
<1> SUFFICES ASSUME Base, [Next]_vars PROVE Base'
  OBVIOUS
<1>1. UnSoloLugar' /\ Tipo(cola)'
  BY UnSoloLugarPaso DEF Tipo
<1>2. FichasCoherentes' /\ ficha' \in [Fases -> {0, 1}]
  BY FichasPaso
<1>3. TypeOK'
  BY <1>1, <1>2, TipoRestoPaso, TipoSeparado DEF TypeOK, TipoResto, Tipo
<1>4. QED
  BY <1>1, <1>2, <1>3, CreadorPaso, CPUPaso DEF Base

-----------------------------------------------------------------------------
(* READY+ is used by VRR only.                                             *)
SoloVRRPrioriza ==
    Algoritmo # "VRR" =>
        \A p \in Pids : ~Esta(cola, "READYPLUS", p) /\ destino[p] # "READYPLUS"

(* Nobody is sent to READY+ but by VRR (iniciar_planificacion).            *)
LEMMA SoloVRRPaso ==
    ASSUME Base, SoloVRRPrioriza, [Next]_vars
    PROVE  SoloVRRPrioriza'
<1> SUFFICES ASSUME Algoritmo # "VRR", NEW p \in Pids
             PROVE  ~Esta(cola', "READYPLUS", p) /\ destino'[p] # "READYPLUS"
  BY DEF SoloVRRPrioriza
<1>1. /\ \A x \in Pids : ~Esta(cola, "READYPLUS", x) /\ destino[x] # "READYPLUS"
      /\ destino \in [Pids -> {"READY", "READYPLUS", "COLA_EXIT_USUARIO"}]
  BY TipoSeparado DEF SoloVRRPrioriza, Base, TipoResto
<1>2. "READYPLUS" \in NombresCola /\ "NEW" \in NombresCola
      /\ \A i \in Interfaces : i \in NombresCola /\ i # "READYPLUS"
  BY Nombres DEF EstadosKernel
<1>3. ASSUME NEW x, NEW de, NEW a, Mudado(cola', cola, x, de, a), a # "READYPLUS"
      PROVE  ~Esta(cola', "READYPLUS", p)
  BY <1>1, <1>2, <1>3 DEF Mudado
<1>4. CASE Creador
  <2>1. destino' = destino
    BY <1>4 DEF Creador, AsignarPid, CrearProceso, ArchivoInvalido, procesos
  <2>2. CASE CrearProceso
    <3>1. cola'["READYPLUS"] = cola["READYPLUS"]
      BY <2>2, <1>2, TipoSeparado DEF CrearProceso, Push, Base, Tipo
    <3>2. QED
      BY <2>1, <3>1, <1>1 DEF Esta
  <2>3. QED
    BY <1>1, <1>4, <2>1, <2>2 DEF Creador, AsignarPid, ArchivoInvalido, procesos
<1>5. CASE LargoPlazo
  <2>1. CASE LPMueve /\ ~Vacia(cola, "NEW")
    BY <2>1, <1>1, <1>3, Mudanzas DEF LPMueve
  <2>2. QED
    BY <1>1, <1>5, <2>1 DEF LargoPlazo, LPEsperaNew, LPEsperaGrado, LPMueve, procesos
<1>6. ASSUME NEW q \in ColasDePlanificacion, CPDespacha(q)
      PROVE  ~Esta(cola', "READYPLUS", p) /\ destino'[p] # "READYPLUS"
  BY <1>1, <1>3, <1>6, Mudanzas DEF CPDespacha
<1>7. CASE FinDeEjecucion
  BY <1>1, <1>3, <1>7, Mudanzas DEF FinDeEjecucion
<1>8. CASE FinDeQuantum
  BY <1>1, <1>3, <1>8, Mudanzas DEF FinDeQuantum
<1>9. ASSUME NEW i \in Interfaces, BloqueoPorIO(i)
      PROVE  ~Esta(cola', "READYPLUS", p) /\ destino'[p] # "READYPLUS"
  <2>1. Mudado(cola', cola, Corriendo, "EXEC", i)
    BY <1>9, Mudanzas
  <2>2. destino' = [destino EXCEPT ![Corriendo] = DestinoTrasIO(i, contexto.quantum)]
    BY <1>9 DEF BloqueoPorIO
  <2>3. DestinoTrasIO(i, contexto.quantum) = "READY"
    BY DEF DestinoTrasIO
  <2>4. QED
    BY <1>1, <1>2, <1>3, <2>1, <2>2, <2>3
<1>10. CASE CPEsperaReady \/ CPColaVacia \/ CPCancela \/ CPU \/ VenceQuantum
  BY <1>1, <1>10 DEF CPEsperaReady, CPColaVacia, CPCancela, CPU, CPURecibe,
     CPUInterrumpe, CPUDevuelve, VenceQuantum, procesos
<1>11. ASSUME NEW i \in Interfaces, HiloIO(i)
       PROVE  ~Esta(cola', "READYPLUS", p) /\ destino'[p] # "READYPLUS"
  <2>1. destino' = destino
    BY <1>11 DEF HiloIO, IOConecta, IOCompleta, IODesconecta, IODrena, IOSale, procesos
  <2>2. CASE IOCompleta(i)
    <3> DEFINE d == destino[Head(cola[i])]
               a == IF d = "COLA_EXIT_USUARIO" THEN "EXIT" ELSE d
    <3>1. Mudado(cola', cola, Head(cola[i]), i, a)
      BY <2>2, Mudanzas
    <3>2. Head(cola[i]) \in Pids
      BY <3>1 DEF Mudado
    <3>3. a # "READYPLUS"
      BY <3>2, <1>1
    <3>4. QED
      BY <2>1, <3>1, <3>3, <1>1, <1>3
  <2>3. CASE IODrena(i)
    BY <2>1, <2>3, <1>1, <1>3, Mudanzas
  <2>4. QED
    BY <1>1, <1>11, <2>1, <2>2, <2>3 DEF HiloIO, IOConecta, IODesconecta, IOSale, procesos
<1>12. CASE Mata
  <2>1. destino'[p] # "READYPLUS"
    BY <1>1, <1>12 DEF Mata, MataEnNew, MataEnReady, MataEnExec, MataEnIO, NadaQueMatar
  <2>2. CASE MataEnNew
    BY <2>1, <2>2, <1>3, Mudanzas
  <2>3. ASSUME NEW q \in {"READY", "READYPLUS"}, MataEnReady(q)
        PROVE  ~Esta(cola', "READYPLUS", p)
    BY <2>3, <1>3, Mudanzas
  <2>4. ASSUME NEW i \in Interfaces, MataEnIO(i)
        PROVE  ~Esta(cola', "READYPLUS", p)
    <3>1. cola' = cola \/ Mudado(cola', cola, pedido.pid, i, "EXIT")
      BY <2>4, Mudanzas DEF MataEnIO
    <3>2. QED
      BY <3>1, <1>1, <1>3
  <2>5. QED
    BY <1>1, <1>12, <2>1, <2>2, <2>3, <2>4 DEF Mata, MataEnExec, NadaQueMatar
<1>13. CASE PlanificacionDetenida \/ Reanuda \/ (\E f \in Fases : DetenerCola(f))
  BY <1>1, <1>13 DEF PlanificacionDetenida, Reanuda, DetenerCola, procesos
<1>14. CASE Consola \/ BajarGrado
  BY <1>1, <1>14 DEF Consola, Iniciar, Detener, FinalizarProceso, CambiarGrado,
     BajarGrado, procesos
<1>15. CASE UNCHANGED vars
  BY <1>1, <1>15 DEF vars
<1>16. QED
  BY <1>4, <1>5, <1>6, <1>7, <1>8, <1>9, <1>10, <1>11, <1>12, <1>13, <1>14, <1>15
     DEF Next, CortoPlazo, Planifica, Atiende, Finalizador

-----------------------------------------------------------------------------
(* The two sides of ReadyCubierta.                                         *)
Listas == {"READY", "READYPLUS"}
Listos(c) == Len(c["READY"]) + Len(c["READYPLUS"])
Permisos == semReady + (IF cp = "espera_plani" THEN 1 ELSE 0)

(* A pcb that is moved is counted where it arrives and no more where it    *)
(* was.                                                                    *)
LEMMA ListosMudado ==
    ASSUME NEW c, Tipo(c), NEW d, NEW p,
           NEW de \in NombresCola, NEW a \in NombresCola, de # a,
           Mudado(d, c, p, de, a)
    PROVE  /\ Listos(c) \in Nat /\ Listos(d) \in Nat
           /\ Listos(d) = Listos(c) + (IF a \in Listas THEN 1 ELSE 0)
                                    - (IF de \in Listas THEN 1 ELSE 0)
<1>1. "READY" \in NombresCola /\ "READYPLUS" \in NombresCola
  BY Nombres DEF EstadosKernel
<1>2. c \in [NombresCola -> Seq(Pids)] /\ d \in [NombresCola -> Seq(Pids)]
  BY DEF Tipo, Mudado
<1> DEFINE r == Len(c["READY"])
           rp == Len(c["READYPLUS"])
           s == Len(d["READY"])
           sp == Len(d["READYPLUS"])
<1>3. /\ a = "READY" => s = r + 1
      /\ de = "READY" => s = r - 1
      /\ "READY" \notin {a, de} => s = r
      /\ a = "READYPLUS" => sp = rp + 1
      /\ de = "READYPLUS" => sp = rp - 1
      /\ "READYPLUS" \notin {a, de} => sp = rp
  BY <1>1 DEF Mudado
<1>4. r \in Nat /\ rp \in Nat /\ s \in Nat /\ sp \in Nat
  BY <1>1, <1>2
<1>5. Listos(c) = r + rp /\ Listos(d) = s + sp
  BY DEF Listos
<1> HIDE DEF r, rp, s, sp
<1>6. QED
  BY <1>3, <1>4, <1>5 DEF Listas

(* What a step that adds to READY or READY+ owes: a sem_post.              *)
LEMMA ReadyPaso ==
    ASSUME Base, SoloVRRPrioriza, ReadyCubierta, [Next]_vars
    PROVE  ReadyCubierta'
<1>1. /\ {"NEW", "READY", "READYPLUS", "EXEC", "EXIT"} \subseteq NombresCola
      /\ \A i \in Interfaces : i \in NombresCola /\ i \notin Listas
  BY Nombres DEF EstadosKernel, Listas
<1>2. /\ Tipo(cola) /\ semReady \in Nat
      /\ destino \in [Pids -> {"READY", "READYPLUS", "COLA_EXIT_USUARIO"}]
  BY TipoSeparado DEF Base, TipoResto
<1>3. Listos(cola) \in Nat
  BY <1>1, <1>2 DEF Listos, Tipo
<1>4. Listos(cola) <= Permisos
  BY DEF ReadyCubierta, Listos, Permisos
<1>5. SUFFICES Listos(cola') <= Permisos'
  BY DEF ReadyCubierta, Listos, Permisos
<1>6. ASSUME NEW p, NEW de \in NombresCola, NEW a \in NombresCola, de # a,
             Mudado(cola', cola, p, de, a)
      PROVE  /\ Listos(cola') \in Nat
             /\ Listos(cola') = Listos(cola) + (IF a \in Listas THEN 1 ELSE 0)
                                              - (IF de \in Listas THEN 1 ELSE 0)
  BY <1>2, <1>6, ListosMudado
<1>7. ASSUME cola' = cola, UNCHANGED <<semReady, cp>>
      PROVE  Listos(cola') <= Permisos'
  <2>1. Permisos' = Permisos
    BY <1>7 DEF Permisos
  <2>2. QED
    BY <2>1, <1>4, <1>7
<1>8. CASE Creador
  <2>1. CASE CrearProceso
    <3>1. /\ cola'["READY"] = cola["READY"] /\ cola'["READYPLUS"] = cola["READYPLUS"]
          /\ UNCHANGED <<semReady, cp>>
      BY <2>1, <1>1, <1>2 DEF CrearProceso, Push, Tipo
    <3>2. QED
      BY <3>1, <1>4 DEF Listos, Permisos
  <2>2. QED
    BY <1>7, <1>8, <2>1 DEF Creador, AsignarPid, ArchivoInvalido, procesos
<1>9. CASE LargoPlazo
  <2>1. CASE LPMueve /\ ~Vacia(cola, "NEW")
    <3>1. Listos(cola') = Listos(cola) + 1
      BY <2>1, <1>1, <1>3, <1>6, Mudanzas DEF Listas
    <3>2. semReady' = semReady + 1 /\ cp' = cp
      BY <2>1 DEF LPMueve
    <3>3. QED
      BY <3>1, <3>2, <1>2, <1>3, <1>4 DEF Permisos
  <2>2. QED
    BY <1>7, <1>9, <2>1 DEF LargoPlazo, LPEsperaNew, LPEsperaGrado, LPMueve, procesos
<1>10. CASE CPEsperaReady
  <2>1. /\ cola' = cola
        /\ cp = "espera_ready" /\ cp' = "espera_plani" /\ semReady' = semReady - 1
    BY <1>10 DEF CPEsperaReady, procesos
  <2>2. Permisos' = Permisos
    BY <2>1, <1>2 DEF Permisos
  <2>3. QED
    BY <2>1, <2>2, <1>4
<1>11. ASSUME NEW q \in ColasDePlanificacion, CPDespacha(q)
       PROVE  Listos(cola') <= Permisos'
  <2>1. q \in Listas /\ q \in NombresCola /\ q # "EXEC"
    BY <1>1 DEF ColasDePlanificacion, Listas
  <2>2. Listos(cola') = Listos(cola) - 1
    BY <2>1, <1>1, <1>3, <1>6, <1>11, Mudanzas DEF Listas
  <2>3. Permisos' = Permisos - 1
    BY <1>2, <1>11 DEF CPDespacha, Permisos
  <2>4. Permisos \in Int
    BY <1>2 DEF Permisos
  <2>5. QED
    BY <2>2, <2>3, <2>4, <1>3, <1>4
<1>12. CASE CPColaVacia
  <2>1. /\ \A q \in ColasDePlanificacion : ~Elegible(q)
        /\ cola' = cola /\ semReady' = semReady
    BY <1>12 DEF CPColaVacia, procesos
  <2>2. Vacia(cola, "READY")
    BY <2>1 DEF ColasDePlanificacion, Elegible
  <2>3. Vacia(cola, "READYPLUS")
    <3>1. CASE Algoritmo = "VRR"
      BY <2>1, <3>1 DEF ColasDePlanificacion, Elegible
    <3>2. CASE Algoritmo # "VRR"
      BY <3>2, <1>1, <1>2, VaciaPropiedades DEF SoloVRRPrioriza
    <3>3. QED
      BY <3>1, <3>2
  <2>4. Len(cola["READY"]) = 0 /\ Len(cola["READYPLUS"]) = 0
    BY <2>2, <2>3, <1>1, <1>2, VaciaPropiedades
  <2>5. Listos(cola') = 0
    BY <2>1, <2>4 DEF Listos
  <2>6. QED
    BY <2>1, <2>5, <1>2 DEF Permisos
<1>13. CASE Atiende
  <2>1. /\ cp = "recibe" /\ cp' \in {"cancela", "espera_ready"}
    BY <1>13 DEF Atiende, FinDeEjecucion, FinDeQuantum, BloqueoPorIO, Recibe
  <2>2. CASE FinDeEjecucion
    <3>1. Listos(cola') = Listos(cola)
      BY <2>2, <1>1, <1>3, <1>6, Mudanzas DEF Listas
    <3>2. QED
      BY <3>1, <2>1, <2>2, <1>4 DEF FinDeEjecucion, Permisos
  <2>3. CASE FinDeQuantum
    <3>1. Listos(cola') = Listos(cola) + 1
      BY <2>3, <1>1, <1>3, <1>6, Mudanzas DEF Listas
    <3>2. semReady' = semReady + 1
      BY <2>3 DEF FinDeQuantum
    <3>3. QED
      BY <3>1, <3>2, <2>1, <1>2, <1>3, <1>4 DEF Permisos
  <2>4. ASSUME NEW i \in Interfaces, BloqueoPorIO(i)
        PROVE  Listos(cola') <= Permisos'
    <3>1. Mudado(cola', cola, Corriendo, "EXEC", i) /\ i # "EXEC"
      BY <2>4, Mudanzas, Nombres DEF EstadosKernel
    <3>2. Listos(cola') = Listos(cola)
      BY <3>1, <1>1, <1>3, <1>6 DEF Listas
    <3>3. QED
      BY <3>2, <2>1, <2>4, <1>4 DEF BloqueoPorIO, Permisos
  <2>5. QED
    BY <1>13, <2>2, <2>3, <2>4 DEF Atiende
<1>14. CASE CPCancela
  BY <1>4, <1>14 DEF CPCancela, Permisos, procesos
<1>15. CASE CPU \/ VenceQuantum
  BY <1>7, <1>15 DEF CPU, CPURecibe, CPUInterrumpe, CPUDevuelve, VenceQuantum, procesos
<1>16. ASSUME NEW i \in Interfaces, HiloIO(i)
       PROVE  Listos(cola') <= Permisos'
  <2>1. i \in NombresCola /\ i \notin {"READY", "READYPLUS", "EXIT"}
    BY Nombres DEF EstadosKernel
  <2>2. CASE IOCompleta(i)
    <3> DEFINE d == destino[Head(cola[i])]
               a == IF d = "COLA_EXIT_USUARIO" THEN "EXIT" ELSE d
    <3>1. Mudado(cola', cola, Head(cola[i]), i, a)
      BY <2>2, Mudanzas
    <3>2. Head(cola[i]) \in Pids
      BY <3>1 DEF Mudado
    <3>3. d \in {"READY", "READYPLUS", "COLA_EXIT_USUARIO"}
      BY <3>2, <1>2
    <3>4. /\ semReady' = IF d = "COLA_EXIT_USUARIO" THEN semReady ELSE semReady + 1
          /\ cp' = cp
      BY <2>2 DEF IOCompleta
    <3>5. a \in NombresCola /\ a # i /\ (a \in Listas <=> d # "COLA_EXIT_USUARIO")
      BY <2>1, <3>3, <1>1 DEF Listas
    <3> HIDE DEF d, a
    <3>6. Listos(cola') = Listos(cola) + (IF a \in Listas THEN 1 ELSE 0)
      BY <2>1, <3>1, <3>5, <1>1, <1>3, <1>6
    <3>7. QED
      BY <3>4, <3>5, <3>6, <1>2, <1>3, <1>4 DEF Permisos
  <2>3. CASE IODrena(i)
    <3>1. Listos(cola') = Listos(cola)
      BY <2>1, <2>3, <1>1, <1>3, <1>6, Mudanzas DEF Listas
    <3>2. QED
      BY <3>1, <2>3, <1>4 DEF IODrena, Permisos
  <2>4. QED
    BY <1>7, <1>16, <2>2, <2>3 DEF HiloIO, IOConecta, IODesconecta, IOSale, procesos
<1>17. CASE Mata
  <2>1. UNCHANGED <<semReady, cp>>
    BY <1>17 DEF Mata, MataEnNew, MataEnReady, MataEnExec, MataEnIO, NadaQueMatar, Busca
  <2>2. Permisos' = Permisos /\ Permisos \in Int
    BY <2>1, <1>2 DEF Permisos
  <2>3. ASSUME NEW p, NEW de \in NombresCola, de # "EXIT", Mudado(cola', cola, p, de, "EXIT")
        PROVE  Listos(cola') <= Permisos'
    <3>1. Listos(cola') <= Listos(cola) /\ Listos(cola') \in Nat
      BY <2>3, <1>1, <1>3, <1>6 DEF Listas
    <3>2. QED
      BY <3>1, <2>2, <1>3, <1>4
  <2>4. CASE MataEnNew
    BY <2>3, <2>4, <1>1, Mudanzas
  <2>5. ASSUME NEW q \in {"READY", "READYPLUS"}, MataEnReady(q)
        PROVE  Listos(cola') <= Permisos'
    <3>1. Mudado(cola', cola, pedido.pid, q, "EXIT")
      BY <2>5, Mudanzas
    <3>2. QED
      BY <3>1, <2>3, <1>1
  <2>6. ASSUME NEW i \in Interfaces, MataEnIO(i)
        PROVE  Listos(cola') <= Permisos'
    <3>1. cola' = cola \/ Mudado(cola', cola, pedido.pid, i, "EXIT")
      BY <2>6, Mudanzas DEF MataEnIO
    <3>2. i # "EXIT" /\ i \in NombresCola
      BY Nombres DEF EstadosKernel
    <3>3. QED
      BY <3>1, <3>2, <2>1, <2>3, <1>7
  <2>7. QED
    BY <1>7, <1>17, <2>1, <2>4, <2>5, <2>6 DEF Mata, MataEnExec, NadaQueMatar
<1>18. CASE PlanificacionDetenida \/ Reanuda \/ (\E f \in Fases : DetenerCola(f))
  BY <1>7, <1>18 DEF PlanificacionDetenida, Reanuda, DetenerCola, procesos
<1>19. CASE Consola \/ BajarGrado
  BY <1>7, <1>19 DEF Consola, Iniciar, Detener, FinalizarProceso, CambiarGrado,
     BajarGrado, procesos
<1>20. CASE UNCHANGED vars
  BY <1>7, <1>20 DEF vars
<1>21. QED
  BY <1>8, <1>9, <1>10, <1>11, <1>12, <1>13, <1>14, <1>15, <1>16, <1>17, <1>18, <1>19, <1>20
     DEF Next, CortoPlazo, Planifica, Finalizador

-----------------------------------------------------------------------------
(* The two sides of NewCubierta.                                           *)
PermisosNew == semNew + (IF lp = "espera_new" THEN 0 ELSE 1)

(* Each post of semNew comes with a pcb in NEW.                            *)
LEMMA NewPaso ==
    ASSUME Base, NewCubierta, [Next]_vars
    PROVE  NewCubierta'
<1>1. /\ {"NEW", "READY", "READYPLUS", "EXEC", "EXIT"} \subseteq NombresCola
      /\ \A i \in Interfaces : i \in NombresCola /\ i # "NEW"
  BY Nombres DEF EstadosKernel
<1>2. Tipo(cola) /\ semNew \in Nat
  BY TipoSeparado DEF Base, TipoResto
<1> DEFINE n == Len(cola["NEW"])
<1>3. n \in Nat /\ PermisosNew \in Nat /\ n <= PermisosNew
  BY <1>1, <1>2 DEF Tipo, NewCubierta, PermisosNew
<1>4. SUFFICES Len(cola'["NEW"]) <= PermisosNew'
  BY DEF NewCubierta, PermisosNew
<1>5. ASSUME cola'["NEW"] = cola["NEW"], UNCHANGED <<semNew, lp>>
      PROVE  Len(cola'["NEW"]) <= PermisosNew'
  <2>1. PermisosNew' = PermisosNew
    BY <1>5 DEF PermisosNew
  <2>2. QED
    BY <2>1, <1>3, <1>5
<1>6. ASSUME NEW p, NEW de \in NombresCola \ {"NEW"}, NEW a \in NombresCola \ {"NEW"},
             Mudado(cola', cola, p, de, a)
      PROVE  cola'["NEW"] = cola["NEW"]
  BY <1>1, <1>6 DEF Mudado
<1>7. CASE Creador
  <2>1. CASE CrearProceso
    <3>1. cola'["NEW"] = Append(cola["NEW"], creando) /\ creando \in Pids
      BY <2>1, <1>1, <1>2, TipoSeparado DEF CrearProceso, Push, Tipo, Base, TipoResto
    <3>2. Len(cola'["NEW"]) = n + 1
      BY <3>1, <1>1, <1>2 DEF Tipo
    <3>3. semNew' = semNew + 1 /\ lp' = lp
      BY <2>1 DEF CrearProceso
    <3>4. PermisosNew' = PermisosNew + 1
      BY <3>3, <1>2 DEF PermisosNew
    <3> HIDE DEF n
    <3>5. QED
      BY <3>2, <3>4, <1>3
  <2>2. QED
    BY <1>5, <1>7, <2>1 DEF Creador, AsignarPid, ArchivoInvalido, procesos
<1>8. CASE LPEsperaNew
  <2>1. cola' = cola /\ lp = "espera_new" /\ lp' # "espera_new" /\ semNew' = semNew - 1
    BY <1>8 DEF LPEsperaNew, procesos
  <2>2. PermisosNew' = PermisosNew
    BY <2>1, <1>2 DEF PermisosNew
  <2>3. QED
    BY <2>1, <2>2, <1>3
<1>9. CASE LPEsperaGrado
  <2>1. cola' = cola /\ semNew' = semNew /\ lp # "espera_new" /\ lp' # "espera_new"
    BY <1>9 DEF LPEsperaGrado, procesos
  <2>2. PermisosNew' = PermisosNew
    BY <2>1 DEF PermisosNew
  <2>3. QED
    BY <2>1, <2>2, <1>3
<1>10. CASE LPMueve
  <2>1. semNew' = semNew /\ lp = "espera_plani" /\ lp' = "espera_new"
    BY <1>10 DEF LPMueve
  <2>2. PermisosNew = semNew + 1 /\ PermisosNew' = semNew
    BY <2>1, <1>2 DEF PermisosNew
  <2>3. CASE Vacia(cola, "NEW")
    <3>1. cola' = cola
      BY <1>10, <2>3 DEF LPMueve
    <3>2. n = 0
      BY <2>3, <1>1, <1>2, VaciaPropiedades
    <3>3. QED
      BY <3>1, <3>2, <2>2, <1>2
  <2>4. CASE ~Vacia(cola, "NEW")
    <3>1. Mudado(cola', cola, Head(cola["NEW"]), "NEW", "READY")
      BY <1>10, <2>4, Mudanzas
    <3>2. Len(cola'["NEW"]) = n - 1
      BY <3>1 DEF Mudado
    <3> HIDE DEF n
    <3>3. QED
      BY <3>2, <2>2, <1>2, <1>3
  <2>5. QED
    BY <2>3, <2>4
<1>11. CASE CortoPlazo
  <2>1. UNCHANGED <<semNew, lp>>
    BY <1>11 DEF CortoPlazo, Planifica, CPEsperaReady, CPDespacha, CPColaVacia, Atiende,
       FinDeEjecucion, FinDeQuantum, BloqueoPorIO, Recibe, CPCancela
  <2>2. cola'["NEW"] = cola["NEW"]
    <3>1. ASSUME NEW q \in ColasDePlanificacion, CPDespacha(q)
          PROVE  cola'["NEW"] = cola["NEW"]
      <4>1. q \in NombresCola /\ q # "NEW"
        BY <1>1 DEF ColasDePlanificacion
      <4>2. QED
        BY <3>1, <4>1, <1>1, <1>6, Mudanzas
    <3>2. CASE FinDeEjecucion
      BY <3>2, <1>1, <1>6, Mudanzas
    <3>3. CASE FinDeQuantum
      BY <3>3, <1>1, <1>6, Mudanzas
    <3>4. ASSUME NEW i \in Interfaces, BloqueoPorIO(i)
          PROVE  cola'["NEW"] = cola["NEW"]
      BY <3>4, <1>1, <1>6, Mudanzas
    <3>5. QED
      BY <1>11, <3>1, <3>2, <3>3, <3>4
         DEF CortoPlazo, Planifica, CPEsperaReady, CPColaVacia, Atiende, CPCancela, procesos
  <2>3. QED
    BY <2>1, <2>2, <1>5
<1>12. CASE CPU \/ VenceQuantum
  BY <1>5, <1>12 DEF CPU, CPURecibe, CPUInterrumpe, CPUDevuelve, VenceQuantum, procesos
<1>13. ASSUME NEW i \in Interfaces, HiloIO(i)
       PROVE  Len(cola'["NEW"]) <= PermisosNew'
  <2>1. UNCHANGED <<semNew, lp>>
    BY <1>13 DEF HiloIO, IOConecta, IOCompleta, IODesconecta, IODrena, IOSale
  <2>2. CASE IOCompleta(i)
    <3> DEFINE d == destino[Head(cola[i])]
               a == IF d = "COLA_EXIT_USUARIO" THEN "EXIT" ELSE d
    <3>1. Mudado(cola', cola, Head(cola[i]), i, a)
      BY <2>2, Mudanzas
    <3>2. Head(cola[i]) \in Pids
      BY <3>1 DEF Mudado
    <3>3. a \in {"READY", "READYPLUS", "EXIT"}
      BY <3>2, TipoSeparado DEF Base, TipoResto
    <3>4. QED
      BY <2>1, <3>1, <3>3, <1>1, <1>5, <1>6
  <2>3. CASE IODrena(i)
    BY <2>1, <2>3, <1>1, <1>5, <1>6, Mudanzas
  <2>4. QED
    BY <1>5, <1>13, <2>1, <2>2, <2>3 DEF HiloIO, IOConecta, IODesconecta, IOSale, procesos
<1>14. CASE Mata
  <2>1. UNCHANGED <<semNew, lp>>
    BY <1>14 DEF Mata, MataEnNew, MataEnReady, MataEnExec, MataEnIO, NadaQueMatar, Busca
  <2>2. CASE MataEnNew
    <3>1. Mudado(cola', cola, pedido.pid, "NEW", "EXIT")
      BY <2>2, Mudanzas
    <3>2. Len(cola'["NEW"]) = n - 1
      BY <3>1 DEF Mudado
    <3>3. PermisosNew' = PermisosNew
      BY <2>1 DEF PermisosNew
    <3> HIDE DEF n
    <3>4. QED
      BY <3>2, <3>3, <1>3
  <2>3. ASSUME NEW q \in {"READY", "READYPLUS"}, MataEnReady(q)
        PROVE  cola'["NEW"] = cola["NEW"]
    BY <2>3, <1>1, <1>6, Mudanzas
  <2>4. ASSUME NEW i \in Interfaces, MataEnIO(i)
        PROVE  cola'["NEW"] = cola["NEW"]
    <3>1. cola' = cola \/ Mudado(cola', cola, pedido.pid, i, "EXIT")
      BY <2>4, Mudanzas DEF MataEnIO
    <3>2. QED
      BY <3>1, <1>1, <1>6
  <2>5. QED
    BY <1>5, <1>14, <2>1, <2>2, <2>3, <2>4 DEF Mata, MataEnExec, NadaQueMatar
<1>15. CASE PlanificacionDetenida \/ Reanuda \/ (\E f \in Fases : DetenerCola(f))
  BY <1>5, <1>15 DEF PlanificacionDetenida, Reanuda, DetenerCola, procesos
<1>16. CASE Consola \/ BajarGrado
  BY <1>5, <1>16 DEF Consola, Iniciar, Detener, FinalizarProceso, CambiarGrado,
     BajarGrado, procesos
<1>17. CASE UNCHANGED vars
  BY <1>5, <1>17 DEF vars
<1>18. QED
  BY <1>7, <1>8, <1>9, <1>10, <1>11, <1>12, <1>13, <1>14, <1>15, <1>16, <1>17
     DEF Next, LargoPlazo, Finalizador

(* EXIT is never left.                                                     *)
LEMMA ExitEsFinal ==
    ASSUME Base, [Next]_vars, NEW p \in Pids, Esta(cola, "EXIT", p)
    PROVE  Esta(cola', "EXIT", p)
<1>1. SinRepetidos(cola) /\ Tipo(cola) /\ "EXIT" \in NombresCola
  BY TipoSeparado, Nombres DEF Base, UnSoloLugar, EstadosKernel
<1>2. CASE cola' = cola
  BY <1>2
<1>3. CASE CrearProceso
  <2>1. cola'["EXIT"] = cola["EXIT"]
    BY <1>3, <1>1 DEF CrearProceso, Push, Tipo
  <2>2. QED
    BY <2>1 DEF Esta
<1>4. CASE UnaMudanza
  <2>1. PICK x \in Pids, de \in NombresCola \ {"EXIT"}, a \in NombresCola :
           de # a /\ Mudado(cola', cola, x, de, a)
    BY <1>4 DEF UnaMudanza
  <2>2. Esta(cola, de, x)
    BY <2>1 DEF Mudado
  <2>3. x # p
    BY <2>2, <1>1 DEF SinRepetidos, Esta, Contains
  <2>4. QED
    BY <2>1, <2>3, <1>1 DEF Mudado
<1>5. QED
  BY <1>2, <1>3, <1>4, PasoDeColas DEF AsignarPid, ArchivoInvalido, procesos

(* Who was ended by the loss of an interface stays in EXIT.                *)
FugadosEnExit == \A p \in fugados : p \in Pids /\ Esta(cola, "EXIT", p)

(* EXIT is the last queue of a pcb.                                        *)
LEMMA FugadosPaso ==
    ASSUME Base, FugadosEnExit, [Next]_vars
    PROVE  FugadosEnExit'
<1>1. SinRepetidos(cola) /\ Tipo(cola) /\ "EXIT" \in NombresCola
  BY TipoSeparado, Nombres DEF Base, UnSoloLugar, EstadosKernel
<1>2. ASSUME NEW p \in fugados
      PROVE  p \in Pids /\ Esta(cola', "EXIT", p)
  BY ExitEsFinal DEF FugadosEnExit
<1>3. CASE fugados' = fugados
  BY <1>2, <1>3 DEF FugadosEnExit
<1>4. ASSUME NEW i \in Interfaces, IODrena(i)
      PROVE  FugadosEnExit'
  <2>1. Mudado(cola', cola, Head(cola[i]), i, "EXIT")
    BY <1>4, Mudanzas
  <2>2. Head(cola[i]) \in Pids /\ Esta(cola', "EXIT", Head(cola[i]))
    BY <2>1, <1>1 DEF Mudado
  <2>3. fugados' = fugados \cup {Head(cola[i])}
    BY <1>4 DEF IODrena
  <2>4. QED
    BY <2>2, <2>3, <1>2 DEF FugadosEnExit
<1>5. \/ fugados' = fugados
      \/ \E i \in Interfaces : IODrena(i)
  BY DEF Next, vars, historia, Creador, AsignarPid, CrearProceso, ArchivoInvalido,
     LargoPlazo, LPEsperaNew, LPEsperaGrado, LPMueve, CortoPlazo, Planifica, CPEsperaReady,
     CPDespacha, CPColaVacia, Atiende, FinDeEjecucion, FinDeQuantum, BloqueoPorIO, Recibe,
     CPCancela, CPU, CPURecibe, CPUInterrumpe, CPUDevuelve, VenceQuantum,
     HiloIO, IOConecta, IOCompleta, IODesconecta, IOSale, Finalizador, PlanificacionDetenida,
     Reanuda, DetenerCola, Mata, MataEnNew, MataEnReady, MataEnExec, MataEnIO, NadaQueMatar,
     Busca, Consola, Iniciar, Detener, FinalizarProceso, CambiarGrado, BajarGrado
<1>6. QED
  BY <1>3, <1>4, <1>5

-----------------------------------------------------------------------------
(* The left side of GradoCuadra, in parts.                                 *)
Reserva == IF lp = "espera_plani" THEN 1 ELSE 0
Ocupados(c) == Cardinality(Ubicados(c, ConCupo))

(* What a move does to the number of processes that occupy a slot.         *)
LEMMA OcupadosMudado ==
    ASSUME Base, NEW p, NEW de \in NombresCola, NEW a \in NombresCola, de # a,
           Mudado(cola', cola, p, de, a)
    PROVE  /\ de \in ConCupo /\ a \in ConCupo => Ocupados(cola') = Ocupados(cola)
           /\ de \notin ConCupo /\ a \notin ConCupo => Ocupados(cola') = Ocupados(cola)
           /\ de \notin ConCupo /\ a \in ConCupo => Ocupados(cola') = Ocupados(cola) + 1
           /\ de \in ConCupo /\ a \notin ConCupo => Ocupados(cola') = Ocupados(cola) - 1
<1>1. Tipo(cola) /\ SinRepetidos(cola)
  BY TipoSeparado DEF Base, UnSoloLugar
<1>2. ConCupo \in SUBSET NombresCola
  BY DEF ConCupo, NombresCola, EstadosKernel
<1>3. Ocupados(cola') = Ocupados(cola) + (IF a \in ConCupo THEN 1 ELSE 0)
                                       - (IF de \in ConCupo THEN 1 ELSE 0)
  BY <1>1, <1>2, CardinalMudado DEF Ocupados
<1>4. Ocupados(cola) \in Nat
  BY CardinalUbicados DEF Ocupados
<1>5. QED
  BY <1>3, <1>4

(* A pcb takes its place in the degree when it leaves NEW and gives it     *)
(* back when it joins EXIT, but for the losses of an interface.            *)
LEMMA GradoPaso ==
    ASSUME Base, FugadosEnExit, GradoCuadra, [Next]_vars
    PROVE  GradoCuadra'
<1>1. /\ Tipo(cola) /\ SinRepetidos(cola) /\ TipoResto
      /\ {"NEW", "READY", "READYPLUS", "EXEC", "EXIT"} \subseteq NombresCola
      /\ \A i \in Interfaces : /\ i \in NombresCola /\ i \in ConCupo
                                /\ i \notin {"EXEC", "EXIT", "NEW", "READY", "READYPLUS"}
      /\ {"READY", "READYPLUS", "EXEC"} \subseteq ConCupo
      /\ "NEW" \notin ConCupo /\ "EXIT" \notin ConCupo
  BY TipoSeparado, Nombres DEF Base, UnSoloLugar, ConCupo, EstadosKernel
<1>2. /\ grado \in Nat /\ multiprog \in Nat /\ bajadores \in Nat
      /\ Ocupados(cola) \in Nat /\ Reserva \in Nat
  BY <1>1, CardinalUbicados DEF TipoResto, Ocupados, Reserva
<1>3. IsFiniteSet(fugados) /\ Cardinality(fugados) \in Nat
  <2>1. fugados \subseteq Pids /\ IsFiniteSet(Pids)
    BY <1>1, ColasAssumption, FS_Interval DEF TipoResto, Pids
  <2>2. QED
    BY <2>1, FS_Subset, FS_CardinalityType
<1> DEFINE F == Cardinality(fugados)
<1>4. grado + Reserva + Ocupados(cola) + F = multiprog + bajadores
  BY DEF GradoCuadra, Reserva, Ocupados
<1>5. SUFFICES grado' + Reserva' + Ocupados(cola') + F' = multiprog' + bajadores'
  BY DEF GradoCuadra, Reserva, Ocupados
<1> DEFINE Meta == grado' + Reserva' + Ocupados(cola') + F' = multiprog' + bajadores'
<1>6. ASSUME NEW x, NEW de \in NombresCola, NEW a \in NombresCola, de # a,
             Mudado(cola', cola, x, de, a)
      PROVE  /\ de \in ConCupo /\ a \in ConCupo => Ocupados(cola') = Ocupados(cola)
             /\ de \notin ConCupo /\ a \notin ConCupo => Ocupados(cola') = Ocupados(cola)
             /\ de \notin ConCupo /\ a \in ConCupo => Ocupados(cola') = Ocupados(cola) + 1
             /\ de \in ConCupo /\ a \notin ConCupo => Ocupados(cola') = Ocupados(cola) - 1
  BY <1>6, OcupadosMudado
<1>7. lp' = lp => Reserva' = Reserva
  BY DEF Reserva
<1>8. fugados' = fugados => F' = F
  OBVIOUS
<1> HIDE DEF F
<1>9. ASSUME cola' = cola, UNCHANGED <<grado, multiprog, bajadores, lp, fugados>>
      PROVE  Meta
  BY <1>4, <1>7, <1>8, <1>9
<1>10. ASSUME UNCHANGED <<multiprog, bajadores, lp, fugados>>,
              \/ Ocupados(cola') = Ocupados(cola) /\ grado' = grado
              \/ Ocupados(cola') = Ocupados(cola) - 1 /\ grado' = grado + 1
       PROVE  Meta
  <2>1. Reserva' = Reserva /\ F' = F /\ multiprog' = multiprog /\ bajadores' = bajadores
    BY <1>7, <1>8, <1>10
  <2>2. QED
    BY <2>1, <1>2, <1>3, <1>4, <1>10 DEF F
<1>11. CASE Creador
  <2>1. UNCHANGED <<grado, multiprog, bajadores, lp, fugados>>
    BY <1>11 DEF Creador, AsignarPid, CrearProceso, ArchivoInvalido, cupos, historia
  <2>2. CASE CrearProceso
    <3>1. \A q \in ConCupo : cola'[q] = cola[q]
      BY <2>2, <1>1 DEF CrearProceso, Push, Tipo, ConCupo, NombresCola, EstadosKernel
    <3>2. Ubicados(cola', ConCupo) = Ubicados(cola, ConCupo)
      BY <3>1 DEF Ubicados, Esta
    <3>3. QED
      BY <3>2, <2>1, <1>10 DEF Ocupados
  <2>3. QED
    BY <2>1, <2>2, <1>9, <1>11 DEF Creador, AsignarPid, ArchivoInvalido, procesos
<1>12. CASE LPEsperaNew
  <2>1. cola' = cola /\ Reserva' = Reserva
        /\ UNCHANGED <<grado, multiprog, bajadores, fugados>>
    BY <1>12 DEF LPEsperaNew, Reserva, procesos, cupos, historia
  <2>2. QED
    BY <2>1, <1>4, <1>8
<1>13. CASE LPEsperaGrado
  <2>1. cola' = cola /\ Reserva = 0 /\ Reserva' = 1 /\ grado' = grado - 1
        /\ UNCHANGED <<multiprog, bajadores, fugados>>
    BY <1>13 DEF LPEsperaGrado, Reserva, procesos, historia
  <2>2. QED
    BY <2>1, <1>2, <1>3, <1>4, <1>8 DEF F
<1>14. CASE LPMueve
  <2>1. Reserva = 1 /\ Reserva' = 0 /\ UNCHANGED <<multiprog, bajadores, fugados>>
    BY <1>14 DEF LPMueve, Reserva, historia
  <2>2. CASE Vacia(cola, "NEW")
    <3>1. cola' = cola /\ grado' = grado + 1
      BY <1>14, <2>2 DEF LPMueve
    <3>2. QED
      BY <2>1, <3>1, <1>2, <1>3, <1>4, <1>8 DEF F
  <2>3. CASE ~Vacia(cola, "NEW")
    <3>1. Mudado(cola', cola, Head(cola["NEW"]), "NEW", "READY") /\ grado' = grado
      BY <1>14, <2>3, Mudanzas DEF LPMueve
    <3>2. Ocupados(cola') = Ocupados(cola) + 1
      BY <3>1, <1>1, <1>6
    <3>3. QED
      BY <2>1, <3>1, <3>2, <1>2, <1>3, <1>4, <1>8 DEF F
  <2>4. QED
    BY <2>2, <2>3
<1>15. CASE Planifica
  <2>1. UNCHANGED <<grado, multiprog, bajadores, lp, fugados>>
    BY <1>15 DEF Planifica, CPEsperaReady, CPDespacha, CPColaVacia, cupos, historia
  <2>2. ASSUME NEW q \in ColasDePlanificacion, CPDespacha(q)
        PROVE  Ocupados(cola') = Ocupados(cola)
    <3>1. q \in NombresCola /\ q # "EXEC" /\ q \in ConCupo
      BY <1>1 DEF ColasDePlanificacion
    <3>2. QED
      BY <3>1, <2>2, <1>1, <1>6, Mudanzas
  <2>3. QED
    BY <2>1, <2>2, <1>9, <1>10, <1>15 DEF Planifica, CPEsperaReady, CPColaVacia, procesos
<1>16. CASE Atiende
  <2>1. UNCHANGED <<multiprog, bajadores, lp, fugados>>
    BY <1>16 DEF Atiende, FinDeEjecucion, FinDeQuantum, BloqueoPorIO, Recibe, historia
  <2>2. CASE FinDeEjecucion
    <3>1. Ocupados(cola') = Ocupados(cola) - 1
      BY <2>2, <1>1, <1>6, Mudanzas
    <3>2. grado' = grado + 1
      BY <2>2 DEF FinDeEjecucion
    <3>3. QED
      BY <3>1, <3>2, <2>1, <1>10
  <2>3. CASE FinDeQuantum
    <3>1. Ocupados(cola') = Ocupados(cola)
      BY <2>3, <1>1, <1>6, Mudanzas
    <3>2. QED
      BY <3>1, <2>1, <2>3, <1>10 DEF FinDeQuantum
  <2>4. ASSUME NEW i \in Interfaces, BloqueoPorIO(i)
        PROVE  Meta
    <3>1. Ocupados(cola') = Ocupados(cola)
      BY <2>4, <1>1, <1>6, Mudanzas
    <3>2. QED
      BY <3>1, <2>1, <2>4, <1>10 DEF BloqueoPorIO
  <2>5. QED
    BY <1>16, <2>2, <2>3, <2>4 DEF Atiende
<1>17. CASE CPCancela \/ CPU \/ VenceQuantum
  BY <1>9, <1>17 DEF CPCancela, CPU, CPURecibe, CPUInterrumpe, CPUDevuelve, VenceQuantum,
     procesos, cupos, historia
<1>18. ASSUME NEW i \in Interfaces, HiloIO(i)
       PROVE  Meta
  <2>1. CASE IOConecta(i) \/ IODesconecta(i) \/ IOSale(i)
    BY <1>9, <2>1 DEF IOConecta, IODesconecta, IOSale, procesos, cupos, historia
  <2>2. CASE IOCompleta(i)
    <3> DEFINE d == destino[Head(cola[i])]
               a == IF d = "COLA_EXIT_USUARIO" THEN "EXIT" ELSE d
    <3>1. Mudado(cola', cola, Head(cola[i]), i, a)
      BY <2>2, Mudanzas
    <3>2. Head(cola[i]) \in Pids
      BY <3>1 DEF Mudado
    <3>3. d \in {"READY", "READYPLUS", "COLA_EXIT_USUARIO"}
      BY <3>2, <1>1 DEF TipoResto
    <3>4. /\ grado' = IF d = "COLA_EXIT_USUARIO" THEN grado + 1 ELSE grado
          /\ UNCHANGED <<multiprog, bajadores, lp, fugados>>
      BY <2>2 DEF IOCompleta, historia
    <3> HIDE DEF d
    <3>5. CASE d = "COLA_EXIT_USUARIO"
      BY <3>1, <3>4, <3>5, <1>1, <1>6, <1>10
    <3>6. CASE d \in {"READY", "READYPLUS"}
      BY <3>1, <3>4, <3>6, <1>1, <1>6, <1>10
    <3>7. QED
      BY <3>3, <3>5, <3>6
  <2>3. CASE IODrena(i)
    <3>1. Mudado(cola', cola, Head(cola[i]), i, "EXIT")
      BY <2>3, Mudanzas
    <3>2. Ocupados(cola') = Ocupados(cola) - 1
      BY <3>1, <1>1, <1>6
    <3>3. Head(cola[i]) \notin fugados
      <4>1. Esta(cola, i, Head(cola[i]))
        BY <3>1 DEF Mudado
      <4>2. ~Esta(cola, "EXIT", Head(cola[i]))
        BY <4>1, <1>1 DEF SinRepetidos, Esta, Contains
      <4>3. QED
        BY <4>2 DEF FugadosEnExit
    <3>4. fugados' = fugados \cup {Head(cola[i])}
      BY <2>3 DEF IODrena
    <3>5. F' = F + 1
      BY <3>3, <3>4, <1>3, FS_AddElement DEF F
    <3>6. UNCHANGED <<grado, multiprog, bajadores, lp>>
      BY <2>3 DEF IODrena, cupos
    <3>7. QED
      BY <3>2, <3>5, <3>6, <1>2, <1>3, <1>4, <1>7 DEF F
  <2>4. QED
    BY <1>18, <2>1, <2>2, <2>3 DEF HiloIO
<1>19. CASE Mata
  <2>1. UNCHANGED <<multiprog, bajadores, lp, fugados>>
    BY <1>19 DEF Mata, MataEnNew, MataEnReady, MataEnExec, MataEnIO, NadaQueMatar, Busca
  <2>2. CASE MataEnNew
    <3>1. Ocupados(cola') = Ocupados(cola)
      BY <2>2, <1>1, <1>6, Mudanzas
    <3>2. QED
      BY <3>1, <2>1, <2>2, <1>10 DEF MataEnNew
  <2>3. ASSUME NEW q \in {"READY", "READYPLUS"}, MataEnReady(q)
        PROVE  Meta
    <3>1. Ocupados(cola') = Ocupados(cola) - 1
      BY <2>3, <1>1, <1>6, Mudanzas
    <3>2. grado' = grado + 1
      BY <2>3 DEF MataEnReady
    <3>3. QED
      BY <3>1, <3>2, <2>1, <1>10
  <2>4. ASSUME NEW i \in Interfaces, MataEnIO(i)
        PROVE  Meta
    <3>1. CASE Head(cola[i]) = pedido.pid
      BY <3>1, <2>1, <2>4, <1>9 DEF MataEnIO
    <3>2. CASE Head(cola[i]) # pedido.pid
      <4>1. Ocupados(cola') = Ocupados(cola) - 1
        BY <3>2, <2>4, <1>1, <1>6, Mudanzas
      <4>2. grado' = grado + 1
        BY <3>2, <2>4 DEF MataEnIO
      <4>3. QED
        BY <4>1, <4>2, <2>1, <1>10
    <3>3. QED
      BY <3>1, <3>2
  <2>5. QED
    BY <1>9, <1>19, <2>1, <2>2, <2>3, <2>4 DEF Mata, MataEnExec, NadaQueMatar
<1>20. CASE PlanificacionDetenida \/ Reanuda \/ (\E f \in Fases : DetenerCola(f))
  BY <1>9, <1>20 DEF PlanificacionDetenida, Reanuda, DetenerCola, procesos, cupos, historia
<1>21. CASE Iniciar \/ Detener \/ (\E p \in Pids : FinalizarProceso(p))
  BY <1>9, <1>21 DEF Iniciar, Detener, FinalizarProceso, procesos, cupos, historia
<1>22. ASSUME NEW n \in Grados, CambiarGrado(n)
       PROVE  Meta
  <2>1. n \in Nat /\ cola' = cola /\ Reserva' = Reserva /\ F' = F /\ multiprog' = n
    BY <1>7, <1>8, <1>22, PlanificadorAssumption DEF CambiarGrado, procesos, historia
  <2>2. \/ grado' = grado + (n - multiprog) /\ bajadores' = bajadores
        \/ bajadores' = bajadores + (multiprog - n) /\ grado' = grado
    BY <1>22 DEF CambiarGrado
  <2>3. QED
    BY <2>1, <2>2, <1>2, <1>3, <1>4 DEF F
<1>23. CASE BajarGrado
  <2>1. /\ cola' = cola /\ Reserva' = Reserva /\ F' = F /\ multiprog' = multiprog
        /\ grado' = grado - 1 /\ bajadores' = bajadores - 1
    BY <1>7, <1>8, <1>23 DEF BajarGrado, procesos, historia
  <2>2. QED
    BY <2>1, <1>2, <1>3, <1>4 DEF F
<1>24. CASE UNCHANGED vars
  BY <1>9, <1>24 DEF vars
<1>25. QED
  BY <1>11, <1>12, <1>13, <1>14, <1>15, <1>16, <1>17, <1>18, <1>19, <1>20, <1>21, <1>22,
     <1>23, <1>24 DEF Next, LargoPlazo, CortoPlazo, Finalizador, Consola

-----------------------------------------------------------------------------
(* Who is in one queue is not in another.                                  *)
LEMMA EnUnaCola ==
    ASSUME Base, NEW q \in NombresCola, NEW r \in NombresCola, NEW p,
           Esta(cola, q, p), Esta(cola, r, p)
    PROVE  q = r
BY DEF Base, UnSoloLugar, SinRepetidos, Esta, Contains

(* What each step does to where a process is and to where it will go.      *)
Quieto == UNCHANGED <<cola, destino, quantum, condenados>> /\ (intUsuario => intUsuario')

Avanza ==
    /\ UNCHANGED <<destino, quantum, intUsuario, condenados>>
    /\ \E p \in Pids, de \in {"NEW", "READY", "READYPLUS"}, a \in {"READY", "EXEC", "EXIT"} :
          de # a /\ Mudado(cola', cola, p, de, a)

(* What a step does to the queues, the destinations, the quantum and the   *)
(* condemned, all at once.                                                 *)
LEMMA Movimientos ==
    ASSUME Base, [Next]_vars
    PROVE  \/ Quieto \/ CrearProceso \/ Avanza \/ Atiende \/ MataEnExec
           \/ (\E i \in Interfaces : IOCompleta(i) \/ IODrena(i) \/ MataEnIO(i))
<1>1. ASSUME NEW p, NEW de \in {"NEW", "READY", "READYPLUS"},
             NEW a \in {"READY", "EXEC", "EXIT"}, de # a, Mudado(cola', cola, p, de, a),
             UNCHANGED <<destino, quantum, intUsuario, condenados>>
      PROVE  Avanza
  BY <1>1, SMTT(30) DEF Avanza, Mudado
<1>2. CASE Creador
  BY <1>2 DEF Creador, AsignarPid, ArchivoInvalido, Quieto, procesos, historia
<1>3. CASE LargoPlazo
  <2>1. CASE LPMueve /\ ~Vacia(cola, "NEW")
    <3>1. Mudado(cola', cola, Head(cola["NEW"]), "NEW", "READY")
      BY <2>1, Mudanzas
    <3>2. UNCHANGED <<destino, quantum, intUsuario, condenados>>
      BY <2>1 DEF LPMueve, historia
    <3>3. QED
      BY <3>1, <3>2, <1>1
  <2>2. QED
    BY <1>3, <2>1 DEF LargoPlazo, LPEsperaNew, LPEsperaGrado, LPMueve, Quieto, procesos, historia
<1>4. ASSUME NEW q \in ColasDePlanificacion, CPDespacha(q)
      PROVE  Avanza
  <2>1. Mudado(cola', cola, Head(cola[q]), q, "EXEC") /\ q \in {"READY", "READYPLUS"}
    BY <1>4, Mudanzas DEF ColasDePlanificacion
  <2>2. UNCHANGED <<destino, quantum, intUsuario, condenados>>
    BY <1>4 DEF CPDespacha, historia
  <2>3. QED
    BY <2>1, <2>2, <1>1
<1>5. CASE CPEsperaReady \/ CPColaVacia \/ CPCancela
  BY <1>5 DEF CPEsperaReady, CPColaVacia, CPCancela, Quieto, procesos, historia
<1>6. CASE CPU \/ VenceQuantum
  BY <1>6 DEF CPU, CPURecibe, CPUInterrumpe, CPUDevuelve, VenceQuantum, Quieto, procesos,
     historia
<1>7. ASSUME NEW i \in Interfaces, IOConecta(i) \/ IODesconecta(i) \/ IOSale(i)
      PROVE  Quieto
  BY <1>7 DEF IOConecta, IODesconecta, IOSale, Quieto, procesos, historia
<1>8. CASE MataEnNew
  <2>1. Mudado(cola', cola, pedido.pid, "NEW", "EXIT")
    BY <1>8, Mudanzas
  <2>2. UNCHANGED <<destino, quantum, intUsuario, condenados>>
    BY <1>8 DEF MataEnNew, Busca
  <2>3. QED
    BY <2>1, <2>2, <1>1
<1>9. ASSUME NEW q \in {"READY", "READYPLUS"}, MataEnReady(q)
      PROVE  Avanza
  <2>1. Mudado(cola', cola, pedido.pid, q, "EXIT")
    BY <1>9, Mudanzas
  <2>2. UNCHANGED <<destino, quantum, intUsuario, condenados>>
    BY <1>9 DEF MataEnReady, Busca
  <2>3. QED
    BY <2>1, <2>2, <1>1
<1>10. CASE NadaQueMatar \/ PlanificacionDetenida \/ Reanuda \/ (\E f \in Fases : DetenerCola(f))
  BY <1>10 DEF NadaQueMatar, Busca, PlanificacionDetenida, Reanuda, DetenerCola, Quieto,
     procesos, historia
<1>11. CASE Consola \/ BajarGrado
  BY <1>11 DEF Consola, Iniciar, Detener, FinalizarProceso, CambiarGrado, BajarGrado, Quieto,
     procesos, historia
<1>12. CASE UNCHANGED vars
  BY <1>12 DEF vars, Quieto
<1>13. QED
  BY <1>2, <1>3, <1>4, <1>5, <1>6, <1>7, <1>8, <1>9, <1>10, <1>11, <1>12
     DEF Next, CortoPlazo, Planifica, HiloIO, Finalizador, Mata, Creador
-----------------------------------------------------------------------------
(* What is at the head of a queue stays there when another pcb is taken    *)
(* from the queue, and when one is pushed to it.                           *)
LEMMA CabezaSigue ==
    ASSUME NEW c, Tipo(c), NEW q \in NombresCola, NEW a \in NombresCola, q # a,
           NEW p \in Pids, ~Vacia(c, q), Head(c[q]) = p
    PROVE  /\ \A x : Esta(c, q, x) /\ x # p
                 => ~Vacia(Pasa(c, x, q, a), q) /\ Head(Pasa(c, x, q, a)[q]) = p
           /\ ~Vacia(PasaCabeza(c, a, q), q) /\ Head(PasaCabeza(c, a, q)[q]) = p
<1>1. c[q] \in Seq(Pids) /\ Len(c[q]) \in Nat /\ Len(c[q]) >= 1 /\ c[q][1] = p
  BY DEF Tipo, Vacia
<1>2. ASSUME NEW x, Esta(c, q, x), x # p
      PROVE  ~Vacia(Pasa(c, x, q, a), q) /\ Head(Pasa(c, x, q, a)[q]) = p
  <2> DEFINE k == Posicion(c[q], x)
             s == RemoveAt(c[q], k)
  <2>1. k \in 1..Len(c[q]) /\ c[q][k] = x
    BY <1>1, <1>2, PosicionPropiedades DEF Esta
  <2>2. Pasa(c, x, q, a)[q] = s
    BY DEF Pasa, Quita, Push, Tipo
  <2> HIDE DEF k
  <2>3. /\ s \in Seq(Pids) /\ Len(s) = Len(c[q]) - 1
        /\ \A i \in 1..(Len(c[q]) - 1) : s[i] = IF i < k THEN c[q][i] ELSE c[q][i + 1]
    BY <1>1, <2>1, RemoveAtPropiedades
  <2>4. k > 1
    BY <2>1, <1>1, <1>2
  <2>5. Len(s) >= 1 /\ s[1] = p
    BY <2>1, <2>3, <2>4, <1>1
  <2> HIDE DEF s
  <2>6. s # <<>> /\ Head(s) = p
    BY <2>3, <2>5
  <2>7. QED
    BY <2>2, <2>6 DEF Vacia
<1>3. ~Vacia(PasaCabeza(c, a, q), q) /\ Head(PasaCabeza(c, a, q)[q]) = p
  <2>1. PasaCabeza(c, a, q)[q] = Append(c[q], Head(c[a]))
    BY DEF PasaCabeza, Push, Pop, Tipo
  <2>2. \A s \in Seq(Pids) : \A y : s # <<>> => /\ Append(s, y) # <<>>
                                              /\ Head(Append(s, y)) = Head(s)
    OBVIOUS
  <2>3. QED
    BY <1>1, <2>1, <2>2 DEF Vacia
<1>4. QED
  BY <1>2, <1>3

(* A condemned process is in EXIT, runs with interrupcion_usuario raised,  *)
(* or is the request an interface serves, with the queue of finished ones  *)
(* as its destination.                                                     *)
Servido(p) ==
    /\ destino[p] = "COLA_EXIT_USUARIO"
    /\ \E i \in Interfaces : ~Vacia(cola, i) /\ Head(cola[i]) = p

Encaminado(p) ==
    \/ Esta(cola, "EXIT", p)
    \/ Esta(cola, "EXEC", p) /\ intUsuario
    \/ Servido(p)

CondenadosEncaminados == \A p \in condenados : p \in Pids /\ Encaminado(p)

(* interrupcion_usuario takes the process that runs to EXIT.               *)
LEMMA AvisadoPaso ==
    ASSUME Base, [Next]_vars, NEW p \in Pids, Esta(cola, "EXEC", p), intUsuario
    PROVE  Encaminado(p)'
<1>1. "EXEC" \in NombresCola /\ "NEW" \in NombresCola /\ "EXIT" \in NombresCola /\ Tipo(cola)
  BY TipoSeparado, Nombres DEF EstadosKernel, Base
<1>2. CASE Quieto
  BY <1>2 DEF Quieto, Encaminado
<1>3. CASE CrearProceso
  <2>1. cola'["EXEC"] = cola["EXEC"] /\ intUsuario'
    BY <1>3, <1>1 DEF CrearProceso, Push, Tipo
  <2>2. QED
    BY <2>1 DEF Encaminado, Esta
<1>4. CASE Avanza
  <2>1. PICK x \in Pids, de \in {"NEW", "READY", "READYPLUS"}, a \in {"READY", "EXEC", "EXIT"} :
           de # a /\ Mudado(cola', cola, x, de, a)
    BY <1>4 DEF Avanza
  <2>2. Esta(cola, de, x) /\ de \in NombresCola /\ de # "EXEC"
    BY <2>1, Nombres DEF Mudado, EstadosKernel
  <2>3. x # p
    BY <2>2, <1>1, EnUnaCola
  <2>4. QED
    BY <2>1, <2>3, <1>1, <1>4 DEF Mudado, Avanza, Encaminado
<1>5. CASE Atiende
  <2>1. Recibe
    BY <1>5 DEF Atiende, FinDeEjecucion, FinDeQuantum, BloqueoPorIO
  <2>2. FinDeEjecucion
    <3>1. MotivoEfectivo = "USER_INTERRUPT"
      BY DEF MotivoEfectivo
    <3>2. "USER_INTERRUPT" \notin Interfaces
      BY Nombres DEF Motivos
    <3>3. QED
      BY <3>1, <3>2, <1>5 DEF Atiende, FinDeQuantum, BloqueoPorIO
  <2>3. Mudado(cola', cola, Corriendo, "EXEC", "EXIT")
    BY <2>2, Mudanzas
  <2>4. Corriendo = p
    <3>1. cola["EXEC"] = <<contexto.pid>> /\ Corriendo = contexto.pid
      BY <2>1, HayCorriendo
    <3>2. QED
      BY <3>1 DEF Esta, Contains
  <2>5. QED
    BY <2>3, <2>4, <1>1 DEF Mudado, Encaminado
<1>6. CASE MataEnExec
  BY <1>6 DEF MataEnExec, Encaminado
<1>7. ASSUME NEW i \in Interfaces, IOCompleta(i) \/ IODrena(i) \/ MataEnIO(i)
      PROVE  Encaminado(p)'
  <2>1. i \in NombresCola /\ i # "EXEC" /\ intUsuario'
    BY <1>7, Nombres DEF EstadosKernel, IOCompleta, IODrena, MataEnIO
  <2>2. \/ cola' = cola
        \/ \E x \in Pids, a \in NombresCola : Mudado(cola', cola, x, i, a)
    <3>1. CASE IOCompleta(i)
      <4> DEFINE x == Head(cola[i])
                 d == destino[x]
                 a == IF d = "COLA_EXIT_USUARIO" THEN "EXIT" ELSE d
      <4>1. Mudado(cola', cola, x, i, a)
        BY <3>1, Mudanzas
      <4>2. x \in Pids
        BY <4>1 DEF Mudado
      <4>3. a \in NombresCola
        BY <4>2, Nombres DEF Base, TypeOK, EstadosKernel
      <4>4. QED
        BY <4>1, <4>2, <4>3
    <3>2. CASE IODrena(i)
      BY <3>2, <1>1, Mudanzas DEF Mudado
    <3>3. CASE MataEnIO(i)
      BY <3>3, <1>1, Mudanzas DEF MataEnIO, Mudado
    <3>4. QED
      BY <1>7, <3>1, <3>2, <3>3
  <2>3. ASSUME NEW x \in Pids, NEW a \in NombresCola, Mudado(cola', cola, x, i, a)
        PROVE  Esta(cola', "EXEC", p)
    <3>1. Esta(cola, i, x)
      BY <2>3 DEF Mudado
    <3>2. x # p
      BY <3>1, <2>1, <1>1, EnUnaCola
    <3>3. QED
      BY <2>3, <3>2, <1>1 DEF Mudado
  <2>4. QED
    BY <2>1, <2>2, <2>3 DEF Encaminado
<1>8. QED
  BY <1>2, <1>3, <1>4, <1>5, <1>6, <1>7, Movimientos

(* The request a kill found being served goes to EXIT when it is done.     *)
LEMMA ServidoPaso ==
    ASSUME Base, [Next]_vars, NEW p \in Pids, Servido(p)
    PROVE  Encaminado(p)'
<1>1. /\ {"NEW", "READY", "READYPLUS", "EXEC", "EXIT"} \subseteq NombresCola
      /\ \A i \in Interfaces : i \in NombresCola
      /\ \A i \in Interfaces : i \notin {"NEW", "READY", "READYPLUS", "EXEC", "EXIT"}
      /\ Tipo(cola)
  BY Nombres, TipoSeparado DEF EstadosKernel, Base
<1>2. PICK j \in Interfaces : ~Vacia(cola, j) /\ Head(cola[j]) = p
  BY DEF Servido
<1>3. destino[p] = "COLA_EXIT_USUARIO"
  BY DEF Servido
<1>4. Esta(cola, j, p)
  BY <1>1, <1>2, VaciaPropiedades
<1>5. ASSUME destino'[p] = destino[p], cola'[j] = cola[j]
      PROVE  Encaminado(p)'
  BY <1>2, <1>3, <1>5 DEF Encaminado, Servido, Vacia
<1>6. CASE Quieto
  BY <1>5, <1>6 DEF Quieto
<1>7. CASE CrearProceso
  <2>1. cola'[j] = cola[j]
    BY <1>1, <1>7 DEF CrearProceso, Push, Tipo
  <2>2. QED
    BY <1>5, <1>7, <2>1 DEF CrearProceso
<1>8. CASE Avanza
  BY <1>1, <1>5, <1>8 DEF Avanza, Mudado
<1>9. CASE FinDeEjecucion
  <2>1. Mudado(cola', cola, Corriendo, "EXEC", "EXIT") /\ destino' = destino
    BY <1>9, Mudanzas DEF FinDeEjecucion
  <2>2. QED
    BY <1>1, <1>5, <2>1 DEF Mudado
<1>10. CASE FinDeQuantum
  <2>1. Mudado(cola', cola, Corriendo, "EXEC", "READY") /\ destino' = destino
    BY <1>10, Mudanzas DEF FinDeQuantum
  <2>2. QED
    BY <1>1, <1>5, <2>1 DEF Mudado
<1>11. ASSUME NEW i \in Interfaces, BloqueoPorIO(i)
       PROVE  Encaminado(p)'
  <2>1. Mudado(cola', cola, Corriendo, "EXEC", i)
    BY <1>11, Mudanzas
  <2>2. Corriendo # p
    <3>1. Esta(cola, "EXEC", Corriendo)
      BY <2>1 DEF Mudado
    <3>2. QED
      BY <3>1, <1>1, <1>4, EnUnaCola
  <2>3. destino'[p] = destino[p]
    BY <1>11, <2>2 DEF BloqueoPorIO, Base, TypeOK
  <2>4. CASE i = j
    <3>1. cola' = PasaCabeza(cola, "EXEC", j)
      BY <1>11, <2>4 DEF BloqueoPorIO
    <3>2. ~Vacia(cola', j) /\ Head(cola'[j]) = p
      BY <3>1, <1>1, <1>2, CabezaSigue
    <3>3. QED
      BY <3>2, <2>3, <1>3 DEF Encaminado, Servido
  <2>5. CASE i # j
    BY <2>1, <2>3, <2>5, <1>1, <1>5 DEF Mudado
  <2>6. QED
    BY <2>4, <2>5
<1>12. CASE MataEnExec
  BY <1>5, <1>12 DEF MataEnExec
<1>13. ASSUME NEW i \in Interfaces, IOCompleta(i)
       PROVE  Encaminado(p)'
  <2> DEFINE x == Head(cola[i])
             d == destino[x]
             a == IF d = "COLA_EXIT_USUARIO" THEN "EXIT" ELSE d
  <2>1. Mudado(cola', cola, x, i, a) /\ destino' = destino
    BY <1>13, Mudanzas DEF IOCompleta
  <2>2. CASE i = j
    <3>1. Mudado(cola', cola, p, i, "EXIT")
      BY <2>1, <2>2, <1>2, <1>3
    <3>2. QED
      BY <3>1, <1>1 DEF Mudado, Encaminado
  <2>3. CASE i # j
    <3>1. x \in Pids
      BY <2>1 DEF Mudado
    <3>2. a \in {"READY", "READYPLUS", "EXIT"}
      BY <3>1 DEF Base, TypeOK
    <3>3. cola'[j] = cola[j]
      BY <2>1, <2>3, <3>2, <1>1 DEF Mudado
    <3>4. QED
      BY <2>1, <3>3, <1>5
  <2>4. QED
    BY <2>2, <2>3
<1>14. ASSUME NEW i \in Interfaces, IODrena(i)
       PROVE  Encaminado(p)'
  <2>1. Mudado(cola', cola, Head(cola[i]), i, "EXIT") /\ destino' = destino
    BY <1>14, Mudanzas DEF IODrena
  <2>2. CASE i = j
    BY <2>1, <2>2, <1>1, <1>2 DEF Mudado, Encaminado
  <2>3. CASE i # j
    BY <2>1, <2>3, <1>1, <1>5 DEF Mudado
  <2>4. QED
    BY <2>2, <2>3
<1>15. ASSUME NEW i \in Interfaces, MataEnIO(i)
       PROVE  Encaminado(p)'
  <2>1. CASE Head(cola[i]) = pedido.pid
    <3>1. cola' = cola /\ destino' = [destino EXCEPT ![pedido.pid] = "COLA_EXIT_USUARIO"]
      BY <1>15, <2>1 DEF MataEnIO
    <3>2. destino'[p] = destino[p]
      BY <3>1, <1>3 DEF Base, TypeOK
    <3>3. QED
      BY <3>1, <3>2, <1>5
  <2>2. CASE Head(cola[i]) # pedido.pid
    <3>1. /\ Mudado(cola', cola, pedido.pid, i, "EXIT") /\ destino' = destino
          /\ cola' = Pasa(cola, pedido.pid, i, "EXIT") /\ Esta(cola, i, pedido.pid)
      BY <1>15, <2>2, Mudanzas DEF MataEnIO
    <3>2. CASE i = j
      <4>1. pedido.pid # p
        BY <1>2, <2>2, <3>2
      <4>2. ~Vacia(cola', j) /\ Head(cola'[j]) = p
        BY <3>1, <3>2, <4>1, <1>1, <1>2, CabezaSigue
      <4>3. QED
        BY <4>2, <3>1, <1>3 DEF Encaminado, Servido
    <3>3. CASE i # j
      BY <3>1, <3>3, <1>1, <1>5 DEF Mudado
    <3>4. QED
      BY <3>2, <3>3
  <2>3. QED
    BY <2>1, <2>2
<1>16. QED
  BY <1>6, <1>7, <1>8, <1>9, <1>10, <1>11, <1>12, <1>13, <1>14, <1>15, Movimientos DEF Atiende
(* A kill of the process in EXEC or being served leaves a mark that sends  *)
(* it to EXIT: the interrupt of the user or COLA_EXIT_USUARIO.             *)
LEMMA CondenadosPaso ==
    ASSUME ConReloj, Base, CondenadosEncaminados, [Next]_vars
    PROVE  CondenadosEncaminados'
<1>1. \A p \in condenados : p \in Pids /\ Encaminado(p)'
  <2> SUFFICES ASSUME NEW p \in condenados
               PROVE  p \in Pids /\ Encaminado(p)'
    OBVIOUS
  <2>1. p \in Pids /\ Encaminado(p)
    BY DEF CondenadosEncaminados
  <2>2. CASE Esta(cola, "EXIT", p)
    BY <2>1, <2>2, ExitEsFinal DEF Encaminado
  <2>3. QED
    BY <2>1, <2>2, AvisadoPaso, ServidoPaso DEF Encaminado
<1>2. CASE condenados' = condenados
  BY <1>1, <1>2 DEF CondenadosEncaminados
<1>3. ASSUME NEW x \in Pids, condenados' = condenados \cup {x}, Encaminado(x)'
      PROVE  CondenadosEncaminados'
  BY <1>1, <1>3 DEF CondenadosEncaminados
<1>4. /\ "EXEC" \in NombresCola /\ "EXIT" \in NombresCola /\ Tipo(cola)
      /\ \A i \in Interfaces : i \in NombresCola /\ i # "EXIT"
  BY Nombres, TipoSeparado DEF EstadosKernel, Base
<1>5. \A q \in NombresCola : \A x : Esta(cola, q, x) => x \in Pids
  BY <1>4 DEF Tipo, Esta, Contains
<1>6. CASE MataEnExec
  <2>1. PICK x : x = pedido.pid
    OBVIOUS
  <2>2. Esta(cola, "EXEC", x) /\ condenados' = condenados \cup {x}
    BY <1>6, <2>1 DEF MataEnExec
  <2>3. Esta(cola', "EXEC", x) /\ intUsuario'
    BY <1>6, <2>2 DEF MataEnExec
  <2>4. QED
    BY <2>2, <2>3, <1>3, <1>4, <1>5 DEF Encaminado
<1>7. ASSUME NEW i \in Interfaces, MataEnIO(i)
      PROVE  CondenadosEncaminados'
  <2>1. PICK x : x = pedido.pid
    OBVIOUS
  <2>2. Esta(cola, i, x) /\ condenados' = condenados \cup {x} /\ x \in Pids
    BY <1>4, <1>5, <1>7, <2>1 DEF MataEnIO
  <2>3. CASE Head(cola[i]) = x
    <3>1. cola' = cola /\ destino' = [destino EXCEPT ![x] = "COLA_EXIT_USUARIO"]
      BY <1>7, <2>1, <2>3 DEF MataEnIO
    <3>2. destino'[x] = "COLA_EXIT_USUARIO"
      BY <2>2, <3>1 DEF Base, TypeOK
    <3>3. ~Vacia(cola, i)
      BY <2>2, <1>4, VaciaPropiedades
    <3>4. Servido(x)'
      BY <3>1, <3>2, <3>3, <2>3 DEF Servido
    <3>5. QED
      BY <2>2, <3>4, <1>3 DEF Encaminado
  <2>4. CASE Head(cola[i]) # x
    <3>1. Mudado(cola', cola, x, i, "EXIT")
      BY <1>7, <2>1, <2>4, Mudanzas
    <3>2. Esta(cola', "EXIT", x)
      BY <3>1, <1>4 DEF Mudado
    <3>3. QED
      BY <2>2, <3>2, <1>3 DEF Encaminado
  <2>5. QED
    BY <2>3, <2>4
<1>8. \/ condenados' = condenados \/ MataEnExec
      \/ \E i \in Interfaces : MataEnIO(i)
  BY Movimientos DEF Quieto, CrearProceso, Avanza, Atiende, FinDeEjecucion, FinDeQuantum,
     BloqueoPorIO, Recibe, IOCompleta, IODrena, historia
<1>9. QED
  BY <1>2, <1>6, <1>7, <1>8

-----------------------------------------------------------------------------
(* The quantum the CPU gives back under VRR: a burst runs one instruction  *)
(* at least.                                                               *)
ContextoConResto == Algoritmo = "VRR" => contexto.quantum < Quantum

(* The CPU charges the burst before it sends the context.                  *)
LEMMA ContextoPaso ==
    ASSUME Base, ContextoConResto, [Next]_vars
    PROVE  ContextoConResto'
<1> SUFFICES ASSUME Algoritmo = "VRR" PROVE contexto'.quantum < Quantum
  BY DEF ContextoConResto
<1>1. contexto.quantum < Quantum /\ Quantum \in Nat /\ Quantum > 0
  BY PlanificadorAssumption DEF ContextoConResto
<1>2. ASSUME cpu # Nadie, NEW q \in Restos(cpu), NEW m,
             contexto' = [pid |-> cpu, motivo |-> m, quantum |-> q]
      PROVE  contexto'.quantum < Quantum
  <2>1. quantum[cpu] \in 0..Quantum
    BY <1>2 DEF Base, TypeOK
  <2>2. q \in 0..(IF quantum[cpu] = 0 THEN 0 ELSE quantum[cpu] - 1)
    BY DEF Restos
  <2>3. QED
    BY <1>1, <1>2, <2>1, <2>2
<1>3. CASE Recibe
  BY <1>1, <1>3 DEF Recibe, SinContexto
<1>4. ASSUME NEW m \in {"EXIT", "OUT_OF_MEMORY"} \cup Interfaces, CPUDevuelve(m)
      PROVE  contexto'.quantum < Quantum
  BY <1>2, <1>4 DEF CPUDevuelve
<1>5. CASE CPUInterrumpe
  BY <1>1, <1>2, <1>5 DEF CPUInterrumpe
<1>6. \/ contexto' = contexto \/ Recibe \/ CPUInterrumpe
      \/ \E m \in {"EXIT", "OUT_OF_MEMORY"} \cup Interfaces : CPUDevuelve(m)
  BY DEF Next, vars, ejecucion, Creador, AsignarPid, CrearProceso, ArchivoInvalido,
     LargoPlazo, LPEsperaNew, LPEsperaGrado, LPMueve, CortoPlazo, Planifica, CPEsperaReady,
     CPDespacha, CPColaVacia, Atiende, FinDeEjecucion, FinDeQuantum, BloqueoPorIO,
     CPCancela, CPU, CPURecibe, VenceQuantum,
     HiloIO, IOConecta, IOCompleta, IODesconecta, IODrena, IOSale, Finalizador,
     PlanificacionDetenida, Reanuda, DetenerCola, Mata, MataEnNew, MataEnReady, MataEnExec,
     MataEnIO, NadaQueMatar, Busca, Consola, Iniciar, Detener, FinalizarProceso,
     CambiarGrado, BajarGrado
<1>7. QED
  BY <1>1, <1>3, <1>4, <1>5, <1>6

(* A process that is in READY+, or waits in an interface to go there, has  *)
(* quantum; and less than a whole one, unless an interface of type DIALFS  *)
(* (whose requests renew a quantum of 0 and keep the priority) can have    *)
(* sent it.                                                                *)
ConPrioridad(p) ==
    \/ Esta(cola, "READYPLUS", p)
    \/ destino[p] = "READYPLUS" /\ \E i \in Interfaces : Esta(cola, i, p)

Tope == IF InterfacesFS = {} THEN Quantum - 1 ELSE Quantum

PrioridadConQuantum == \A p \in Pids : ConPrioridad(p) => quantum[p] \in 1..Tope

(* Nobody joins READY+ but with the quantum he came back from the CPU      *)
(* with, or a renewed one.                                                 *)
LEMMA PrioridadPaso ==
    ASSUME Base, ContextoConResto, PrioridadConQuantum, [Next]_vars
    PROVE  PrioridadConQuantum'
<1> SUFFICES ASSUME NEW p \in Pids, ConPrioridad(p)'
             PROVE  quantum'[p] \in 1..Tope
  BY DEF PrioridadConQuantum, Tope
<1>1. /\ {"NEW", "READY", "READYPLUS", "EXEC", "EXIT"} \subseteq NombresCola
      /\ \A i \in Interfaces : i \in NombresCola
      /\ \A i \in Interfaces : i \notin {"NEW", "READY", "READYPLUS", "EXEC", "EXIT"}
      /\ Tipo(cola)
  BY Nombres, TipoSeparado DEF EstadosKernel, Base
<1>2. ConPrioridad(p) => quantum[p] \in 1..Tope
  BY DEF PrioridadConQuantum
<1>3. ASSUME quantum'[p] = quantum[p], destino'[p] = destino[p],
             \A q \in {"READYPLUS"} \cup Interfaces : Esta(cola', q, p) => Esta(cola, q, p)
      PROVE  quantum'[p] \in 1..Tope
  BY <1>2, <1>3 DEF ConPrioridad
<1>4. ASSUME NEW x, NEW de \in NombresCola, NEW a \in {"READY", "EXEC", "EXIT"}, de # a,
             Mudado(cola', cola, x, de, a)
      PROVE  /\ x # p
             /\ \A q \in {"READYPLUS"} \cup Interfaces : Esta(cola', q, p) => Esta(cola, q, p)
  BY <1>1, <1>4 DEF Mudado, ConPrioridad
<1>5. CASE Quieto
  BY <1>3, <1>5 DEF Quieto
<1>6. CASE CrearProceso
  <2>1. \A q \in {"READYPLUS"} \cup Interfaces : cola'[q] = cola[q]
    BY <1>1, <1>6 DEF CrearProceso, Push, Tipo
  <2>2. \A q \in {"READYPLUS"} \cup Interfaces : Esta(cola', q, p) => Esta(cola, q, p)
    BY <2>1 DEF Esta
  <2>3. PICK q \in {"READYPLUS"} \cup Interfaces : Esta(cola, q, p)
    BY <2>2 DEF ConPrioridad
  <2>4. p # creando
    <3>1. p \in Ubicados(cola, NombresCola)
      BY <2>3, <1>1 DEF Ubicados
    <3>2. QED
      BY <3>1 DEF Base, UnSoloLugar
  <2>5. quantum'[p] = quantum[p] /\ destino' = destino
    BY <1>6, <2>4 DEF CrearProceso, Base, TypeOK
  <2>6. QED
    BY <2>2, <2>5, <1>3
<1>7. CASE Avanza
  BY <1>1, <1>3, <1>4, <1>7 DEF Avanza
<1>8. CASE FinDeEjecucion
  <2>1. Mudado(cola', cola, Corriendo, "EXEC", "EXIT")
    BY <1>8, Mudanzas
  <2>2. Corriendo # p
    BY <2>1, <1>1, <1>4
  <2>3. quantum'[p] = quantum[p] /\ destino' = destino
    BY <1>8, <2>2 DEF FinDeEjecucion, Base, TypeOK
  <2>4. QED
    BY <2>1, <2>3, <1>1, <1>3, <1>4
<1>9. CASE FinDeQuantum
  <2>1. Mudado(cola', cola, Corriendo, "EXEC", "READY")
    BY <1>9, Mudanzas
  <2>2. Corriendo # p
    BY <2>1, <1>1, <1>4
  <2>3. quantum'[p] = quantum[p] /\ destino' = destino
    BY <1>9, <2>2 DEF FinDeQuantum, Base, TypeOK
  <2>4. QED
    BY <2>1, <2>3, <1>1, <1>3, <1>4
<1>10. ASSUME NEW i \in Interfaces, BloqueoPorIO(i)
       PROVE  quantum'[p] \in 1..Tope
  <2>1. Mudado(cola', cola, Corriendo, "EXEC", i)
    BY <1>10, Mudanzas
  <2>2. /\ quantum' = [quantum EXCEPT ![Corriendo] = QuantumTrasIO(contexto.quantum)]
        /\ destino' = [destino EXCEPT ![Corriendo] = DestinoTrasIO(i, contexto.quantum)]
    BY <1>10 DEF BloqueoPorIO
  <2>3. CASE p # Corriendo
    <3>1. quantum'[p] = quantum[p] /\ destino'[p] = destino[p]
      BY <2>2, <2>3 DEF Base, TypeOK
    <3>2. \A q \in NombresCola : Esta(cola', q, p) => Esta(cola, q, p)
      BY <2>1, <2>3 DEF Mudado
    <3>3. QED
      BY <3>1, <3>2, <1>1, <1>3
  <2>4. CASE p = Corriendo
    <3>1. ~Esta(cola', "READYPLUS", p)
      BY <2>1, <2>4, <1>1 DEF Mudado
    <3>2. destino'[p] = DestinoTrasIO(i, contexto.quantum)
      BY <2>2, <2>4 DEF Base, TypeOK
    <3>3. quantum'[p] = QuantumTrasIO(contexto.quantum)
      BY <2>2, <2>4 DEF Base, TypeOK
    <3>4. DestinoTrasIO(i, contexto.quantum) = "READYPLUS"
      BY <3>1, <3>2 DEF ConPrioridad
    <3>5. /\ Algoritmo = "VRR"
          /\ (IF i \in InterfacesFS THEN QuantumTrasIO(contexto.quantum)
                                     ELSE contexto.quantum) > 0
      BY <3>4 DEF DestinoTrasIO
    <3>6. contexto.quantum \in 0..Quantum /\ contexto.quantum < Quantum
      BY <3>5 DEF Base, TypeOK, ContextoConResto
    <3>7. QED
      BY <3>3, <3>5, <3>6, PlanificadorAssumption DEF QuantumTrasIO, Tope
  <2>5. QED
    BY <2>3, <2>4
<1>11. CASE MataEnExec
  BY <1>3, <1>11 DEF MataEnExec, Busca
<1>12. ASSUME NEW i \in Interfaces, IOCompleta(i)
       PROVE  quantum'[p] \in 1..Tope
  <2> DEFINE x == Head(cola[i])
             d == destino[x]
             a == IF d = "COLA_EXIT_USUARIO" THEN "EXIT" ELSE d
  <2>1. Mudado(cola', cola, x, i, a)
    BY <1>12, Mudanzas
  <2>2. UNCHANGED <<quantum, destino>>
    BY <1>12 DEF IOCompleta
  <2>3. x \in Pids
    BY <2>1 DEF Mudado
  <2>4. d \in {"READY", "READYPLUS", "COLA_EXIT_USUARIO"}
    BY <2>3 DEF Base, TypeOK
  <2>5. CASE d = "READYPLUS" /\ p = x
    <3>1. Esta(cola, i, x)
      BY <2>1 DEF Mudado
    <3>2. ConPrioridad(p)
      BY <2>5, <3>1 DEF ConPrioridad
    <3>3. QED
      BY <1>2, <2>2, <3>2
  <2>6. CASE d = "READYPLUS" /\ p # x
    <3>1. \A q \in NombresCola : Esta(cola', q, p) => Esta(cola, q, p)
      BY <2>1, <2>6 DEF Mudado
    <3>2. QED
      BY <2>2, <3>1, <1>1, <1>3
  <2>7. CASE d # "READYPLUS"
    <3>1. a \in {"READY", "EXIT"}
      BY <2>4, <2>7
    <3> HIDE DEF a, x
    <3>2. QED
      BY <2>1, <2>2, <3>1, <1>1, <1>3, <1>4
  <2>8. QED
    BY <2>5, <2>6, <2>7
<1>13. ASSUME NEW i \in Interfaces, IODrena(i)
       PROVE  quantum'[p] \in 1..Tope
  BY <1>1, <1>3, <1>4, <1>13, Mudanzas DEF IODrena
<1>14. ASSUME NEW i \in Interfaces, MataEnIO(i)
       PROVE  quantum'[p] \in 1..Tope
  <2>1. quantum' = quantum
    BY <1>14 DEF MataEnIO, Busca
  <2>2. CASE Head(cola[i]) = pedido.pid
    <3>1. cola' = cola /\ destino' = [destino EXCEPT ![pedido.pid] = "COLA_EXIT_USUARIO"]
      BY <1>14, <2>2 DEF MataEnIO
    <3>2. destino'[p] = destino[p] \/ destino'[p] = "COLA_EXIT_USUARIO"
      BY <3>1 DEF Base, TypeOK
    <3>3. ConPrioridad(p)
      BY <3>1, <3>2 DEF ConPrioridad
    <3>4. QED
      BY <2>1, <3>3, <1>2
  <2>3. CASE Head(cola[i]) # pedido.pid
    <3>1. Mudado(cola', cola, pedido.pid, i, "EXIT") /\ destino' = destino
      BY <1>14, <2>3, Mudanzas DEF MataEnIO
    <3>2. QED
      BY <2>1, <3>1, <1>1, <1>3, <1>4
  <2>4. QED
    BY <2>2, <2>3
<1>15. QED
  BY <1>5, <1>6, <1>7, <1>8, <1>9, <1>10, <1>11, <1>12, <1>13, <1>14, Movimientos DEF Atiende

-----------------------------------------------------------------------------
(* The inductive invariant.                                                *)
IInv ==
    /\ Base
    /\ SoloVRRPrioriza
    /\ ReadyCubierta
    /\ NewCubierta
    /\ FugadosEnExit
    /\ GradoCuadra
    /\ ContextoConResto
    /\ PrioridadConQuantum
    /\ ConReloj => CondenadosEncaminados

(* The invariant holds when the kernel starts.                             *)
LEMMA IInvInicial == Init => IInv
<1> SUFFICES ASSUME Init PROVE IInv
  OBVIOUS
<1>1. Base
  BY BaseInicial
<1>2. \A q \in NombresCola : cola[q] = <<>>
  BY DEF Init, ColasVacias
<1>3. \A q \in NombresCola, p \in Pids : ~Esta(cola, q, p)
  BY <1>2 DEF Esta, Contains
<1>4. SoloVRRPrioriza
  BY <1>3, Nombres DEF SoloVRRPrioriza, Init, EstadosKernel
<1>5. Len(cola["READY"]) = 0 /\ Len(cola["READYPLUS"]) = 0 /\ Len(cola["NEW"]) = 0
  BY <1>2, Nombres DEF EstadosKernel
<1>6. ReadyCubierta /\ NewCubierta
  BY <1>5 DEF Init, ReadyCubierta, NewCubierta
<1>7. Ubicados(cola, ConCupo) = {}
  BY <1>3, Nombres DEF Ubicados, ConCupo, EstadosKernel
<1>8. GradoCuadra
  BY <1>7, FS_EmptySet, PlanificadorAssumption DEF GradoCuadra, Init
<1>9. FugadosEnExit
  BY DEF FugadosEnExit, Init
<1>10. ContextoConResto
  BY PlanificadorAssumption DEF ContextoConResto, Init, SinContexto
<1>11. PrioridadConQuantum
  BY <1>3, Nombres DEF PrioridadConQuantum, ConPrioridad, EstadosKernel
<1>12. CondenadosEncaminados
  BY DEF CondenadosEncaminados, Init
<1>13. QED
  BY <1>1, <1>4, <1>6, <1>8, <1>9, <1>10, <1>11, <1>12 DEF IInv

(* Every step keeps it.                                                    *)
LEMMA IInvPaso == IInv /\ [Next]_vars => IInv'
<1> SUFFICES ASSUME IInv, [Next]_vars PROVE IInv'
  OBVIOUS
<1> USE DEF IInv
<1>1. Base'
  BY BasePaso
<1>2. SoloVRRPrioriza' /\ ReadyCubierta'
  BY SoloVRRPaso, ReadyPaso
<1>3. NewCubierta'
  BY NewPaso
<1>4. FugadosEnExit' /\ GradoCuadra'
  BY FugadosPaso, GradoPaso
<1>5. ContextoConResto' /\ PrioridadConQuantum'
  BY ContextoPaso, PrioridadPaso
<1>6. ConReloj => CondenadosEncaminados'
  BY CondenadosPaso
<1>7. QED
  BY <1>1, <1>2, <1>3, <1>4, <1>5, <1>6 DEF ConReloj

(* The inductive invariant holds in every reachable state.                 *)
THEOREM IInvSiempre == Spec => []IInv
  BY IInvInicial, IInvPaso, PTL DEF Spec

-----------------------------------------------------------------------------
(* Type correctness: in particular, no queue is popped when it is empty    *)
(* and the semaphores never go below zero.                                 *)
THEOREM TipoCorrecto == Spec => []TypeOK
<1>1. IInv => TypeOK
  BY DEF IInv, Base
<1>2. QED
  BY <1>1, IInvSiempre, PTL

(* No process is lost or duplicated by any of the threads that move pcbs   *)
(* between queues, nor by the reuse of a pid after ARCHIVO_INVALIDO.       *)
THEOREM NingunProcesoSePierde == Spec => []UnSoloLugar
<1>1. IInv => UnSoloLugar
  BY DEF IInv, Base
<1>2. QED
  BY <1>1, IInvSiempre, PTL

(* FINALIZAR_PROCESO searches the queues with every permit taken.          *)
THEOREM BuscaDetenido == Spec => []BuscaConTodoDetenido
<1>1. IInv => BuscaConTodoDetenido
  BY DEF IInv, Base, FichasCoherentes, BuscaConTodoDetenido
<1>2. QED
  BY <1>1, IInvSiempre, PTL

(* The kernel and the CPU agree on the process that runs.                  *)
THEOREM CPUYKernelCoinciden == Spec => []CPUCoherente
<1>1. IInv => CPUCoherente
  BY DEF IInv, Base
<1>2. QED
  BY <1>1, IInvSiempre, PTL

(* No process is stranded in READY, READY+ or NEW behind a semaphore at 0. *)
THEOREM NadieVarado == Spec => []ColasCubiertas
<1>1. IInv => ColasCubiertas
  BY DEF IInv, ColasCubiertas
<1>2. QED
  BY <1>1, IInvSiempre, PTL

(* The degree of multiprogramming is conserved.                            *)
THEOREM GradoSeConserva == Spec => []GradoCuadra
<1>1. IInv => GradoCuadra
  BY DEF IInv
<1>2. QED
  BY <1>1, IInvSiempre, PTL

(* Under RR and VRR a kill is never forgotten: who was found in EXEC, or   *)
(* being served by an interface, goes nowhere but EXIT, whatever motive    *)
(* the CPU gives and however the interface ends.  FIFO does not raise      *)
(* interrupcion_usuario, and there it may be.                              *)
THEOREM CondenadoNoSigueSiempre ==
    ASSUME ConReloj
    PROVE  Spec => []CondenadoNoSigue
<1>1. IInv => CondenadoNoSigue
  BY DEF IInv, CondenadosEncaminados, Encaminado, Servido, CondenadoNoSigue
<1>2. QED
  BY <1>1, IInvSiempre, PTL

(* Without interfaces of type DIALFS, READY+ holds only processes that     *)
(* left part of their quantum unused.                                      *)
THEOREM PrioridadConRestoSiempre ==
    ASSUME InterfacesFS = {}
    PROVE  Spec => []PrioridadConResto
<1>1. IInv => PrioridadConResto
  BY DEF IInv, PrioridadConQuantum, ConPrioridad, Tope, PrioridadConResto
<1>2. QED
  BY <1>1, IInvSiempre, PTL

(* With them, a process in READY+ may have a whole quantum, renewed before *)
(* the request, but never none.                                            *)
PrioridadConAlgo == \A p \in Pids : Esta(cola, "READYPLUS", p) => quantum[p] \in 1..Quantum

(* No process is dispatched from READY+ with a quantum of zero, with or    *)
(* without a DIALFS interface.                                             *)
THEOREM PrioridadNuncaSinQuantum == Spec => []PrioridadConAlgo
<1>1. IInv => PrioridadConAlgo
  BY PlanificadorAssumption
     DEF IInv, PrioridadConQuantum, ConPrioridad, Tope, PrioridadConAlgo
<1>2. QED
  BY <1>1, IInvSiempre, PTL
=============================================================================
