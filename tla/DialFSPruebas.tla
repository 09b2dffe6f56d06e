--------------------------- MODULE DialFSPruebas ---------------------------
(***************************************************************************)
(* Proofs about module DialFS, for every number and size of blocks, every  *)
(* set of names, sizes and data, and both orders of the copy where a       *)
(* theorem does not name one.                                              *)
(*                                                                         *)
(* The inductive invariant IInv has a part for each life of the file       *)
(* system.  Until a crash breaks the blocks of a file it is Sano: each     *)
(* file ends inside the disk (Caben) and has its own blocks, all marked,   *)
(* and a compaction has packed the files it moved in front of the others,  *)
(* whose marks are lost only once there is a hole before them.  Afterwards *)
(* nothing moves, and what the crash left is CaidaDelimitada.              *)
(*                                                                         *)
(* The second half of the module proves that the blocks implement the      *)
(* files of module Archivos: what a write, a truncation, a compaction or a *)
(* crash does to one area of the disk leaves the areas of the other files  *)
(* alone, which is where the invariant is used.                            *)
(***************************************************************************)
EXTENDS DialFS, SecuenciasTeoremas, FiniteSetTheorems

(* Division: the quotient is the number whose multiple is the last one not *)
(* above the dividend.                                                     *)
LEMMA Cociente ==
    ASSUME NEW a \in Nat, NEW d \in Nat \ {0}
    PROVE  /\ a \div d \in Nat
           /\ (a \div d) * d <= a /\ a < (a \div d) * d + d
<1>1. a \div d \in Nat
  OBVIOUS
<1>2. a = d * (a \div d) + (a % d) /\ a % d \in 0..(d - 1)
  OBVIOUS
<1>3. d * (a \div d) = (a \div d) * d
  BY <1>1
<1>4. QED
  BY <1>1, <1>2, <1>3

(* Multiples of the size of a block keep the order of the blocks.          *)
LEMMA OrdenProducto ==
    ASSUME NEW a \in Nat, NEW b \in Nat, NEW d \in Nat \ {0}
    PROVE  /\ a * d \in Nat
           /\ a <= b => a * d <= b * d
           /\ a * d < b * d => a < b
           /\ (a + b) * d = a * d + b * d
<1>1. ASSUME NEW x \in Nat, NEW y \in Nat, x <= y
      PROVE  x * d <= y * d
  <2>1. PICK k \in Nat : y = x + k
    BY <1>1, y - x \in Nat
  <2>2. y * d = x * d + k * d /\ k * d >= 0
    BY <2>1
  <2>3. QED
    BY <2>2
<1>2. QED
  BY <1>1
-----------------------------------------------------------------------------
(* How many blocks a size takes: the least number that holds it, one for   *)
(* an empty file.                                                          *)
LEMMA CalculoBloques ==
    ASSUME NEW tam \in Nat
    PROVE  /\ CalcularBloques(tam) \in Nat /\ CalcularBloques(tam) >= 1
           /\ tam <= CalcularBloques(tam) * TamBloque
           /\ tam > 0 => (CalcularBloques(tam) - 1) * TamBloque < tam
<1>1. TamBloque \in Nat \ {0}
  BY DialFSAssumption
<1>2. CASE tam = 0
  BY <1>1, <1>2 DEF CalcularBloques
<1>3. CASE tam > 0
  <2> DEFINE q == (tam + TamBloque - 1) \div TamBloque
  <2>1. /\ q \in Nat
        /\ q * TamBloque <= tam + TamBloque - 1
        /\ tam + TamBloque - 1 < q * TamBloque + TamBloque
    BY <1>1, Cociente, tam + TamBloque - 1 \in Nat
  <2>2. CalcularBloques(tam) = q
    BY <1>3 DEF CalcularBloques
  <2> HIDE DEF q
  <2>3. q * TamBloque \in Nat /\ tam <= q * TamBloque
    BY <1>1, <2>1, OrdenProducto
  <2>4. q # 0
    BY <1>1, <1>3, <2>3
  <2>5. q - 1 \in Nat /\ q * TamBloque = (q - 1) * TamBloque + TamBloque
    <3>1. PICK m \in Nat : q = m + 1
      BY <2>1, <2>4, q - 1 \in Nat
    <3>2. (m + 1) * TamBloque = m * TamBloque + 1 * TamBloque
      BY <1>1, <3>1, 1 \in Nat, OrdenProducto
    <3>3. q - 1 = m /\ 1 * TamBloque = TamBloque
      BY <1>1, <3>1
    <3>4. QED
      BY <3>1, <3>2, <3>3
  <2>6. (q - 1) * TamBloque \in Nat
    BY <1>1, <2>5, OrdenProducto
  <2>7. QED
    BY <1>1, <2>1, <2>2, <2>3, <2>4, <2>5, <2>6
<1>4. QED
  BY <1>2, <1>3

(* The number of blocks of a size grows with the size, and is the least    *)
(* one that holds it.                                                      *)
LEMMA CalculoMinimo ==
    ASSUME NEW tam \in Nat, NEW k \in Nat \ {0}, tam <= k * TamBloque
    PROVE  CalcularBloques(tam) <= k
<1>1. TamBloque \in Nat \ {0} /\ k * TamBloque \in Nat
  BY DialFSAssumption, OrdenProducto
<1>2. CASE tam = 0
  BY <1>2 DEF CalcularBloques
<1>3. CASE tam > 0
  <2> DEFINE c == CalcularBloques(tam)
  <2>1. c \in Nat /\ c >= 1 /\ (c - 1) * TamBloque < tam
    BY <1>3, CalculoBloques
  <2> HIDE DEF c
  <2>2. c - 1 \in Nat /\ (c - 1) * TamBloque \in Nat
    BY <1>1, <2>1, OrdenProducto
  <2>3. (c - 1) * TamBloque < k * TamBloque
    BY <1>1, <2>1, <2>2
  <2>4. c - 1 < k
    BY <1>1, <2>2, <2>3, OrdenProducto
  <2>5. c <= k
    BY <2>1, <2>4
  <2>6. QED
    BY <2>5 DEF c
<1>4. QED
  BY <1>2, <1>3

(* What a file takes beyond k whole blocks is counted apart: the sizes of  *)
(* Agrandar agree.                                                         *)
LEMMA CalculoSuma ==
    ASSUME NEW tam \in Nat, NEW k \in Nat, tam > k * TamBloque
    PROVE  /\ tam - k * TamBloque \in Nat
           /\ CalcularBloques(tam) = k + CalcularBloques(tam - k * TamBloque)
<1> DEFINE r == tam - k * TamBloque
           c == CalcularBloques(tam)
           e == CalcularBloques(r)
<1>1. TamBloque \in Nat \ {0} /\ k * TamBloque \in Nat
  BY DialFSAssumption, OrdenProducto
<1>2. r \in Nat /\ r > 0
  BY <1>1
<1>3. e \in Nat /\ e >= 1 /\ r <= e * TamBloque /\ (e - 1) * TamBloque < r
  BY <1>2, CalculoBloques
<1>4. c \in Nat /\ c >= 1 /\ tam <= c * TamBloque /\ (c - 1) * TamBloque < tam
  BY <1>1, CalculoBloques
<1>5. tam = k * TamBloque + r
  BY <1>1
<1> HIDE DEF r, c, e
<1>6. (k + e) * TamBloque = k * TamBloque + e * TamBloque /\ e * TamBloque \in Nat
  BY <1>1, <1>3, OrdenProducto
<1>7. c <= k + e
  BY <1>1, <1>2, <1>3, <1>5, <1>6, CalculoMinimo DEF c
<1>8. /\ k + (e - 1) \in Nat /\ (e - 1) * TamBloque \in Nat
      /\ (k + (e - 1)) * TamBloque = k * TamBloque + (e - 1) * TamBloque
  BY <1>1, <1>3, OrdenProducto, e - 1 \in Nat
<1>9. (k + (e - 1)) * TamBloque < c * TamBloque
  BY <1>1, <1>2, <1>3, <1>4, <1>5, <1>8, OrdenProducto
<1>10. k + (e - 1) < c
  BY <1>1, <1>4, <1>8, <1>9, OrdenProducto
<1>11. c = k + e
  BY <1>3, <1>4, <1>7, <1>10
<1>12. QED
  BY <1>2, <1>11 DEF r, c, e

-----------------------------------------------------------------------------
(* The first free block.                                                   *)
LEMMA LibrePropiedades ==
    ASSUME bitmap \subseteq Bloques, HayLibre
    PROVE  /\ BloqueLibre \in Bloques /\ BloqueLibre \notin bitmap
           /\ \A b \in Bloques \ bitmap : BloqueLibre <= b
<1> DEFINE S == Bloques \ bitmap
<1>1. S \in SUBSET Nat /\ S # {}
  <2>1. \A b \in Bloques : b \in Nat
    BY DialFSAssumption DEF Bloques
  <2>2. S # {}
    BY DEF HayLibre
  <2>3. QED
    BY <2>1, <2>2
<1>2. \E x \in S : \A y \in S : x <= y
  BY <1>1, MinimoExiste
<1>3. BloqueLibre \in S /\ \A y \in S : BloqueLibre <= y
  BY <1>2 DEF BloqueLibre, Min
<1>4. QED
  BY <1>3

(* The free blocks in a row.                                               *)
LEMMA ContiguoPropiedades ==
    ASSUME bitmap \subseteq Bloques, NEW desde \in Nat, desde <= CantBloques
    PROVE  /\ EspacioContiguo(desde) \in Nat
           /\ desde + EspacioContiguo(desde) <= CantBloques
           /\ Tramo(desde, EspacioContiguo(desde)) \cap bitmap = {}
<1> DEFINE S == {b \in bitmap : b >= desde} \cup {CantBloques}
<1>1. CantBloques \in Nat /\ S \in SUBSET Nat /\ S # {}
  <2>1. CantBloques \in Nat /\ \A b \in Bloques : b \in Nat
    BY DialFSAssumption DEF Bloques
  <2>2. \A b \in S : b \in Nat
    BY <2>1
  <2>3. CantBloques \in S
    OBVIOUS
  <2>4. QED
    BY <2>1, <2>2, <2>3
<1>2. \E x \in S : \A y \in S : x <= y
  BY <1>1, MinimoExiste
<1>3. Min(S) \in S /\ \A y \in S : Min(S) <= y
  BY <1>2 DEF Min
<1>4. Min(S) \in Nat /\ Min(S) >= desde /\ Min(S) <= CantBloques
  BY <1>1, <1>3
<1>5. \A b \in bitmap : b >= desde => Min(S) <= b
  BY <1>3
<1>6. EspacioContiguo(desde) = Min(S) - desde
  BY DEF EspacioContiguo
<1> HIDE DEF S
<1>7. QED
  BY <1>1, <1>4, <1>5, <1>6 DEF Tramo, Bloques
-----------------------------------------------------------------------------
(* The inductive invariant.  A request is of a file that exists and, if it *)
(* reads or writes, inside it.                                             *)
PedidoValido ==
    pedido # Ninguno =>
      /\ pedido.op \in {"truncate", "write", "read"} => pedido.archivo \in Existentes
      /\ pedido.op \in {"write", "read"}
           => pedido.puntero + pedido.tam <= metadatas[pedido.archivo].tam
      /\ pedido.op = "write" => pedido.tam = Len(pedido.dato)

(* Every file is on the disk.                                              *)
Caben ==
    \A n \in Existentes :
        metadatas[n].inicio + CalcularBloques(metadatas[n].tam) <= CantBloques

(* In a compaction the copy fits in the size asked for, and the bits of    *)
(* the files yet to move are lost only once there is a hole before them.   *)
EnCompactacion ==
    Compactando =>
      /\ Len(tarea.copia) <= pedido.tam
      /\ \/ \A n \in tarea.faltan : BloquesDe(n) \subseteq bitmap
         \/ \A n \in tarea.faltan : metadatas[n].inicio > tarea.offset

Sano ==
    /\ PedidoValido
    /\ Existentes \subseteq madre
    /\ Caben
    /\ BloquesDeUno
    /\ CompactaEnOrden
    /\ EnCompactacion

(* What holds until a crash breaks the blocks of a file, and after it.     *)
IInv ==
    /\ TypeOK
    /\ ~Rota => Sano
    /\ Rota => tarea = Ninguno /\ CaidaDelimitada

-----------------------------------------------------------------------------
(* The parts of the state, typed.                                          *)
LEMMA Tipos ==
    ASSUME TypeOK
    PROVE  /\ bitmap \subseteq Bloques /\ disco \in [Bytes -> Valores]
           /\ \A n \in Existentes :
                 /\ n \in Nombres
                 /\ metadatas[n].inicio \in Bloques /\ metadatas[n].tam \in Nat
                 /\ metadatas[n].inicio \in Nat
                 /\ CalcularBloques(metadatas[n].tam) \in Nat
                 /\ CalcularBloques(metadatas[n].tam) >= 1
           /\ pedido # Ninguno =>
                 /\ pedido \in Pedidos /\ pedido.archivo \in Nombres /\ pedido.tam \in Nat
                 /\ pedido.puntero \in Nat /\ pedido.dato \in Seq(Valores)
           /\ Compactando =>
                 /\ tarea \in Tareas /\ tarea.faltan \subseteq Existentes \ {pedido.archivo}
                 /\ tarea.offset \in Nat /\ tarea.copia \in Seq(Valores)
                 /\ pedido # Ninguno /\ pedido.op = "truncate"
<1>1. ASSUME NEW n \in Existentes
      PROVE  /\ n \in Nombres
             /\ metadatas[n].inicio \in Bloques /\ metadatas[n].tam \in Nat
             /\ metadatas[n].inicio \in Nat
             /\ CalcularBloques(metadatas[n].tam) \in Nat
             /\ CalcularBloques(metadatas[n].tam) >= 1
  <2>1. /\ n \in Nombres /\ metadatas[n] \in [inicio : Bloques, tam : Nat]
    BY DEF TypeOK
  <2>2. metadatas[n].inicio \in Bloques /\ metadatas[n].tam \in Nat
    BY <2>1
  <2>3. metadatas[n].inicio \in Nat
    BY <2>2, DialFSAssumption DEF Bloques
  <2>4. QED
    BY <2>1, <2>2, <2>3, CalculoBloques
<1>2. pedido # Ninguno =>
         /\ pedido \in Pedidos /\ pedido.archivo \in Nombres /\ pedido.tam \in Nat
         /\ pedido.puntero \in Nat /\ pedido.dato \in Seq(Valores)
  BY DEF TypeOK, Pedidos
<1>3. Compactando =>
         /\ tarea \in Tareas /\ tarea.faltan \subseteq Existentes \ {pedido.archivo}
         /\ tarea.offset \in Nat /\ tarea.copia \in Seq(Valores)
         /\ pedido # Ninguno /\ pedido.op = "truncate"
  BY DEF TypeOK, Tareas, Compactando
<1>4. bitmap \subseteq Bloques /\ disco \in [Bytes -> Valores]
  BY DEF TypeOK
<1>5. QED
  BY <1>1, <1>2, <1>3, <1>4

(* Two runs of blocks are apart when one ends before the other starts.     *)
LEMMA TramosSeparados ==
    ASSUME NEW a \in Nat, NEW b \in Nat, NEW m \in Nat \ {0}, NEW n \in Nat \ {0}
    PROVE  Tramo(a, m) \cap Tramo(b, n) = {} <=> (a + m <= b \/ b + n <= a)
<1>1. ASSUME Tramo(a, m) \cap Tramo(b, n) = {}
      PROVE  a + m <= b \/ b + n <= a
  <2>1. CASE a <= b
    <3>1. b \in Tramo(b, n)
      BY DEF Tramo
    <3>2. b \notin Tramo(a, m)
      BY <3>1, <1>1
    <3>3. QED
      BY <2>1, <3>2 DEF Tramo
  <2>2. CASE b <= a
    <3>1. a \in Tramo(a, m)
      BY DEF Tramo
    <3>2. a \notin Tramo(b, n)
      BY <3>1, <1>1
    <3>3. QED
      BY <2>2, <3>2 DEF Tramo
  <2>3. QED
    BY <2>1, <2>2
<1>2. ASSUME a + m <= b \/ b + n <= a
      PROVE  Tramo(a, m) \cap Tramo(b, n) = {}
  BY <1>2 DEF Tramo
<1>3. QED
  BY <1>1, <1>2

(* A run of blocks that is on the disk ends there.                         *)
LEMMA TramoEnDisco ==
    ASSUME NEW a \in Nat, NEW m \in Nat \ {0}
    PROVE  Tramo(a, m) \subseteq Bloques <=> a + m <= CantBloques
<1>1. CantBloques \in Nat \ {0}
  BY DialFSAssumption
<1>2. ASSUME Tramo(a, m) \subseteq Bloques
      PROVE  a + m <= CantBloques
  <2>1. a + m - 1 \in Tramo(a, m)
    BY DEF Tramo
  <2>2. a + m - 1 \in Bloques
    BY <2>1, <1>2
  <2>3. QED
    BY <2>2, <1>1 DEF Bloques
<1>3. ASSUME a + m <= CantBloques
      PROVE  Tramo(a, m) \subseteq Bloques
  BY <1>1, <1>3 DEF Tramo, Bloques
<1>4. QED
  BY <1>2, <1>3

(* The bytes of a file are on the disk.                                    *)
LEMMA BytesEnDisco ==
    ASSUME NEW inicio \in Nat, NEW tam \in Nat,
           inicio + CalcularBloques(tam) <= CantBloques
    PROVE  /\ inicio * TamBloque \in Nat
           /\ inicio * TamBloque + tam <= (inicio + CalcularBloques(tam)) * TamBloque
           /\ (inicio + CalcularBloques(tam)) * TamBloque <= CantBloques * TamBloque
           /\ \A i \in 1..tam : inicio * TamBloque + i - 1 \in Bytes
<1> DEFINE c == CalcularBloques(tam)
<1>1. TamBloque \in Nat \ {0} /\ CantBloques \in Nat
  BY DialFSAssumption
<1>2. c \in Nat /\ tam <= c * TamBloque
  BY CalculoBloques
<1> HIDE DEF c
<1>3. /\ inicio * TamBloque \in Nat /\ c * TamBloque \in Nat
      /\ (inicio + c) * TamBloque = inicio * TamBloque + c * TamBloque
  BY <1>1, <1>2, OrdenProducto
<1>4. inicio + c \in Nat /\ inicio + c <= CantBloques
  BY <1>2 DEF c
<1>5. (inicio + c) * TamBloque <= CantBloques * TamBloque /\ CantBloques * TamBloque \in Nat
  BY <1>1, <1>4, OrdenProducto
<1>6. inicio * TamBloque + tam <= (inicio + c) * TamBloque
  BY <1>2, <1>3
<1>7. \A i \in 1..tam : inicio * TamBloque + i - 1 \in Bytes
  BY <1>3, <1>4, <1>5, <1>6 DEF Bytes
<1>8. QED
  BY <1>3, <1>5, <1>6, <1>7 DEF c

(* A write inside the disk leaves a disk.                                  *)
LEMMA GrabarTipo ==
    ASSUME disco \in [Bytes -> Valores], NEW inicio, NEW desde, NEW dato \in Seq(Valores),
           Grabar(inicio, desde, dato)
    PROVE  disco' \in [Bytes -> Valores]
<1>1. \A i \in DOMAIN dato : dato[i] \in Valores
  BY SeqDef
<1>2. \A b \in Bytes : disco[b] \in Valores
  OBVIOUS
<1>3. QED
  BY <1>1, <1>2 DEF Grabar

(* What is read inside the disk are bytes.                                 *)
LEMMA LeerTipo ==
    ASSUME disco \in [Bytes -> Valores], NEW inicio \in Nat, NEW desde \in Nat, NEW tam \in Nat,
           \A i \in 1..tam : inicio * TamBloque + desde + i - 1 \in Bytes
    PROVE  /\ LeerDisco(inicio, desde, tam) \in Seq(Valores)
           /\ Len(LeerDisco(inicio, desde, tam)) = tam
           /\ DOMAIN LeerDisco(inicio, desde, tam) = 1..tam
<1>1. LeerDisco(inicio, desde, tam) \in [1..tam -> Valores]
  BY DEF LeerDisco
<1>2. QED
  BY <1>1, FuncionSecuencia

(* A file that moves towards the start of the disk is read where it is.    *)
LEMMA CopiadoTipo ==
    ASSUME disco \in [Bytes -> Valores], NEW destino \in Nat, NEW origen \in Nat,
           destino < origen, NEW tam \in Nat, NEW orden \in Copias,
           origen * TamBloque \in Nat,
           \A i \in 1..tam : origen * TamBloque + i - 1 \in Bytes
    PROVE  /\ Copiado(destino, origen, tam, orden) \in Seq(Valores)
           /\ Len(Copiado(destino, origen, tam, orden)) = tam
           /\ DOMAIN Copiado(destino, origen, tam, orden) = 1..tam
           /\ orden = "adelante" =>
                 \A i \in 1..tam :
                    Copiado(destino, origen, tam, orden)[i] = disco[origen * TamBloque + i - 1]
<1> DEFINE salto == (origen - destino) * TamBloque
           fuente(i) == IF orden = "adelante" THEN i ELSE i + ((tam - i) \div salto) * salto
           base == origen * TamBloque
           f == [i \in 1..tam |-> disco[base + fuente(i) - 1]]
<1>1. salto \in Nat \ {0}
  <2>1. TamBloque \in Nat \ {0}
    BY DialFSAssumption
  <2>2. PICK k \in Nat \ {0} : origen - destino = k
    BY origen - destino \in Nat \ {0}
  <2>3. 0 * TamBloque < k * TamBloque /\ k * TamBloque \in Nat
    <3>1. k * TamBloque >= 1 * TamBloque /\ k * TamBloque \in Nat
      BY <2>1, <2>2, 1 \in Nat, OrdenProducto
    <3>2. QED
      BY <3>1, <2>1
  <2>4. QED
    BY <2>1, <2>2, <2>3
<1> HIDE DEF salto, base
<1>2. \A i \in 1..tam : fuente(i) \in 1..tam
  <2> SUFFICES ASSUME NEW i \in 1..tam
               PROVE  fuente(i) \in 1..tam
    OBVIOUS
  <2>1. tam - i \in Nat
    OBVIOUS
  <2>2. (tam - i) \div salto \in Nat /\ ((tam - i) \div salto) * salto <= tam - i
    BY <1>1, <2>1, Cociente
  <2>3. ((tam - i) \div salto) * salto \in Nat
    BY <1>1, <2>2, OrdenProducto
  <2>4. QED
    BY <2>1, <2>2, <2>3
<1>3. f \in [1..tam -> Valores]
  <2>1. \A i \in 1..tam : base + i - 1 \in Bytes
    BY DEF base
  <2> HIDE DEF fuente
  <2>2. \A i \in 1..tam : disco[base + fuente(i) - 1] \in Valores
    BY <1>2, <2>1
  <2>3. QED
    BY <2>2
<1>4. Copiado(destino, origen, tam, orden) = f
  BY DEF Copiado, salto, base
<1>5. f \in Seq(Valores) /\ Len(f) = tam /\ DOMAIN f = 1..tam
  BY <1>3, FuncionSecuencia
<1>6. orden = "adelante" => \A i \in 1..tam : f[i] = disco[base + i - 1]
  OBVIOUS
<1>7. QED
  BY <1>4, <1>5, <1>6 DEF base
-----------------------------------------------------------------------------
(* What holds of the blocks when no compaction is in progress.             *)
Reposo ==
    /\ Existentes \subseteq madre
    /\ Caben
    /\ \A n, o \in Existentes : ~Comparten(n, o)
    /\ \A n \in Existentes : BloquesDe(n) \subseteq bitmap

(* With no compaction under way, what is sane is at rest.                  *)
LEMMA SanoEsReposo ==
    ASSUME Sano, ~Rota, tarea = Ninguno
    PROVE  Reposo
BY DEF Sano, BloquesDeUno, EnSuLugar, Compactando, SinMarcar, Reposo

(* The other way round: at rest and with a legal request, it is sane.      *)
LEMMA ReposoEsSano ==
    ASSUME Reposo, tarea = Ninguno, PedidoValido
    PROVE  Sano
BY DEF Sano, BloquesDeUno, EnSuLugar, Compactando, SinMarcar, Reposo, CompactaEnOrden,
   EnCompactacion

(* The blocks of a file, before and after a step.                          *)
Tenia(a) == IF a \in Existentes THEN BloquesDe(a) ELSE {}

(* What a request that is served in one step does: only one file changes,  *)
(* its new blocks were its own or free, and the bits change as they do.    *)
UnCambio(a) ==
    /\ \A n \in Nombres \ {a} : n \in Existentes' <=> n \in Existentes
    /\ \A n \in Existentes \ {a} : metadatas'[n] = metadatas[n]
    /\ bitmap' = (bitmap \ Tenia(a)) \cup Tenia(a)'
    /\ Tenia(a)' \subseteq Tenia(a) \cup (Bloques \ bitmap)

(* A request that changes the blocks of one file and marks or clears       *)
(* exactly those keeps the others as they were (BloquesDeUno, Caben).      *)
LEMMA CambioConserva ==
    ASSUME TypeOK, Reposo, NEW a \in Nombres, UnCambio(a), Existentes' \subseteq Nombres
    PROVE  /\ \A n, o \in Existentes' : ~Comparten(n, o)'
           /\ \A n \in Existentes' : BloquesDe(n)' \subseteq bitmap'
           /\ Sobrantes' = Sobrantes
           /\ bitmap' \subseteq Bloques
<1> DEFINE otros == Existentes \ {a}
           viejos == Tenia(a)
           nuevos == Tenia(a)'
<1>1. /\ Existentes' \ {a} = otros
      /\ \A n \in otros : BloquesDe(n)' = BloquesDe(n)
      /\ Existentes \subseteq Nombres
  BY DEF UnCambio, BloquesDe, TypeOK
<1>2. /\ \A n \in otros : BloquesDe(n) \subseteq bitmap /\ BloquesDe(n) \cap viejos = {}
      /\ \A n, o \in otros : n # o => BloquesDe(n) \cap BloquesDe(o) = {}
      /\ viejos \subseteq bitmap
  BY DEF Reposo, Comparten, Tenia
<1>3. bitmap' = (bitmap \ viejos) \cup nuevos /\ nuevos \subseteq viejos \cup (Bloques \ bitmap)
  BY DEF UnCambio
<1>4. /\ a \in Existentes' => BloquesDe(a)' = nuevos
      /\ a \notin Existentes' => nuevos = {}
      /\ a \in Existentes => BloquesDe(a) = viejos
      /\ a \notin Existentes => viejos = {}
  BY DEF Tenia
<1> HIDE DEF viejos, nuevos
<1>5. \A n \in otros : BloquesDe(n) \cap nuevos = {} /\ BloquesDe(n) \subseteq bitmap'
  BY <1>2, <1>3
<1>6. \A n \in Existentes' : n = a \/ n \in otros
  BY <1>1
<1>7. \A n, o \in Existentes' : n # o => BloquesDe(n)' \cap BloquesDe(o)' = {}
  BY <1>1, <1>2, <1>4, <1>5, <1>6
<1>8. \A n \in Existentes' : BloquesDe(n)' \subseteq bitmap'
  BY <1>1, <1>3, <1>4, <1>5, <1>6
<1>9. Sobrantes' = Sobrantes
  <2> DEFINE U == UNION {BloquesDe(n) : n \in otros}
  <2>1. UNION {BloquesDe(n) : n \in Existentes} = U \cup viejos
    BY <1>4
  <2>2. UNION {BloquesDe(n)' : n \in Existentes'} = U \cup nuevos
    <3>1. \A b : (\E n \in Existentes' : b \in BloquesDe(n)')
                   <=> ((\E n \in otros : b \in BloquesDe(n)) \/ b \in nuevos)
      BY <1>1, <1>4, <1>6
    <3>2. QED
      BY <3>1
  <2> HIDE DEF U
  <2>3. Sobrantes' = bitmap' \ (U \cup nuevos)
    BY <2>2 DEF Sobrantes
  <2>4. Sobrantes = bitmap \ (U \cup viejos)
    BY <2>1 DEF Sobrantes
  <2>5. QED
    BY <2>3, <2>4, <1>3
<1>10. bitmap' \subseteq Bloques
  BY <1>2, <1>3, Tipos
<1>11. QED
  BY <1>7, <1>8, <1>9, <1>10 DEF Comparten
-----------------------------------------------------------------------------
(* Saving the metadata of a file changes that of no other.                 *)
LEMMA MetadataPuesta ==
    ASSUME TypeOK, NEW n \in Existentes, NEW b \in Bloques, NEW t \in Nat,
           ModificarMetadata(n, b, t)
    PROVE  /\ Existentes' = Existentes
           /\ metadatas'[n].inicio = b /\ metadatas'[n].tam = t
           /\ BloquesDe(n)' = Tramo(b, CalcularBloques(t))
           /\ \A o \in Existentes \ {n} : metadatas'[o] = metadatas[o]
           /\ \A o \in Existentes' : metadatas'[o] \in [inicio : Bloques, tam : Nat]
<1>1. metadatas' = [metadatas EXCEPT ![n] = [inicio |-> b, tam |-> t]]
  BY DEF ModificarMetadata
<1>2. /\ DOMAIN metadatas' = DOMAIN metadatas
      /\ metadatas'[n] = [inicio |-> b, tam |-> t]
      /\ \A o \in Existentes \ {n} : metadatas'[o] = metadatas[o]
  BY <1>1 DEF Existentes
<1>3. \A o \in Existentes : metadatas[o] \in [inicio : Bloques, tam : Nat]
  BY DEF TypeOK
<1>4. metadatas'[n].inicio = b /\ metadatas'[n].tam = t
  BY <1>2
<1>5. QED
  BY <1>2, <1>3, <1>4 DEF Existentes, BloquesDe

(* The requests served in one step.                                        *)
LEMMA CrearCambia ==
    ASSUME TypeOK, Reposo, Crear, NEW a, a = pedido.archivo
    PROVE  /\ UnCambio(a) /\ Caben' /\ Existentes' = Existentes \cup {a}
           /\ \A n \in Existentes' : metadatas'[n] \in [inicio : Bloques, tam : Nat]
<1>1. /\ pedido # Ninguno /\ HayLibre /\ a \notin Existentes
      /\ bitmap' = bitmap \cup {BloqueLibre}
      /\ metadatas' = [n \in Existentes \cup {a} |->
                          IF n \in Existentes THEN metadatas[n]
                          ELSE [inicio |-> BloqueLibre, tam |-> 0]]
  BY DEF Crear, Sirve
<1>2. /\ BloqueLibre \in Bloques /\ BloqueLibre \notin bitmap
  BY <1>1, LibrePropiedades, Tipos
<1>3. /\ Existentes' = Existentes \cup {a}
      /\ \A n \in Existentes : metadatas'[n] = metadatas[n]
      /\ metadatas'[a] = [inicio |-> BloqueLibre, tam |-> 0]
  BY <1>1 DEF Existentes
<1>4. metadatas'[a].inicio = BloqueLibre /\ metadatas'[a].tam = 0
  BY <1>3
<1>5. CalcularBloques(0) = 1
  BY DEF CalcularBloques
<1>6. CantBloques \in Nat /\ BloqueLibre \in Nat /\ BloqueLibre + 1 <= CantBloques
  BY <1>2, DialFSAssumption DEF Bloques
<1>7. Tenia(a) = {} /\ Tenia(a)' = {BloqueLibre}
  <2>1. BloquesDe(a)' = Tramo(BloqueLibre, 1)
    BY <1>4, <1>5 DEF BloquesDe
  <2>2. Tramo(BloqueLibre, 1) = {BloqueLibre}
    BY <1>6 DEF Tramo
  <2>3. QED
    BY <2>1, <2>2, <1>1, <1>3 DEF Tenia
<1>8. UnCambio(a)
  BY <1>1, <1>2, <1>3, <1>7 DEF UnCambio
<1>9. Caben'
  <2> SUFFICES ASSUME NEW n \in Existentes'
               PROVE  metadatas'[n].inicio + CalcularBloques(metadatas'[n].tam) <= CantBloques
    BY DEF Caben
  <2>1. CASE n \in Existentes
    BY <2>1, <1>3 DEF Reposo, Caben
  <2>2. CASE n = a
    BY <2>2, <1>4, <1>5, <1>6
  <2>3. QED
    BY <2>1, <2>2, <1>3
<1>10. \A n \in Existentes' : metadatas'[n] \in [inicio : Bloques, tam : Nat]
  BY <1>2, <1>3 DEF TypeOK
<1>11. QED
  BY <1>3, <1>8, <1>9, <1>10

(* DELETE gives back the blocks of its file (borrar_archivo).              *)
LEMMA BorrarCambia ==
    ASSUME TypeOK, Reposo, Borrar, NEW a, a = pedido.archivo
    PROVE  /\ UnCambio(a) /\ Caben' /\ Existentes' = Existentes \ {a}
           /\ \A n \in Existentes' : metadatas'[n] \in [inicio : Bloques, tam : Nat]
<1>1. /\ a \in Existentes /\ bitmap' = bitmap \ BloquesDe(a)
      /\ metadatas' = [n \in Existentes \ {a} |-> metadatas[n]]
  BY DEF Borrar, BloquesDe, Archivo
<1>2. /\ Existentes' = Existentes \ {a}
      /\ \A n \in Existentes \ {a} : metadatas'[n] = metadatas[n]
  BY <1>1 DEF Existentes
<1>3. Tenia(a) = BloquesDe(a) /\ Tenia(a)' = {}
  BY <1>1, <1>2 DEF Tenia
<1>4. UnCambio(a)
  BY <1>1, <1>2, <1>3 DEF UnCambio
<1>5. Caben'
  BY <1>2 DEF Reposo, Caben
<1>6. QED
  BY <1>2, <1>4, <1>5 DEF TypeOK

(* A file that shrinks gives back its last blocks.                         *)
LEMMA AchicarCambia ==
    ASSUME TypeOK, Reposo, PedidoValido, Achicar, NEW a, a = pedido.archivo
    PROVE  /\ UnCambio(a) /\ Caben' /\ Existentes' = Existentes /\ a \in Existentes
           /\ \A n \in Existentes' : metadatas'[n] \in [inicio : Bloques, tam : Nat]
<1> DEFINE ini == metadatas[a].inicio
           c == CalcularBloques(metadatas[a].tam)
           d == CalcularBloques(pedido.tam)
<1>1. /\ pedido # Ninguno /\ a \in Existentes /\ pedido.tam \in Nat
      /\ pedido.tam <= c * TamBloque
      /\ bitmap' = bitmap \ Tramo(ini + d, c - d)
      /\ ModificarMetadata(a, ini, pedido.tam)
  BY Tipos DEF Achicar, Sirve, Alcanza, Tiene, Archivo, PedidoValido
<1>2. ini \in Nat /\ ini \in Bloques /\ c \in Nat /\ c >= 1 /\ ini + c <= CantBloques
  BY <1>1, Tipos DEF Reposo, Caben
<1>3. d \in Nat /\ d >= 1 /\ d <= c
  BY <1>1, <1>2, CalculoBloques, CalculoMinimo
<1>4. /\ Existentes' = Existentes
      /\ metadatas'[a].inicio = ini /\ metadatas'[a].tam = pedido.tam
      /\ BloquesDe(a)' = Tramo(ini, d)
      /\ \A o \in Existentes \ {a} : metadatas'[o] = metadatas[o]
      /\ \A o \in Existentes' : metadatas'[o] \in [inicio : Bloques, tam : Nat]
  BY <1>1, <1>2, MetadataPuesta
<1>5. Tenia(a) = Tramo(ini, c) /\ Tenia(a)' = Tramo(ini, d) /\ Tenia(a) \subseteq bitmap
  BY <1>1, <1>4 DEF Tenia, BloquesDe, Reposo
<1>6. Caben'
  <2> SUFFICES ASSUME NEW n \in Existentes'
               PROVE  metadatas'[n].inicio + CalcularBloques(metadatas'[n].tam) <= CantBloques
    BY DEF Caben
  <2>1. CASE n = a
    BY <2>1, <1>2, <1>3, <1>4, DialFSAssumption
  <2>2. CASE n # a
    BY <2>2, <1>4 DEF Reposo, Caben
  <2>3. QED
    BY <2>1, <2>2
<1> HIDE DEF ini, c, d
<1>7. Tramo(ini + d, c - d) = Tramo(ini, c) \ Tramo(ini, d) /\ Tramo(ini, d) \subseteq Tramo(ini, c)
  BY <1>2, <1>3 DEF Tramo
<1>8. bitmap' = (bitmap \ Tenia(a)) \cup Tenia(a)'
  BY <1>1, <1>5, <1>7
<1>9. UnCambio(a)
  BY <1>4, <1>5, <1>7, <1>8 DEF UnCambio
<1>10. QED
  BY <1>1, <1>4, <1>6, <1>9

(* A file that grows in place takes free blocks that follow its own, and   *)
(* still ends inside the disk.                                             *)
LEMMA AgrandarCambia ==
    ASSUME TypeOK, Reposo, PedidoValido, Agrandar, NEW a, a = pedido.archivo
    PROVE  /\ UnCambio(a) /\ Caben' /\ Existentes' = Existentes /\ a \in Existentes
           /\ \A n \in Existentes' : metadatas'[n] \in [inicio : Bloques, tam : Nat]
<1> DEFINE ini == metadatas[a].inicio
           c == CalcularBloques(metadatas[a].tam)
           r == pedido.tam - c * TamBloque
           e == CalcularBloques(r)
           libres == EspacioContiguo(ini + c)
<1>1. /\ pedido # Ninguno /\ a \in Existentes /\ pedido.tam \in Nat
      /\ ~(pedido.tam <= c * TamBloque) /\ libres * TamBloque >= r
      /\ bitmap' = bitmap \cup Tramo(ini + c, e)
      /\ ModificarMetadata(a, ini, pedido.tam)
  BY Tipos DEF Agrandar, Sirve, Alcanza, HayContiguo, Tiene, Archivo, PedidoValido
<1>2. /\ ini \in Nat /\ ini \in Bloques /\ c \in Nat /\ c >= 1 /\ ini + c <= CantBloques
      /\ TamBloque \in Nat \ {0} /\ CantBloques \in Nat
  BY <1>1, Tipos, DialFSAssumption DEF Reposo, Caben
<1>3. /\ c * TamBloque \in Nat /\ r \in Nat /\ r > 0
      /\ CalcularBloques(pedido.tam) = c + e
  <2>1. c * TamBloque \in Nat
    BY <1>2, OrdenProducto
  <2>2. pedido.tam > c * TamBloque
    BY <1>1, <2>1
  <2>3. r \in Nat /\ CalcularBloques(pedido.tam) = c + e
    BY <1>1, <1>2, <2>2, CalculoSuma
  <2>4. QED
    BY <1>1, <2>1, <2>2, <2>3
<1>4. /\ libres \in Nat /\ ini + c + libres <= CantBloques
      /\ Tramo(ini + c, libres) \cap bitmap = {}
  BY <1>2, ini + c \in Nat, ContiguoPropiedades, Tipos
<1>5. e \in Nat /\ e >= 1 /\ e <= libres
  <2>1. e \in Nat /\ e >= 1
    BY <1>3, CalculoBloques
  <2>2. libres # 0
    BY <1>1, <1>2, <1>3
  <2>3. QED
    BY <1>1, <1>3, <1>4, <2>1, <2>2, CalculoMinimo
<1>6. /\ Existentes' = Existentes
      /\ metadatas'[a].inicio = ini /\ metadatas'[a].tam = pedido.tam
      /\ BloquesDe(a)' = Tramo(ini, c + e)
      /\ \A o \in Existentes \ {a} : metadatas'[o] = metadatas[o]
      /\ \A o \in Existentes' : metadatas'[o] \in [inicio : Bloques, tam : Nat]
  BY <1>1, <1>2, <1>3, MetadataPuesta
<1>7. Tenia(a) = Tramo(ini, c) /\ Tenia(a)' = Tramo(ini, c + e) /\ Tenia(a) \subseteq bitmap
  BY <1>1, <1>6 DEF Tenia, BloquesDe, Reposo
<1>8. Caben'
  <2> SUFFICES ASSUME NEW n \in Existentes'
               PROVE  metadatas'[n].inicio + CalcularBloques(metadatas'[n].tam) <= CantBloques
    BY DEF Caben
  <2>1. CASE n = a
    BY <2>1, <1>2, <1>3, <1>4, <1>5, <1>6
  <2>2. CASE n # a
    BY <2>2, <1>6 DEF Reposo, Caben
  <2>3. QED
    BY <2>1, <2>2
<1> HIDE DEF ini, c, e, libres
<1>9. /\ Tramo(ini, c + e) = Tramo(ini, c) \cup Tramo(ini + c, e)
      /\ Tramo(ini + c, e) \subseteq Tramo(ini + c, libres)
      /\ Tramo(ini + c, e) \subseteq Bloques
  BY <1>2, <1>4, <1>5 DEF Tramo, Bloques
<1>10. UnCambio(a)
  BY <1>1, <1>4, <1>6, <1>7, <1>9 DEF UnCambio
<1>11. QED
  BY <1>1, <1>6, <1>8, <1>10
-----------------------------------------------------------------------------
(* A step that ends a request, with every file on blocks of its own.       *)
LEMMA TerminaBien ==
    ASSUME bitmap' \subseteq Bloques, disco' \in [Bytes -> Valores],
           Existentes' \subseteq Nombres, vacios' \subseteq Nombres \ Existentes',
           madre' \subseteq Existentes' \cup vacios', Existentes' \subseteq madre',
           \A n \in Existentes' : metadatas'[n] \in [inicio : Bloques, tam : Nat],
           pedido' = Ninguno, tarea' = Ninguno, respuesta' \in Seq(Valores), caida' = Ninguno,
           Caben', \A n, o \in Existentes' : ~Comparten(n, o)',
           \A n \in Existentes' : BloquesDe(n)' \subseteq bitmap'
    PROVE  IInv'
<1>1. TypeOK'
  BY DEF TypeOK
<1>2. Sano'
  BY DEF Sano, PedidoValido, BloquesDeUno, EnSuLugar, Compactando, SinMarcar, CompactaEnOrden,
     EnCompactacion
<1>3. QED
  BY <1>1, <1>2 DEF IInv, Rota

(* The same, when the step changes no metadata and clears no bit.          *)
LEMMA TerminaIgual ==
    ASSUME TypeOK, Reposo, ~Rota, UNCHANGED <<metadatas, caida>>,
           bitmap \subseteq bitmap', bitmap' \subseteq Bloques, disco' \in [Bytes -> Valores],
           madre \subseteq madre', vacios' \subseteq Nombres \ Existentes,
           madre' \subseteq Existentes \cup vacios',
           pedido' = Ninguno, tarea' = Ninguno, respuesta' \in Seq(Valores)
    PROVE  IInv'
<1>1. /\ Existentes' = Existentes /\ Existentes \subseteq Nombres
      /\ \A n \in Existentes' : metadatas'[n] \in [inicio : Bloques, tam : Nat]
      /\ \A n : BloquesDe(n)' = BloquesDe(n)
  BY DEF Existentes, TypeOK, BloquesDe
<1>2. Caben' /\ Existentes' \subseteq madre'
  BY <1>1 DEF Reposo, Caben
<1>3. \A n, o \in Existentes' : ~Comparten(n, o)'
  BY <1>1 DEF Reposo, Comparten
<1>4. \A n \in Existentes' : BloquesDe(n)' \subseteq bitmap'
  BY <1>1 DEF Reposo
<1>5. caida' = Ninguno
  BY DEF Rota
<1>6. QED
  BY <1>1, <1>2, <1>3, <1>4, <1>5, TerminaBien

(* What a READ answers is on the disk.                                     *)
LEMMA LecturaTipo ==
    ASSUME TypeOK, Reposo, PedidoValido, Sirve("read")
    PROVE  LeerDisco(Archivo.inicio, pedido.puntero, pedido.tam) \in Seq(Valores)
<1> DEFINE ini == Archivo.inicio
           tam == Archivo.tam
<1>1. /\ pedido # Ninguno /\ pedido.archivo \in Existentes
      /\ pedido.puntero \in Nat /\ pedido.tam \in Nat /\ pedido.puntero + pedido.tam <= tam
  BY Tipos DEF Sirve, PedidoValido, Archivo
<1>2. ini \in Nat /\ tam \in Nat /\ ini + CalcularBloques(tam) <= CantBloques
  BY <1>1, Tipos DEF Reposo, Caben, Archivo
<1>3. ini * TamBloque \in Nat /\ \A i \in 1..tam : ini * TamBloque + i - 1 \in Bytes
  BY <1>2, BytesEnDisco
<1> HIDE DEF ini, tam
<1>4. \A i \in 1..pedido.tam : ini * TamBloque + pedido.puntero + i - 1 \in Bytes
  <2> SUFFICES ASSUME NEW i \in 1..pedido.tam
               PROVE  ini * TamBloque + pedido.puntero + i - 1 \in Bytes
    OBVIOUS
  <2>1. pedido.puntero + i \in 1..tam
    BY <1>1, <1>2
  <2>2. ini * TamBloque + (pedido.puntero + i) - 1 \in Bytes
    BY <1>3, <2>1
  <2>3. ini * TamBloque + (pedido.puntero + i) - 1 = ini * TamBloque + pedido.puntero + i - 1
    BY <1>1, <1>3
  <2>4. QED
    BY <2>2, <2>3
<1>5. LeerDisco(ini, pedido.puntero, pedido.tam) \in Seq(Valores)
  BY <1>1, <1>2, <1>4, LeerTipo, Tipos
<1>6. QED
  BY <1>5 DEF ini

(* Every request served in one step leaves the file system at rest.        *)
LEMMA ServirEnReposo ==
    ASSUME IInv, ~Rota,
           Crear \/ Borrar \/ NoHaceNada \/ Escribir \/ Leer \/ Achicar \/ Agrandar
    PROVE  IInv'
<1>1. TypeOK /\ Sano /\ PedidoValido /\ tarea = Ninguno /\ Reposo
  BY SanoEsReposo DEF IInv, Sano, Crear, Borrar, NoHaceNada, Escribir, Leer, Achicar, Agrandar,
     Sirve
<1>2. /\ pedido' = Ninguno /\ tarea' = Ninguno /\ caida' = caida /\ vacios' = vacios
      /\ pedido # Ninguno /\ pedido.archivo \in Nombres /\ <<>> \in Seq(Valores)
  <2>1. /\ pedido' = Ninguno /\ tarea' = tarea /\ caida' = caida /\ vacios' = vacios
        /\ pedido # Ninguno
    BY DEF Crear, Borrar, NoHaceNada, Escribir, Leer, Achicar, Agrandar, Sirve, Contesta, archivos
  <2>2. QED
    BY <1>1, <2>1, Tipos
<1>3. /\ bitmap \subseteq Bloques /\ disco \in [Bytes -> Valores] /\ Existentes \subseteq Nombres
      /\ madre \subseteq Existentes \cup vacios /\ vacios \subseteq Nombres \ Existentes
      /\ Existentes \subseteq madre
  BY <1>1 DEF TypeOK, Reposo
<1>4. PICK a \in Nombres : a = pedido.archivo
  BY <1>2
<1>5. ASSUME UnCambio(a), Caben', Existentes' \subseteq Nombres, disco' \in [Bytes -> Valores],
             \A n \in Existentes' : metadatas'[n] \in [inicio : Bloques, tam : Nat],
             respuesta' = <<>>, vacios' \subseteq Nombres \ Existentes',
             madre' \subseteq Existentes' \cup vacios', Existentes' \subseteq madre'
      PROVE  IInv'
  <2>1. /\ \A n, o \in Existentes' : ~Comparten(n, o)'
        /\ \A n \in Existentes' : BloquesDe(n)' \subseteq bitmap'
        /\ bitmap' \subseteq Bloques
    BY <1>1, <1>5, CambioConserva
  <2>2. caida' = Ninguno /\ respuesta' \in Seq(Valores)
    BY <1>2, <1>5 DEF Rota
  <2>3. QED
    BY <2>1, <2>2, <1>2, <1>5, TerminaBien
<1>6. CASE Crear
  <2>1. /\ UnCambio(a) /\ Caben' /\ Existentes' = Existentes \cup {a}
        /\ \A n \in Existentes' : metadatas'[n] \in [inicio : Bloques, tam : Nat]
    BY <1>1, <1>4, <1>6, CrearCambia
  <2>2. /\ disco' = disco /\ madre' = madre \cup {a} /\ respuesta' = <<>> /\ a \notin vacios
    BY <1>4, <1>6 DEF Crear, AgregarNombre, Contesta
  <2>3. QED
    BY <2>1, <2>2, <1>2, <1>3, <1>5
<1>7. CASE Borrar
  <2>1. /\ UnCambio(a) /\ Caben' /\ Existentes' = Existentes \ {a}
        /\ \A n \in Existentes' : metadatas'[n] \in [inicio : Bloques, tam : Nat]
    BY <1>1, <1>4, <1>7, BorrarCambia
  <2>2. madre' = madre \ {a} /\ respuesta' = <<>> /\ a \in Existentes
    BY <1>4, <1>7 DEF Borrar, EliminarNombre, Contesta
  <2>3. disco' \in [Bytes -> Valores]
    <3>1. 0 \in Valores /\ \A b \in Bytes : disco[b] \in Valores
      BY <1>3, DialFSAssumption
    <3>2. PICK S : disco' = [b \in Bytes |-> IF b \div TamBloque \in S THEN 0 ELSE disco[b]]
      BY <1>7 DEF Borrar
    <3>3. QED
      BY <3>1, <3>2
  <2>4. QED
    BY <2>1, <2>2, <2>3, <1>2, <1>3, <1>5
<1>8. CASE NoHaceNada
  BY <1>1, <1>2, <1>3, <1>8, TerminaIgual DEF NoHaceNada, Contesta, archivos
<1>9. CASE Escribir
  <2>1. /\ UNCHANGED <<bitmap, metadatas, madre>> /\ respuesta' = <<>>
        /\ Grabar(Archivo.inicio, pedido.puntero, pedido.dato)
    BY <1>9 DEF Escribir, Contesta, archivos
  <2>2. disco' \in [Bytes -> Valores]
    BY <2>1, <1>1, <1>2, <1>3, Tipos, GrabarTipo
  <2>3. QED
    BY <2>1, <2>2, <1>1, <1>2, <1>3, TerminaIgual
<1>10. CASE Leer
  <2>1. /\ UNCHANGED <<bitmap, metadatas, disco, madre>>
        /\ respuesta' = LeerDisco(Archivo.inicio, pedido.puntero, pedido.tam)
        /\ Sirve("read")
    BY <1>10 DEF Leer, Contesta, archivos
  <2>2. respuesta' \in Seq(Valores)
    BY <2>1, <1>1, LecturaTipo
  <2>3. QED
    BY <2>1, <2>2, <1>1, <1>2, <1>3, TerminaIgual
<1>11. CASE Achicar
  <2>1. /\ UnCambio(a) /\ Caben' /\ Existentes' = Existentes
        /\ \A n \in Existentes' : metadatas'[n] \in [inicio : Bloques, tam : Nat]
    BY <1>1, <1>4, <1>11, AchicarCambia
  <2>2. disco' = disco /\ madre' = madre /\ respuesta' = <<>>
    BY <1>11 DEF Achicar, Contesta, archivos
  <2>3. QED
    BY <2>1, <2>2, <1>2, <1>3, <1>5
<1>12. CASE Agrandar
  <2>1. /\ UnCambio(a) /\ Caben' /\ Existentes' = Existentes
        /\ \A n \in Existentes' : metadatas'[n] \in [inicio : Bloques, tam : Nat]
    BY <1>1, <1>4, <1>12, AgrandarCambia
  <2>2. disco' = disco /\ madre' = madre /\ respuesta' = <<>>
    BY <1>12 DEF Agrandar, Contesta, archivos
  <2>3. QED
    BY <2>1, <2>2, <1>2, <1>3, <1>5
<1>13. QED
  BY <1>6, <1>7, <1>8, <1>9, <1>10, <1>11, <1>12

(* What a program asks for is valid.                                       *)
LEMMA PedirBien ==
    ASSUME IInv, ~Rota, Pedir
    PROVE  pedido' \in Pedidos /\ PedidoValido'
<1>1. TypeOK /\ Sano
  BY DEF IInv
<1>2. /\ pedido = Ninguno /\ respuesta' = <<>>
      /\ UNCHANGED <<bitmap, disco, metadatas, archivos, tarea, caida>>
  BY DEF Pedir, PideAlta, PideBaja, PideTamanio, PideEscritura, PideLectura, Pide
<1>3. /\ \A n \in Existentes : n \in Nombres /\ metadatas[n].tam \in Nat
      /\ \A d \in Datos : d \in Seq(Valores) /\ Len(d) \in Nat
      /\ Tamanios \subseteq Nat
  BY <1>1, Tipos, DialFSAssumption, LenProperties
<1>4. pedido' \in Pedidos /\ PedidoValido'
  <2>1. ASSUME NEW op \in {"create", "delete", "truncate", "write", "read"},
               NEW n \in Nombres, NEW tam \in Nat, NEW p \in Nat, NEW d \in Seq(Valores),
               Pide(op, n, tam, p, d),
               op \in {"truncate", "write", "read"} => n \in Existentes,
               op \in {"write", "read"} => p + tam <= metadatas[n].tam,
               op = "write" => tam = Len(d)
        PROVE  pedido' \in Pedidos /\ PedidoValido'
    <3> DEFINE r == [op |-> op, archivo |-> n, tam |-> tam, puntero |-> p, dato |-> d]
    <3>1. pedido' = r /\ metadatas' = metadatas
      BY <2>1 DEF Pide
    <3>2. r \in Pedidos
      BY DEF Pedidos
    <3>3. /\ r.op = op /\ r.archivo = n /\ r.tam = tam /\ r.puntero = p /\ r.dato = d
      OBVIOUS
    <3> HIDE DEF r
    <3>4. QED
      BY <3>1, <3>2, <3>3, <2>1 DEF PedidoValido, Existentes
  <2>2. 0 \in Nat /\ <<>> \in Seq(Valores)
    OBVIOUS
  <2>3. CASE PideAlta
    BY <2>1, <2>2, <2>3 DEF PideAlta
  <2>4. CASE PideBaja
    BY <2>1, <2>2, <2>4 DEF PideBaja
  <2>5. CASE PideTamanio
    <3>1. PICK n \in Existentes, tam \in Tamanios : Pide("truncate", n, tam, 0, <<>>)
      BY <2>5 DEF PideTamanio
    <3>2. n \in Nombres /\ tam \in Nat
      BY <1>3
    <3>3. QED
      BY <2>1, <2>2, <3>1, <3>2
  <2>6. CASE PideEscritura
    <3>0. PICK n \in Existentes, d \in Datos :
             \E p \in 0..(metadatas[n].tam - Len(d)) : Pide("write", n, Len(d), p, d)
      BY <2>6 DEF PideEscritura
    <3>1. PICK p \in 0..(metadatas[n].tam - Len(d)) : Pide("write", n, Len(d), p, d)
      BY <3>0
    <3>2. /\ n \in Nombres /\ d \in Seq(Valores) /\ Len(d) \in Nat
          /\ metadatas[n].tam \in Nat
      BY <1>3
    <3>3. p \in Nat /\ p + Len(d) <= metadatas[n].tam
      BY <3>2
    <3>4. QED
      BY <2>1, <3>1, <3>2, <3>3
  <2>7. CASE PideLectura
    <3>0. PICK n \in Existentes, d \in Datos :
             \E p \in 0..(metadatas[n].tam - Len(d)) : Pide("read", n, Len(d), p, <<>>)
      BY <2>7 DEF PideLectura
    <3>1. PICK p \in 0..(metadatas[n].tam - Len(d)) : Pide("read", n, Len(d), p, <<>>)
      BY <3>0
    <3>2. n \in Nombres /\ Len(d) \in Nat /\ metadatas[n].tam \in Nat
      BY <1>3
    <3>3. p \in Nat /\ p + Len(d) <= metadatas[n].tam
      BY <3>2
    <3>4. QED
      BY <2>1, <2>2, <3>1, <3>2, <3>3
  <2>8. QED
    BY <2>3, <2>4, <2>5, <2>6, <2>7 DEF Pedir
<1>5. QED
  BY <1>4

(* What a program may ask keeps IInv.                                      *)
LEMMA PedirPaso ==
    ASSUME IInv, ~Rota, Pedir
    PROVE  IInv'
<1>1. TypeOK /\ Sano
  BY DEF IInv
<1>2. /\ pedido = Ninguno /\ respuesta' = <<>>
      /\ UNCHANGED <<bitmap, disco, metadatas, archivos, tarea, caida>>
  BY DEF Pedir, PideAlta, PideBaja, PideTamanio, PideEscritura, PideLectura, Pide
<1>3. tarea = Ninguno
  BY <1>1, <1>2 DEF TypeOK
<1>4. Reposo
  BY <1>1, <1>3, SanoEsReposo
<1>6. pedido' \in Pedidos /\ PedidoValido'
  BY PedirBien
<1>7. TypeOK'
  BY <1>1, <1>2, <1>3, <1>6 DEF TypeOK, Existentes, archivos
<1>8. Reposo'
  BY <1>2, <1>4 DEF Reposo, Existentes, archivos, Caben, Comparten, BloquesDe
<1>9. Sano'
  BY <1>2, <1>3, <1>6, <1>8 DEF Sano, BloquesDeUno, EnSuLugar, Compactando, SinMarcar, Reposo,
     CompactaEnOrden, EnCompactacion
<1>10. QED
  BY <1>2, <1>7, <1>9 DEF IInv, Rota

-----------------------------------------------------------------------------
(* The compaction.                                                         *)
LEMMA IniciarPaso ==
    ASSUME IInv, ~Rota, IniciarCompactacion
    PROVE  IInv'
<1>1. TypeOK /\ Sano /\ PedidoValido /\ Sirve("truncate") /\ tarea = Ninguno
  BY DEF IInv, Sano, IniciarCompactacion, Sirve
<1>2. Reposo
  BY <1>1, SanoEsReposo
<1> DEFINE a == pedido.archivo
           c == LeerDisco(Archivo.inicio, 0, Archivo.tam)
           t == [faltan |-> madre \ {a}, offset |-> 0, copia |-> c]
<1>3. /\ pedido # Ninguno /\ pedido.op = "truncate" /\ a \in Existentes /\ pedido.tam \in Nat
      /\ tarea' = t /\ ~Alcanza /\ madre \cap vacios = {}
      /\ UNCHANGED <<bitmap, disco, metadatas, archivos, pedido, respuesta, caida>>
  BY <1>1, Tipos DEF IniciarCompactacion, MetadatasLegibles, Sirve, PedidoValido
<1>4. /\ Archivo.inicio \in Nat /\ Archivo.tam \in Nat
      /\ Archivo.inicio + CalcularBloques(Archivo.tam) <= CantBloques
  BY <1>1, <1>2, <1>3, Tipos DEF Reposo, Caben, Archivo
<1>5. c \in Seq(Valores) /\ Len(c) = Archivo.tam
  <2>1. /\ Archivo.inicio * TamBloque \in Nat
        /\ \A i \in 1..Archivo.tam : Archivo.inicio * TamBloque + i - 1 \in Bytes
    BY <1>4, BytesEnDisco
  <2>2. \A i \in 1..Archivo.tam : Archivo.inicio * TamBloque + 0 + i - 1 \in Bytes
    BY <2>1
  <2>3. QED
    BY <1>1, <1>4, <2>2, 0 \in Nat, LeerTipo, Tipos
<1>6. Archivo.tam <= pedido.tam
  <2>1. /\ Tiene \in Nat /\ Archivo.tam <= Tiene * TamBloque
    BY <1>4, CalculoBloques DEF Tiene
  <2>2. TamBloque \in Nat \ {0} /\ Tiene * TamBloque \in Nat
    BY <2>1, DialFSAssumption, OrdenProducto
  <2>3. QED
    BY <1>3, <1>4, <2>1, <2>2 DEF Alcanza
<1>7. /\ madre \subseteq Existentes /\ Existentes \subseteq Nombres /\ Existentes \subseteq madre
  BY <1>1, <1>2, <1>3 DEF TypeOK, Reposo
<1> HIDE DEF c
<1>8. /\ t \in Tareas /\ t.faltan = Existentes \ {a} /\ t.offset = 0 /\ t.copia = c
  BY <1>5, <1>7 DEF Tareas
<1> HIDE DEF t, a
<1>9. t # Ninguno
  BY <1>8, DialFSAssumption
<1>10. TypeOK'
  BY <1>1, <1>3, <1>8 DEF TypeOK, Existentes, archivos, a
<1>11. EnSuLugar' = {}
  BY <1>3, <1>8, <1>9 DEF EnSuLugar, Compactando, Existentes, a
<1>12. /\ Existentes' = Existentes /\ \A n \in Existentes : BloquesDe(n)' = BloquesDe(n)
  BY <1>3 DEF Existentes, BloquesDe
<1>13. BloquesDeUno'
  BY <1>2, <1>11, <1>12 DEF BloquesDeUno, Reposo, Comparten
<1>14. CompactaEnOrden'
  <2>1. UNION {BloquesDe(n)' : n \in EnSuLugar'} = {}
    BY <1>11
  <2>2. 0..(tarea'.offset - 1) = {}
    BY <1>3, <1>8
  <2>3. \A n \in tarea'.faltan : metadatas'[n].inicio >= tarea'.offset
    BY <1>1, <1>3, <1>8, Tipos
  <2>4. QED
    BY <2>1, <2>2, <2>3 DEF CompactaEnOrden
<1>15. EnCompactacion'
  <2>1. \A n \in tarea'.faltan : BloquesDe(n)' \subseteq bitmap'
    BY <1>2, <1>3, <1>8, <1>12 DEF Reposo
  <2>2. Len(tarea'.copia) <= pedido'.tam
    BY <1>3, <1>5, <1>6, <1>8
  <2>3. QED
    BY <2>1, <2>2 DEF EnCompactacion
<1>16. PedidoValido' /\ Caben' /\ Existentes' \subseteq madre'
  BY <1>1, <1>2, <1>3 DEF PedidoValido, Caben, Existentes, Reposo, archivos
<1>17. QED
  BY <1>3, <1>10, <1>13, <1>14, <1>15, <1>16 DEF IInv, Sano, Rota

(* The record of the compaction after a file moved, field by field.        *)
LEMMA TareaSigue ==
    ASSUME NEW t \in Tareas, NEW n, NEW c \in Nat
    PROVE  [t EXCEPT !.faltan = @ \ {n}, !.offset = @ + c]
             = [faltan |-> t.faltan \ {n}, offset |-> t.offset + c, copia |-> t.copia]
<1> DEFINE F(x) == [x EXCEPT !.faltan = @ \ {n}, !.offset = @ + c]
           r == [faltan |-> t.faltan, offset |-> t.offset, copia |-> t.copia]
<1>1. t = r
  BY DEF Tareas
<1>2. F(r) = [faltan |-> t.faltan \ {n}, offset |-> t.offset + c, copia |-> t.copia]
  <2>1. [r EXCEPT !.faltan = @ \ {n}]
           = [faltan |-> t.faltan \ {n}, offset |-> t.offset, copia |-> t.copia]
    OBVIOUS
  <2>2. F(r) = [[r EXCEPT !.faltan = @ \ {n}] EXCEPT !.offset = @ + c]
    OBVIOUS
  <2>3. [[faltan |-> t.faltan \ {n}, offset |-> t.offset, copia |-> t.copia]
             EXCEPT !.offset = @ + c]
          = [faltan |-> t.faltan \ {n}, offset |-> t.offset + c, copia |-> t.copia]
    OBVIOUS
  <2>4. QED
    BY <2>1, <2>2, <2>3, Zenon
<1> HIDE DEF F, r
<1>3. F(t) = F(r)
  BY <1>1
<1>4. QED
  BY <1>2, <1>3 DEF F

(* What is so of the file that moves next: it goes to a hole that is large *)
(* enough, past the files that moved and before those yet to move.         *)
LEMMA ElSiguiente ==
    ASSUME TypeOK, Sano, ~Rota, Compactando, NEW n, EsElSiguiente(n)
    PROVE  LET ini == metadatas[n].inicio
               cant == CalcularBloques(metadatas[n].tam)
               off == tarea.offset
           IN /\ n \in Existentes /\ n # pedido.archivo /\ n \notin EnSuLugar
              /\ off \in Nat /\ off <= ini /\ off \in Bloques
              /\ ini + cant <= CantBloques
              /\ ini * TamBloque \in Nat
              /\ \A i \in 1..metadatas[n].tam : ini * TamBloque + i - 1 \in Bytes
              /\ \A o \in tarea.faltan \ {n} : metadatas[o].inicio >= ini + cant
              /\ \A o \in EnSuLugar : BloquesDe(o) \subseteq 0..(off - 1)
              /\ \A o \in EnSuLugar : BloquesDe(o) \subseteq bitmap
              /\ \A o \in Existentes \ {n, pedido.archivo} :
                    BloquesDe(o) \cap Tramo(off, cant) = {}
<1> DEFINE ini == metadatas[n].inicio
           cant == CalcularBloques(metadatas[n].tam)
           off == tarea.offset
<1>1. /\ n \in tarea.faltan /\ tarea.faltan \subseteq Existentes \ {pedido.archivo}
      /\ off \in Nat /\ \A o \in tarea.faltan : ini <= metadatas[o].inicio
  BY Tipos DEF EsElSiguiente
<1>2. n \in Existentes /\ n # pedido.archivo /\ n \notin EnSuLugar
  BY <1>1 DEF EnSuLugar
<1>3. /\ ini \in Nat /\ ini \in Bloques /\ cant \in Nat /\ cant >= 1
      /\ metadatas[n].tam \in Nat /\ ini + cant <= CantBloques
  BY <1>2, Tipos DEF Sano, Caben
<1>4. off <= ini
  BY <1>1 DEF Sano, CompactaEnOrden
<1>5. off \in Bloques
  BY <1>1, <1>3, <1>4, DialFSAssumption DEF Bloques
<1>6. ASSUME NEW o \in tarea.faltan \ {n}
      PROVE  metadatas[o].inicio >= ini + cant
  <2> DEFINE i == metadatas[o].inicio
             c == CalcularBloques(metadatas[o].tam)
  <2>1. o \in Existentes /\ o # pedido.archivo /\ ini <= i
    BY <1>1
  <2>2. i \in Nat /\ c \in Nat /\ c >= 1
    BY <2>1, Tipos
  <2>3. BloquesDe(n) \cap BloquesDe(o) = {}
    BY <1>2, <2>1 DEF Sano, BloquesDeUno, Comparten
  <2>4. Tramo(ini, cant) \cap Tramo(i, c) = {}
    BY <2>3 DEF BloquesDe
  <2> HIDE DEF i, c
  <2>5. ini + cant <= i \/ i + c <= ini
    <3>1. ini \in Nat /\ cant \in Nat \ {0} /\ i \in Nat /\ c \in Nat \ {0}
      BY <1>3, <2>2
    <3> HIDE DEF ini, cant
    <3>2. QED
      BY <3>1, <2>4, TramosSeparados
  <2>6. ini + cant <= i
    BY <1>3, <2>1, <2>2, <2>5
  <2>7. QED
    BY <1>3, <2>2, <2>6 DEF i
<1>7. \A o \in EnSuLugar : BloquesDe(o) \subseteq 0..(off - 1)
  BY DEF Sano, CompactaEnOrden
<1>8. \A o \in EnSuLugar : BloquesDe(o) \subseteq bitmap
  BY DEF Sano, BloquesDeUno, SinMarcar
<1>9. /\ ini * TamBloque \in Nat
      /\ \A i \in 1..metadatas[n].tam : ini * TamBloque + i - 1 \in Bytes
  BY <1>3, BytesEnDisco
<1>10. ASSUME NEW o \in Existentes \ {n, pedido.archivo}
       PROVE  BloquesDe(o) \cap Tramo(off, cant) = {}
  <2>1. o \in EnSuLugar \/ o \in tarea.faltan \ {n}
    BY DEF EnSuLugar
  <2>2. CASE o \in EnSuLugar
    <3>1. BloquesDe(o) \subseteq 0..(off - 1)
      BY <1>7, <2>2
    <3> HIDE DEF off, cant
    <3>2. QED
      BY <3>1, <1>1, <1>3 DEF Tramo
  <2>3. CASE o \in tarea.faltan \ {n}
    <3> DEFINE i == metadatas[o].inicio
               c == CalcularBloques(metadatas[o].tam)
    <3>1. i \in Nat /\ c \in Nat /\ i >= ini + cant
      BY <1>6, <2>3, Tipos
    <3>2. BloquesDe(o) = Tramo(i, c)
      BY DEF BloquesDe
    <3> HIDE DEF i, c, off, ini, cant
    <3>3. QED
      BY <3>1, <3>2, <1>1, <1>3, <1>4 DEF Tramo
  <2>4. QED
    BY <2>1, <2>2, <2>3
<1>11. QED
  BY <1>1, <1>2, <1>3, <1>4, <1>5, <1>6, <1>7, <1>8, <1>9, <1>10

(* A file is moved to the end of the packed ones: no file yet to move is   *)
(* run over (compactar).                                                   *)
LEMMA MoverPaso ==
    ASSUME IInv, ~Rota, MoverArchivo
    PROVE  IInv'
<1>1. /\ TypeOK /\ Sano /\ Compactando /\ Caben
      /\ UNCHANGED <<archivos, pedido, respuesta, caida>>
  BY DEF IInv, MoverArchivo, Sano
<1>2. PICK n \in Nombres :
         /\ EsElSiguiente(n)
         /\ LET inicio == metadatas[n].inicio
                tam == metadatas[n].tam
                cant == CalcularBloques(tam)
            IN /\ IF tarea.offset = inicio
                  THEN UNCHANGED <<bitmap, disco, metadatas>>
                  ELSE /\ \E orden \in Copias :
                            Grabar(tarea.offset, 0, Copiado(tarea.offset, inicio, tam, orden))
                       /\ ReasignarBitmap(tarea.offset, inicio, cant)
                       /\ ModificarMetadata(n, tarea.offset, tam)
               /\ tarea' = [tarea EXCEPT !.faltan = @ \ {n}, !.offset = @ + cant]
  BY DEF MoverArchivo
<1> DEFINE ini == metadatas[n].inicio
           tam == metadatas[n].tam
           cant == CalcularBloques(tam)
           off == tarea.offset
           falt == tarea.faltan
           cop == tarea.copia
           EnS == EnSuLugar
           t == [faltan |-> falt \ {n}, offset |-> off + cant, copia |-> cop]
<1>3. /\ n \in Existentes /\ n # pedido.archivo /\ n \notin EnS
      /\ off \in Nat /\ off <= ini /\ off \in Bloques
      /\ ini + cant <= CantBloques
      /\ ini * TamBloque \in Nat
      /\ \A i \in 1..tam : ini * TamBloque + i - 1 \in Bytes
      /\ \A o \in falt \ {n} : metadatas[o].inicio >= ini + cant
      /\ \A o \in EnS : BloquesDe(o) \subseteq 0..(off - 1)
      /\ \A o \in EnS : BloquesDe(o) \subseteq bitmap
      /\ \A o \in Existentes \ {n, pedido.archivo} : BloquesDe(o) \cap Tramo(off, cant) = {}
  BY <1>1, <1>2, ElSiguiente
<1>4. /\ ini \in Nat /\ ini \in Bloques /\ cant \in Nat /\ cant >= 1 /\ tam \in Nat
      /\ bitmap \subseteq Bloques /\ disco \in [Bytes -> Valores]
      /\ tarea \in Tareas /\ falt \subseteq Existentes \ {pedido.archivo}
      /\ cop \in Seq(Valores) /\ pedido # Ninguno /\ pedido.op = "truncate"
      /\ CantBloques \in Nat /\ n \in falt
  BY <1>1, <1>2, <1>3, Tipos, DialFSAssumption DEF EsElSiguiente
<1>5. tarea' = t
  BY <1>2, <1>4, TareaSigue
<1>6. /\ Existentes' = Existentes
      /\ metadatas'[n].inicio = off /\ metadatas'[n].tam = tam
      /\ BloquesDe(n)' = Tramo(off, cant)
      /\ \A o \in Existentes \ {n} : metadatas'[o] = metadatas[o]
      /\ \A o \in Existentes' : metadatas'[o] \in [inicio : Bloques, tam : Nat]
  <2>1. CASE off = ini
    <3>1. metadatas' = metadatas
      BY <1>2, <2>1
    <3>2. BloquesDe(n)' = Tramo(metadatas'[n].inicio, CalcularBloques(metadatas'[n].tam))
      BY DEF BloquesDe
    <3>3. QED
      BY <1>1, <2>1, <3>1, <3>2 DEF Existentes, TypeOK
  <2>2. CASE off # ini
    BY <1>1, <1>2, <1>3, <1>4, <2>2, MetadataPuesta
  <2>3. QED
    BY <2>1, <2>2
<1>7. /\ off = ini => bitmap' = bitmap
      /\ off # ini => bitmap' = (bitmap \ Tramo(ini, cant + off)) \cup Tramo(off, cant)
  BY <1>2 DEF ReasignarBitmap
<1>8. disco' \in [Bytes -> Valores]
  <2>1. CASE off = ini
    BY <1>2, <1>4, <2>1
  <2>2. CASE off # ini
    <3>1. PICK orden \in Copias : Grabar(off, 0, Copiado(off, ini, tam, orden))
      BY <1>2, <2>2
    <3>2. Copiado(off, ini, tam, orden) \in Seq(Valores)
      <4>1. off < ini
        BY <1>3, <1>4, <2>2
      <4> HIDE DEF ini, tam, off
      <4>2. QED
        BY <1>3, <1>4, <4>1, CopiadoTipo
    <3>3. QED
      BY <1>4, <3>1, <3>2, GrabarTipo
  <2>3. QED
    BY <2>1, <2>2
<1>9. \A o \in Existentes \ {n} : BloquesDe(o)' = BloquesDe(o)
  BY <1>6 DEF BloquesDe
<1>10. /\ Compactando' /\ t.faltan = falt \ {n} /\ t.offset = off + cant /\ t.copia = cop
       /\ t \in Tareas
  <2>1. t.faltan = falt \ {n} /\ t.offset = off + cant /\ t.copia = cop
    OBVIOUS
  <2>2. t \in Tareas
    <3>1. falt \ {n} \in SUBSET Nombres /\ off + cant \in Nat
      BY <1>3, <1>4 DEF Tareas
    <3>2. QED
      BY <3>1, <1>4 DEF Tareas
  <2> HIDE DEF t
  <2>3. t # Ninguno
    BY <2>2, DialFSAssumption
  <2>4. QED
    BY <2>1, <2>2, <2>3, <1>5 DEF Compactando
<1> HIDE DEF t
<1>11. EnSuLugar' = EnS \cup {n}
  <2>1. EnSuLugar' = Existentes \ ((falt \ {n}) \cup {pedido.archivo})
    BY <1>1, <1>5, <1>6, <1>10 DEF EnSuLugar
  <2>2. EnS = Existentes \ (falt \cup {pedido.archivo})
    BY <1>1 DEF EnSuLugar
  <2>3. QED
    BY <2>1, <2>2, <1>3
<1>12. EnS \subseteq Existentes
  BY DEF EnSuLugar
<1>13. \A o \in Existentes : o = n \/ o = pedido.archivo \/ o \in EnS \/ o \in falt \ {n}
  BY <1>1 DEF EnSuLugar
<1> HIDE DEF EnS
<1>14. \A o \in falt \ {n} : BloquesDe(o) = metadatas[o].inicio..
                                (metadatas[o].inicio + CalcularBloques(metadatas[o].tam) - 1)
                             /\ metadatas[o].inicio \in Nat
                             /\ CalcularBloques(metadatas[o].tam) \in Nat
  BY <1>1, <1>4, Tipos DEF BloquesDe, Tramo
<1> HIDE DEF ini, tam, cant, off, falt, cop
<1>15. \A o \in falt \ {n} : metadatas[o].inicio >= off + cant
  BY <1>3, <1>4, <1>14
<1>16. \A o \in EnS \cup (falt \ {n}) : BloquesDe(o) \cap Tramo(off, cant) = {}
  <2>1. \A o \in EnS \cup (falt \ {n}) : o \in Existentes \ {n, pedido.archivo}
    BY <1>1, <1>3, <1>4 DEF EnS, EnSuLugar, falt
  <2>2. QED
    BY <2>1, <1>3
<1>17. CompactaEnOrden'
  <2> DEFINE U == UNION {BloquesDe(o) : o \in EnS}
             V == UNION {BloquesDe(o)' : o \in EnS \cup {n}}
  <2>1. U = 0..(off - 1)
    BY <1>1 DEF Sano, CompactaEnOrden, EnS, off
  <2>2. V = U \cup Tramo(off, cant)
    <3>1. \A b : (\E o \in EnS \cup {n} : b \in BloquesDe(o)')
                  <=> ((\E o \in EnS : b \in BloquesDe(o)) \/ b \in Tramo(off, cant))
      BY <1>3, <1>6, <1>9, <1>12
    <3>2. QED
      BY <3>1
  <2> HIDE DEF U
  <2>3. 0..(off - 1) \cup Tramo(off, cant) = 0..((off + cant) - 1)
    BY <1>3, <1>4 DEF Tramo
  <2>4. \A o \in tarea'.faltan : metadatas'[o].inicio >= tarea'.offset
    BY <1>4, <1>5, <1>6, <1>10, <1>15
  <2>5. tarea'.offset = off + cant
    BY <1>5, <1>10
  <2>6. UNION {BloquesDe(o)' : o \in EnSuLugar'} = 0..(tarea'.offset - 1)
    <3>1. V = 0..(tarea'.offset - 1)
      <4> HIDE DEF V
      <4>1. QED
        BY <2>1, <2>2, <2>3, <2>5
    <3>2. V = UNION {BloquesDe(o)' : o \in EnSuLugar'}
      BY <1>11
    <3>3. QED
      BY <3>1, <3>2
  <2>7. QED
    BY <2>4, <2>6 DEF CompactaEnOrden
<1>18. \A o, q \in Existentes' : ~(Compactando' /\ pedido'.archivo \in {o, q}) => ~Comparten(o, q)'
  <2> SUFFICES ASSUME NEW o \in Existentes, NEW q \in Existentes, o # q,
                      pedido.archivo \notin {o, q}
               PROVE  BloquesDe(o)' \cap BloquesDe(q)' = {}
    BY <1>1, <1>6, <1>10 DEF Comparten
  <2>1. CASE o # n /\ q # n
    <3>1. BloquesDe(o) \cap BloquesDe(q) = {}
      BY <1>1 DEF Sano, BloquesDeUno, Comparten
    <3>2. QED
      BY <3>1, <2>1, <1>9
  <2>2. CASE o = n
    BY <2>2, <1>6, <1>9, <1>13, <1>16
  <2>3. CASE q = n
    BY <2>3, <1>6, <1>9, <1>13, <1>16
  <2>4. QED
    BY <2>1, <2>2, <2>3
<1>19. Tramo(off, cant) \subseteq bitmap'
  <2>1. CASE off = ini
    <3>1. BloquesDe(n) \subseteq bitmap
      BY <1>1, <1>3, <1>4, <2>1 DEF Sano, EnCompactacion, off, ini, falt
    <3>2. BloquesDe(n) = Tramo(off, cant)
      BY <2>1 DEF BloquesDe, off, ini, cant, tam
    <3>3. QED
      BY <3>1, <3>2, <2>1, <1>7
  <2>2. CASE off # ini
    BY <2>2, <1>7
  <2>3. QED
    BY <2>1, <2>2
<1>20. \A o \in EnS : BloquesDe(o)' \subseteq bitmap'
  <2> SUFFICES ASSUME NEW o \in EnS, NEW b \in BloquesDe(o)
               PROVE  b \in bitmap'
    BY <1>3, <1>9, <1>12
  <2>1. b \in bitmap /\ b \in 0..(off - 1)
    BY <1>3
  <2>2. b \notin Tramo(ini, cant + off)
    BY <2>1, <1>3, <1>4 DEF Tramo
  <2>3. QED
    BY <2>1, <2>2, <1>7
<1>21. BloquesDeUno'
  <2>1. \A o \in EnSuLugar' : ~SinMarcar(o)'
    BY <1>6, <1>11, <1>19, <1>20 DEF SinMarcar
  <2>2. QED
    BY <2>1, <1>18 DEF BloquesDeUno
<1>22. EnCompactacion'
  <2>1. Len(tarea'.copia) <= pedido'.tam
    BY <1>1, <1>5, <1>10 DEF Sano, EnCompactacion, cop
  <2>2. CASE off = ini
    <3>1. \A o \in falt : BloquesDe(o) \subseteq bitmap
      BY <1>1, <1>3, <1>4, <2>2 DEF Sano, EnCompactacion, off, ini, falt
    <3>2. \A o \in tarea'.faltan : BloquesDe(o)' \subseteq bitmap'
      BY <3>1, <2>2, <1>4, <1>5, <1>7, <1>9, <1>10
    <3>3. QED
      BY <3>2, <2>1 DEF EnCompactacion
  <2>3. CASE off # ini
    <3>1. \A o \in tarea'.faltan : metadatas'[o].inicio > tarea'.offset
      BY <2>3, <1>3, <1>4, <1>5, <1>6, <1>10, <1>14
    <3>2. QED
      BY <3>1, <2>1 DEF EnCompactacion
  <2>4. QED
    BY <2>2, <2>3
<1>23. bitmap' \subseteq Bloques
  <2>1. Tramo(off, cant) \subseteq Bloques
    BY <1>3, <1>4 DEF Tramo, Bloques
  <2>2. QED
    BY <2>1, <1>4, <1>7
<1>24. TypeOK'
  <2>1. tarea' \in Tareas /\ tarea'.faltan \subseteq Existentes' \ {pedido'.archivo}
    BY <1>1, <1>4, <1>5, <1>6, <1>10
  <2>2. pedido' # Ninguno /\ pedido'.op = "truncate"
    BY <1>1, <1>4
  <2>3. /\ Existentes' \subseteq Nombres /\ madre' \subseteq Existentes' \cup vacios'
        /\ vacios' \subseteq Nombres \ Existentes' /\ caida' \in Caidas \cup {Ninguno}
        /\ pedido' \in Pedidos \cup {Ninguno} /\ respuesta' \in Seq(Valores)
    BY <1>1, <1>6 DEF TypeOK, archivos
  <2>4. QED
    BY <2>1, <2>2, <2>3, <1>6, <1>8, <1>23 DEF TypeOK
<1>25. Caben'
  <2> SUFFICES ASSUME NEW o \in Existentes'
               PROVE  metadatas'[o].inicio + CalcularBloques(metadatas'[o].tam) <= CantBloques
    BY DEF Caben
  <2>1. CASE o = n
    <3>1. off + cant <= CantBloques
      BY <1>3, <1>4
    <3>2. QED
      BY <3>1, <2>1, <1>6 DEF cant
  <2>2. CASE o # n
    BY <2>2, <1>1, <1>6 DEF Caben
  <2>3. QED
    BY <2>1, <2>2
<1>26. PedidoValido' /\ Existentes' \subseteq madre'
  BY <1>1, <1>4, <1>6 DEF Sano, PedidoValido, archivos
<1>27. QED
  BY <1>1, <1>17, <1>21, <1>22, <1>24, <1>25, <1>26 DEF IInv, Sano, Rota

(* Where the file that grows is put: past every other file.                *)
LEMMA ColocaPropiedades ==
    ASSUME TypeOK, Sano, ~Rota, Compactando, tarea.faltan = {}, HayLibre, Coloca \subseteq Bloques,
           NEW a, a = pedido.archivo
    PROVE  /\ a \in Existentes /\ BloqueLibre \in Bloques /\ BloqueLibre \in Nat
           /\ CalcularBloques(pedido.tam) \in Nat \ {0}
           /\ BloqueLibre + CalcularBloques(pedido.tam) <= CantBloques
           /\ \A o \in Existentes \ {a} : /\ BloquesDe(o) \cap Coloca = {}
                                          /\ BloquesDe(o) \subseteq bitmap
           /\ \A n, o \in Existentes \ {a} : ~Comparten(n, o)
<1> DEFINE c == CalcularBloques(pedido.tam)
           off == tarea.offset
<1>1. /\ pedido # Ninguno /\ pedido.op = "truncate" /\ pedido.tam \in Nat /\ off \in Nat
      /\ bitmap \subseteq Bloques
  BY Tipos
<1>2. a \in Existentes
  BY <1>1 DEF Sano, PedidoValido
<1>3. BloqueLibre \in Bloques /\ BloqueLibre \notin bitmap /\ BloqueLibre \in Nat
  BY <1>1, LibrePropiedades, DialFSAssumption DEF Bloques
<1>4. c \in Nat \ {0}
  BY <1>1, CalculoBloques
<1> HIDE DEF c
<1>5. Coloca = Tramo(BloqueLibre, c)
  BY DEF Coloca, c
<1>6. BloqueLibre + c <= CantBloques
  BY <1>3, <1>4, <1>5, TramoEnDisco
<1>7. EnSuLugar = Existentes \ {a}
  BY DEF EnSuLugar
<1>8. \A o \in Existentes \ {a} : BloquesDe(o) \subseteq bitmap
  BY <1>7 DEF Sano, BloquesDeUno, SinMarcar
<1>9. UNION {BloquesDe(o) : o \in Existentes \ {a}} = 0..(off - 1)
  BY <1>7 DEF Sano, CompactaEnOrden
<1>10. BloqueLibre >= off
  <2>1. BloqueLibre \notin 0..(off - 1)
    BY <1>3, <1>8, <1>9
  <2>2. QED
    BY <2>1, <1>1, <1>3
<1>11. \A o \in Existentes \ {a} : BloquesDe(o) \cap Coloca = {}
  <2> SUFFICES ASSUME NEW o \in Existentes \ {a}, NEW b \in BloquesDe(o)
               PROVE  b \notin Coloca
    OBVIOUS
  <2>1. b \in 0..(off - 1)
    BY <1>9
  <2>2. QED
    BY <2>1, <1>1, <1>3, <1>4, <1>5, <1>10 DEF Tramo
<1>12. \A n, o \in Existentes \ {a} : ~Comparten(n, o)
  BY DEF Sano, BloquesDeUno
<1>13. QED
  BY <1>2, <1>3, <1>4, <1>6, <1>8, <1>11, <1>12 DEF c

(* The file that grows is given blocks of nobody: the compaction ends at   *)
(* rest.                                                                   *)
LEMMA ColocarPaso ==
    ASSUME IInv, ~Rota, ColocarAlFinal
    PROVE  IInv'
<1>1. /\ TypeOK /\ Sano /\ Compactando /\ tarea.faltan = {} /\ HayLibre /\ Coloca \subseteq Bloques
      /\ Grabar(BloqueLibre, 0, tarea.copia)
      /\ bitmap' = bitmap \cup Coloca /\ tarea' = Ninguno /\ pedido' = Ninguno /\ respuesta' = <<>>
      /\ UNCHANGED <<archivos, caida>>
  BY DEF IInv, ColocarAlFinal, Contesta
<1>2. PICK a : a = pedido.archivo
  OBVIOUS
<1> DEFINE c == CalcularBloques(pedido.tam)
           l == BloqueLibre
<1>3. /\ a \in Existentes /\ l \in Bloques /\ l \in Nat /\ c \in Nat \ {0} /\ l + c <= CantBloques
      /\ \A o \in Existentes \ {a} : BloquesDe(o) \cap Coloca = {} /\ BloquesDe(o) \subseteq bitmap
      /\ \A n, o \in Existentes \ {a} : ~Comparten(n, o)
  BY <1>1, <1>2, ColocaPropiedades
<1>4. /\ pedido.tam \in Nat /\ bitmap \subseteq Bloques /\ disco \in [Bytes -> Valores]
      /\ tarea.copia \in Seq(Valores)
  BY <1>1, Tipos
<1>5. ModificarMetadata(a, l, pedido.tam)
  BY <1>2 DEF ColocarAlFinal
<1>6. /\ Existentes' = Existentes
      /\ metadatas'[a].inicio = l /\ metadatas'[a].tam = pedido.tam
      /\ BloquesDe(a)' = Tramo(l, c)
      /\ \A o \in Existentes \ {a} : metadatas'[o] = metadatas[o]
      /\ \A o \in Existentes' : metadatas'[o] \in [inicio : Bloques, tam : Nat]
  BY <1>1, <1>3, <1>4, <1>5, MetadataPuesta
<1>7. Coloca = Tramo(l, c)
  BY DEF Coloca
<1>8. disco' \in [Bytes -> Valores]
  BY <1>1, <1>4, GrabarTipo
<1>9. \A o \in Existentes \ {a} : BloquesDe(o)' = BloquesDe(o)
  BY <1>6 DEF BloquesDe
<1>10. \A n, o \in Existentes' : ~Comparten(n, o)'
  <2> SUFFICES ASSUME NEW n \in Existentes, NEW o \in Existentes, n # o
               PROVE  BloquesDe(n)' \cap BloquesDe(o)' = {}
    BY <1>6 DEF Comparten
  <2>1. CASE n # a /\ o # a
    BY <2>1, <1>3, <1>9 DEF Comparten
  <2>2. CASE n = a
    BY <2>2, <1>3, <1>6, <1>7, <1>9
  <2>3. CASE o = a
    BY <2>3, <1>3, <1>6, <1>7, <1>9
  <2>4. QED
    BY <2>1, <2>2, <2>3
<1>11. \A n \in Existentes' : BloquesDe(n)' \subseteq bitmap'
  BY <1>1, <1>3, <1>6, <1>7, <1>9
<1>12. Caben'
  <2> SUFFICES ASSUME NEW n \in Existentes'
               PROVE  metadatas'[n].inicio + CalcularBloques(metadatas'[n].tam) <= CantBloques
    BY DEF Caben
  <2>1. CASE n = a
    BY <2>1, <1>3, <1>6
  <2>2. CASE n # a
    BY <2>2, <1>1, <1>6 DEF Sano, Caben
  <2>3. QED
    BY <2>1, <2>2
<1>13. /\ bitmap' \subseteq Bloques /\ Existentes' \subseteq Nombres
       /\ vacios' \subseteq Nombres \ Existentes' /\ madre' \subseteq Existentes' \cup vacios'
       /\ Existentes' \subseteq madre' /\ respuesta' \in Seq(Valores) /\ caida' = Ninguno
  BY <1>1, <1>4, <1>6 DEF TypeOK, Sano, archivos, Rota
<1>14. QED
  BY <1>1, <1>6, <1>8, <1>10, <1>11, <1>12, <1>13, TerminaBien
-----------------------------------------------------------------------------
(* A crash that may break the blocks of a file.                            *)
LEMMA RompeBien ==
    ASSUME TypeOK, NEW d \in {"borra", "achica", "compacta"}, Rompe(d), NEW a, a = pedido.archivo,
           bitmap' \subseteq Bloques, disco' \in [Bytes -> Valores],
           Existentes' = Existentes, vacios' = vacios, madre' \subseteq Existentes \cup vacios,
           \A n \in Existentes' : metadatas'[n] \in [inicio : Bloques, tam : Nat],
           \A n, o \in Existentes : Comparten(n, o)' => d = "compacta" /\ a \in {n, o},
           \A n \in Existentes : SinMarcar(n)' => d = "compacta" \/ n = a,
           d # "borra" => Existentes \subseteq madre'
    PROVE  IInv'
<1> DEFINE r == [donde |-> d, archivo |-> a]
<1>1. /\ pedido # Ninguno /\ tarea' = Ninguno /\ pedido' = Ninguno /\ respuesta' = <<>>
      /\ caida' = r
  BY DEF Rompe, Muere, Contesta
<1>2. r \in Caidas /\ r.donde = d /\ r.archivo = a
  BY <1>1, Tipos DEF Caidas
<1> HIDE DEF r
<1>3. r # Ninguno
  BY <1>2, DialFSAssumption
<1>4. TypeOK'
  <2>1. /\ Existentes' \subseteq Nombres /\ vacios' \subseteq Nombres \ Existentes'
        /\ respuesta' \in Seq(Valores)
    BY <1>1 DEF TypeOK
  <2>2. QED
    BY <1>1, <1>2, <2>1 DEF TypeOK
<1>5. CaidaDelimitada'
  BY <1>1, <1>2 DEF CaidaDelimitada
<1>6. QED
  BY <1>1, <1>3, <1>4, <1>5 DEF IInv, Rota

(* A crash that only clears bits of the file of the request.               *)
LEMMA RompeQuitando ==
    ASSUME TypeOK, Reposo, NEW d \in {"borra", "achica"}, Rompe(d), NEW a, a = pedido.archivo,
           a \in Existentes, UNCHANGED <<metadatas, vacios>>,
           bitmap' \subseteq bitmap, bitmap \ BloquesDe(a) \subseteq bitmap',
           disco' \in [Bytes -> Valores],
           madre' \subseteq madre, d # "borra" => madre' = madre
    PROVE  IInv'
<1>1. /\ Existentes' = Existentes
      /\ \A n \in Existentes' : metadatas'[n] \in [inicio : Bloques, tam : Nat]
      /\ \A n \in Existentes : BloquesDe(n)' = BloquesDe(n)
  BY DEF Existentes, TypeOK, BloquesDe
<1>2. \A n, o \in Existentes : ~Comparten(n, o)'
  BY <1>1 DEF Reposo, Comparten
<1>3. \A n \in Existentes \ {a} : BloquesDe(n) \subseteq bitmap
                                  /\ BloquesDe(n) \cap BloquesDe(a) = {}
  BY DEF Reposo, Comparten
<1>4. \A n \in Existentes : SinMarcar(n)' => n = a
  BY <1>1, <1>3 DEF SinMarcar
<1>5. /\ bitmap' \subseteq Bloques /\ madre' \subseteq Existentes \cup vacios
      /\ d # "borra" => Existentes \subseteq madre'
  BY DEF TypeOK, Reposo
<1>6. d \in {"borra", "achica", "compacta"}
  OBVIOUS
<1>7. QED
  BY <1>1, <1>2, <1>4, <1>5, <1>6, RompeBien

(* A crash in a request served in one step: the file of a DELETE or of a   *)
(* shrinking TRUNCATE may be left on free blocks, no other.                *)
LEMMA CaerEnReposo ==
    ASSUME IInv, ~Rota,
           MuereCreando \/ MuereBorrando \/ MuereAchicando \/ MuereAgrandando \/ MuereSinMas
             \/ MuereConVacio
    PROVE  IInv'
<1>1. TypeOK /\ Sano /\ PedidoValido /\ tarea = Ninguno /\ Reposo
  BY SanoEsReposo DEF IInv, Sano, MuereCreando, MuereBorrando, MuereAchicando, MuereAgrandando,
     MuereSinMas, MuereConVacio, Sirve, Compactando
<1>2. /\ bitmap \subseteq Bloques /\ disco \in [Bytes -> Valores] /\ Existentes \subseteq Nombres
      /\ madre \subseteq Existentes \cup vacios /\ vacios \subseteq Nombres \ Existentes
      /\ Existentes \subseteq madre
  BY <1>1 DEF TypeOK, Reposo
<1>3. /\ pedido # Ninguno /\ pedido' = Ninguno /\ tarea' = Ninguno /\ respuesta' \in Seq(Valores)
  <2>1. Muere
    BY DEF MuereCreando, MuereBorrando, MuereAchicando, MuereAgrandando, MuereSinMas,
       MuereConVacio, Rompe
  <2>2. <<>> \in Seq(Valores)
    OBVIOUS
  <2>3. QED
    BY <2>1, <2>2 DEF Muere, Contesta
<1>4. PICK a \in Nombres : a = pedido.archivo
  BY <1>1, <1>3, Tipos
<1>5. CASE MuereCreando
  <2>1. /\ HayLibre /\ a \notin Existentes \cup vacios /\ vacios' = vacios \cup {a}
        /\ \/ UNCHANGED <<bitmap, madre>>
           \/ /\ bitmap' = bitmap \cup {BloqueLibre}
              /\ madre' \in {madre, madre \cup {a}}
        /\ UNCHANGED <<disco, metadatas, caida>>
    BY <1>4, <1>5 DEF MuereCreando
  <2>2. BloqueLibre \in Bloques
    BY <1>2, <2>1, LibrePropiedades
  <2>3. /\ bitmap \subseteq bitmap' /\ bitmap' \subseteq Bloques
        /\ madre \subseteq madre' /\ vacios' \subseteq Nombres \ Existentes
        /\ madre' \subseteq Existentes \cup vacios'
    BY <1>2, <2>1, <2>2
  <2>4. QED
    BY <1>1, <1>2, <1>3, <2>1, <2>3, TerminaIgual
<1>6. CASE MuereBorrando
  <2> DEFINE ini == metadatas[a].inicio
             c == CalcularBloques(metadatas[a].tam)
  <2>1. /\ a \in Existentes /\ Rompe("borra") /\ UNCHANGED <<metadatas, vacios>>
        /\ \/ /\ \E k \in 1..c : bitmap' = bitmap \ Tramo(ini, k)
              /\ UNCHANGED <<disco, madre>>
           \/ /\ bitmap' = bitmap \ Tramo(ini, c)
              /\ disco' = [b \in Bytes |-> IF b \div TamBloque \in Tramo(ini, c) THEN 0
                                           ELSE disco[b]]
              /\ madre' \in {madre, {}, madre \ {a}}
    BY <1>4, <1>6 DEF MuereBorrando, Archivo
  <2>2. ini \in Nat /\ c \in Nat /\ c >= 1
    BY <1>1, <2>1, Tipos
  <2>3. BloquesDe(a) = Tramo(ini, c)
    BY DEF BloquesDe
  <2> HIDE DEF ini, c
  <2>4. disco' \in [Bytes -> Valores]
    <3>1. 0 \in Valores /\ \A b \in Bytes : disco[b] \in Valores
      BY <1>2, DialFSAssumption
    <3>2. QED
      BY <2>1, <1>2, <3>1
  <2>5. madre' \subseteq madre
    BY <2>1
  <2>6. bitmap' \subseteq bitmap /\ bitmap \ BloquesDe(a) \subseteq bitmap'
    <3>1. PICK k \in 1..c : bitmap' = bitmap \ Tramo(ini, k)
      BY <2>1, <2>2
    <3>2. Tramo(ini, k) \subseteq Tramo(ini, c)
      BY <2>2 DEF Tramo
    <3>3. QED
      BY <2>3, <3>1, <3>2
  <2>7. QED
    BY <1>1, <1>4, <2>1, <2>4, <2>5, <2>6, RompeQuitando
<1>7. CASE MuereAchicando
  <2> DEFINE ini == metadatas[a].inicio
             c == CalcularBloques(metadatas[a].tam)
             d == CalcularBloques(pedido.tam)
  <2>1. /\ a \in Existentes /\ pedido.tam \in Nat
        /\ \E k \in 1..(c - d) : bitmap' = bitmap \ Tramo(ini + d, k)
        /\ Rompe("achica") /\ UNCHANGED <<disco, metadatas, archivos>>
    BY <1>1, <1>3, <1>4, <1>7, Tipos DEF MuereAchicando, Sirve, Archivo, Tiene, PedidoValido
  <2>2. ini \in Nat /\ c \in Nat /\ c >= 1 /\ d \in Nat
    BY <1>1, <2>1, Tipos, CalculoBloques
  <2>3. BloquesDe(a) = Tramo(ini, c)
    BY DEF BloquesDe
  <2> HIDE DEF ini, c, d
  <2>4. bitmap' \subseteq bitmap /\ bitmap \ BloquesDe(a) \subseteq bitmap'
    <3>1. PICK k \in 1..(c - d) : bitmap' = bitmap \ Tramo(ini + d, k)
      BY <2>1
    <3>2. Tramo(ini + d, k) \subseteq Tramo(ini, c)
      BY <2>2 DEF Tramo
    <3>3. QED
      BY <2>3, <3>1, <3>2
  <2>5. QED
    BY <1>1, <1>2, <1>4, <2>1, <2>4, RompeQuitando DEF archivos
<1>8. CASE MuereAgrandando
  <2> DEFINE ini == metadatas[a].inicio
             c == CalcularBloques(metadatas[a].tam)
             r == pedido.tam - c * TamBloque
             e == CalcularBloques(r)
             libres == EspacioContiguo(ini + c)
  <2>1. /\ a \in Existentes /\ pedido.tam \in Nat
        /\ ~(pedido.tam <= c * TamBloque) /\ libres * TamBloque >= r
        /\ \E k \in 1..e : bitmap' = bitmap \cup Tramo(ini + c, k)
        /\ UNCHANGED <<disco, metadatas, archivos, caida>>
    BY <1>1, <1>3, <1>4, <1>8, Tipos DEF MuereAgrandando, Sirve, Alcanza, HayContiguo, Tiene,
       Archivo, PedidoValido
  <2>2. /\ ini \in Nat /\ c \in Nat /\ c >= 1 /\ ini + c <= CantBloques
        /\ TamBloque \in Nat \ {0} /\ CantBloques \in Nat
    BY <1>1, <2>1, Tipos, DialFSAssumption DEF Reposo, Caben
  <2>3. c * TamBloque \in Nat /\ r \in Nat /\ r > 0
    <3>1. c * TamBloque \in Nat
      BY <2>2, OrdenProducto
    <3>2. QED
      BY <2>1, <3>1
  <2>4. libres \in Nat /\ ini + c + libres <= CantBloques
    BY <1>2, <2>2, ini + c \in Nat, ContiguoPropiedades
  <2>5. e \in Nat /\ e <= libres
    <3>1. e \in Nat
      BY <2>3, CalculoBloques
    <3>2. libres # 0
      BY <2>1, <2>2, <2>3
    <3>3. QED
      BY <2>1, <2>3, <2>4, <3>1, <3>2, CalculoMinimo
  <2> HIDE DEF ini, c, e, libres
  <2>6. bitmap \subseteq bitmap' /\ bitmap' \subseteq Bloques
    <3>1. PICK k \in 1..e : bitmap' = bitmap \cup Tramo(ini + c, k)
      BY <2>1
    <3>2. Tramo(ini + c, k) \subseteq Bloques
      BY <2>2, <2>4, <2>5 DEF Tramo, Bloques
    <3>3. QED
      BY <1>2, <3>1, <3>2
  <2>7. QED
    BY <1>1, <1>2, <1>3, <2>1, <2>6, TerminaIgual DEF archivos
<1>9. CASE MuereSinMas
  <2>1. /\ UNCHANGED <<bitmap, metadatas, archivos, caida>>
        /\ \/ UNCHANGED disco
           \/ \E k \in DOMAIN pedido.dato :
                 Grabar(Archivo.inicio, pedido.puntero, SubSeq(pedido.dato, 1, k))
    BY <1>9 DEF MuereSinMas
  <2>2. disco' \in [Bytes -> Valores]
    <3>1. CASE UNCHANGED disco
      BY <3>1, <1>2
    <3>2. ASSUME NEW k \in DOMAIN pedido.dato,
                 Grabar(Archivo.inicio, pedido.puntero, SubSeq(pedido.dato, 1, k))
          PROVE  disco' \in [Bytes -> Valores]
      <4>1. pedido.dato \in Seq(Valores)
        BY <1>1, <1>3, Tipos
      <4>2. k \in Int /\ \A i \in 1..k : pedido.dato[i] \in Valores
        BY <4>1
      <4>3. SubSeq(pedido.dato, 1, k) \in Seq(Valores)
        BY <4>2, 1 \in Int, SubSeqProperties
      <4>4. QED
        BY <1>2, <3>2, <4>3, GrabarTipo
    <3>3. QED
      BY <2>1, <3>1, <3>2
  <2>3. QED
    BY <1>1, <1>2, <1>3, <2>1, <2>2, TerminaIgual DEF archivos
<1>10. CASE MuereConVacio
  BY <1>1, <1>2, <1>3, <1>10, TerminaIgual DEF MuereConVacio, archivos
<1>11. QED
  BY <1>5, <1>6, <1>7, <1>8, <1>9, <1>10

(* In a compaction two files that share blocks are the one that grows and  *)
(* another.                                                                *)
LEMMA CaerMoviendo ==
    ASSUME IInv, ~Rota, MuereMoviendo
    PROVE  IInv'
<1>1. /\ TypeOK /\ Sano /\ Compactando /\ Rompe("compacta") /\ UNCHANGED <<metadatas, archivos>>
  BY DEF IInv, MuereMoviendo
<1>2. PICK a : a = pedido.archivo
  OBVIOUS
<1>3. bitmap \subseteq Bloques /\ disco \in [Bytes -> Valores] /\ tarea.offset \in Nat
  BY <1>1, Tipos
<1>4. bitmap' \subseteq Bloques /\ disco' \in [Bytes -> Valores]
  <2>1. CASE UNCHANGED <<bitmap, disco>>
    BY <2>1, <1>3
  <2>2. CASE ~UNCHANGED <<bitmap, disco>>
    <3> DEFINE off == tarea.offset
               ini(n) == metadatas[n].inicio
               tam(n) == metadatas[n].tam
               cant(n) == CalcularBloques(tam(n))
    <3>1. PICK n \in tarea.faltan :
             /\ EsElSiguiente(n) /\ off # ini(n)
             /\ \E orden \in Copias, k \in 0..tam(n) :
                  /\ Grabar(off, 0, SubSeq(Copiado(off, ini(n), tam(n), orden), 1, k))
                  /\ \/ UNCHANGED bitmap
                     \/ k = tam(n) /\ \E i \in 1..(cant(n) + off) :
                                        bitmap' = bitmap \ Tramo(ini(n), i)
                     \/ k = tam(n) /\ \E i \in 1..cant(n) :
                            bitmap' = (bitmap \ Tramo(ini(n), cant(n) + off)) \cup Tramo(off, i)
      BY <2>2 DEF MuereMoviendo
    <3>2. PICK orden \in Copias, k \in 0..tam(n) :
            /\ Grabar(off, 0, SubSeq(Copiado(off, ini(n), tam(n), orden), 1, k))
            /\ \/ bitmap' \subseteq bitmap
               \/ \E i \in 1..cant(n) : bitmap' \subseteq bitmap \cup Tramo(off, i)
      BY <3>1
    <3>3. /\ n \in Existentes /\ off <= ini(n) /\ ini(n) + cant(n) <= CantBloques
          /\ ini(n) * TamBloque \in Nat
          /\ \A i \in 1..tam(n) : ini(n) * TamBloque + i - 1 \in Bytes
      BY <1>1, <3>1, ElSiguiente
    <3>4. /\ ini(n) \in Nat /\ cant(n) \in Nat /\ tam(n) \in Nat /\ CantBloques \in Nat
      BY <1>1, <3>3, Tipos, DialFSAssumption
    <3> HIDE DEF off, ini, tam, cant
    <3>5. off \in Nat /\ off < ini(n)
      BY <1>3, <3>1, <3>3, <3>4 DEF off
    <3>6. /\ Copiado(off, ini(n), tam(n), orden) \in Seq(Valores)
          /\ Len(Copiado(off, ini(n), tam(n), orden)) = tam(n)
      BY <1>3, <3>3, <3>4, <3>5, CopiadoTipo
    <3>7. SubSeq(Copiado(off, ini(n), tam(n), orden), 1, k) \in Seq(Valores)
      <4> DEFINE s == Copiado(off, ini(n), tam(n), orden)
      <4>1. s \in Seq(Valores) /\ Len(s) = tam(n)
        BY <3>6
      <4> HIDE DEF s
      <4>2. k \in Int /\ \A i \in 1..k : s[i] \in Valores
        BY <3>4, <4>1
      <4>3. SubSeq(s, 1, k) \in Seq(Valores)
        BY <4>2, 1 \in Int, SubSeqProperties
      <4>4. QED
        BY <4>3 DEF s
    <3>8. disco' \in [Bytes -> Valores]
      BY <1>3, <3>2, <3>7, GrabarTipo
    <3>9. ASSUME NEW i \in 1..cant(n)
          PROVE  Tramo(off, i) \subseteq Bloques
      BY <3>3, <3>4, <3>5 DEF Tramo, Bloques
    <3>10. QED
      BY <1>3, <3>2, <3>8, <3>9
  <2>3. QED
    BY <2>1, <2>2
<1>5. /\ Existentes' = Existentes
      /\ \A n \in Existentes' : metadatas'[n] \in [inicio : Bloques, tam : Nat]
      /\ \A n \in Existentes : BloquesDe(n)' = BloquesDe(n)
      /\ vacios' = vacios /\ madre' \subseteq Existentes \cup vacios /\ Existentes \subseteq madre'
  BY <1>1 DEF Existentes, TypeOK, BloquesDe, archivos, Sano
<1>6. ASSUME NEW n \in Existentes, NEW o \in Existentes, Comparten(n, o)'
      PROVE  a \in {n, o}
  BY <1>1, <1>2, <1>5, <1>6 DEF Sano, BloquesDeUno, Comparten
<1>7. QED
  BY <1>1, <1>2, <1>4, <1>5, <1>6, RompeBien

(* A crash while the file that grows is put back: only that file may share *)
(* blocks.                                                                 *)
LEMMA CaerColocando ==
    ASSUME IInv, ~Rota, MuereColocando
    PROVE  IInv'
<1>1. /\ TypeOK /\ Sano /\ Compactando /\ tarea.faltan = {} /\ HayLibre /\ Coloca \subseteq Bloques
      /\ Grabar(BloqueLibre, 0, tarea.copia)
      /\ Rompe("compacta") /\ UNCHANGED archivos
  BY DEF IInv, MuereColocando
<1>2. PICK a : a = pedido.archivo
  OBVIOUS
<1> DEFINE c == CalcularBloques(pedido.tam)
           l == BloqueLibre
<1>3. /\ a \in Existentes /\ l \in Bloques /\ l \in Nat /\ c \in Nat \ {0} /\ l + c <= CantBloques
      /\ \A n, o \in Existentes \ {a} : ~Comparten(n, o)
  BY <1>1, <1>2, ColocaPropiedades
<1>4. /\ pedido.tam \in Nat /\ bitmap \subseteq Bloques /\ disco \in [Bytes -> Valores]
      /\ tarea.copia \in Seq(Valores)
  BY <1>1, Tipos
<1>5. \/ UNCHANGED <<bitmap, metadatas>>
      \/ /\ ModificarMetadata(a, l, pedido.tam)
         /\ \E k \in 0..(Cardinality(Coloca) - 1) : bitmap' = bitmap \cup Tramo(l, k)
  BY <1>2 DEF MuereColocando
<1>6. Cardinality(Coloca) = c
  <2>1. Coloca = l..(l + c - 1)
    BY DEF Coloca, Tramo
  <2> HIDE DEF l, c
  <2>2. l \in Int /\ l + c - 1 \in Int /\ ~(l > l + c - 1)
    BY <1>3
  <2>3. Cardinality(l..(l + c - 1)) = (l + c - 1) - l + 1
    BY <2>2, FS_Interval
  <2>4. QED
    BY <1>3, <2>1, <2>3
<1>7. /\ Existentes' = Existentes
      /\ \A o \in Existentes \ {a} : metadatas'[o] = metadatas[o]
      /\ \A o \in Existentes' : metadatas'[o] \in [inicio : Bloques, tam : Nat]
  <2>1. CASE UNCHANGED metadatas
    BY <1>1, <2>1 DEF Existentes, TypeOK
  <2>2. CASE ModificarMetadata(a, l, pedido.tam)
    BY <1>1, <1>3, <1>4, <2>2, MetadataPuesta
  <2>3. QED
    BY <1>5, <2>1, <2>2
<1>8. bitmap' \subseteq Bloques
  <2> HIDE DEF l, c
  <2>1. ASSUME NEW k \in 0..(c - 1)
        PROVE  Tramo(l, k) \subseteq Bloques
    BY <1>3, DialFSAssumption DEF Tramo, Bloques
  <2>2. QED
    BY <1>4, <1>5, <1>6, <2>1
<1>9. disco' \in [Bytes -> Valores]
  BY <1>1, <1>4, GrabarTipo
<1>10. \A o \in Existentes \ {a} : BloquesDe(o)' = BloquesDe(o)
  BY <1>7 DEF BloquesDe
<1>11. ASSUME NEW n \in Existentes, NEW o \in Existentes, Comparten(n, o)'
       PROVE  a \in {n, o}
  BY <1>3, <1>10, <1>11 DEF Comparten
<1>12. vacios' = vacios /\ madre' \subseteq Existentes \cup vacios /\ Existentes \subseteq madre'
  BY <1>1 DEF TypeOK, archivos, Sano
<1>13. QED
  BY <1>1, <1>2, <1>7, <1>8, <1>9, <1>11, <1>12, RompeBien
-----------------------------------------------------------------------------
(* The disk starts empty.                                                  *)
LEMMA IInvInicial ==
    ASSUME Init
    PROVE  IInv
<1>1. /\ bitmap = {} /\ disco = [b \in Bytes |-> 0] /\ metadatas = << >>
      /\ madre = {} /\ vacios = {} /\ caida = Ninguno
      /\ pedido = Ninguno /\ respuesta = <<>> /\ tarea = Ninguno
  BY DEF Init
<1>2. Existentes = {}
  BY <1>1 DEF Existentes
<1>3. disco \in [Bytes -> Valores] /\ <<>> \in Seq(Valores)
  BY <1>1, DialFSAssumption
<1>4. TypeOK
  BY <1>1, <1>2, <1>3 DEF TypeOK
<1>5. Reposo /\ PedidoValido
  BY <1>1, <1>2 DEF Reposo, Caben, PedidoValido
<1>6. Sano
  BY <1>1, <1>5, ReposoEsSano
<1>7. QED
  BY <1>1, <1>4, <1>6 DEF IInv, Rota

(* Every step keeps IInv.                                                  *)
LEMMA IInvPaso ==
    ASSUME IInv, [Next]_vars
    PROVE  IInv'
<1>1. CASE UNCHANGED vars
  <2>1. UNCHANGED <<bitmap, disco, metadatas, madre, vacios, pedido, respuesta, tarea, caida>>
    BY <1>1 DEF vars, archivos
  <2>2. TypeOK => TypeOK'
    BY <2>1 DEF TypeOK, Existentes
  <2>3. Sano => Sano'
    <3>1. (PedidoValido => PedidoValido') /\ (Caben => Caben')
      BY <2>1 DEF PedidoValido, Caben, Existentes
    <3>2. /\ Existentes' = Existentes /\ EnSuLugar' = EnSuLugar /\ Compactando' = Compactando
          /\ \A n : BloquesDe(n)' = BloquesDe(n)
      BY <2>1 DEF Compactando, EnSuLugar, Existentes, BloquesDe
    <3>3. (BloquesDeUno => BloquesDeUno') /\ (CompactaEnOrden => CompactaEnOrden')
      BY <2>1, <3>2 DEF BloquesDeUno, CompactaEnOrden, Comparten, SinMarcar, Rota
    <3>4. EnCompactacion => EnCompactacion'
      BY <2>1, <3>2 DEF EnCompactacion
    <3>5. QED
      BY <2>1, <3>1, <3>2, <3>3, <3>4 DEF Sano
  <2>4. CaidaDelimitada => CaidaDelimitada'
    BY <2>1 DEF CaidaDelimitada, Rota, Existentes, Comparten, SinMarcar, BloquesDe
  <2>5. QED
    BY <2>1, <2>2, <2>3, <2>4 DEF IInv, Rota
<1>2. CASE Next
  <2>1. ~Rota
    BY <1>2 DEF Next
  <2>2. CASE Pedir
    BY <2>1, <2>2, PedirPaso
  <2>3. CASE Crear \/ Borrar \/ NoHaceNada \/ Escribir \/ Leer \/ Achicar \/ Agrandar
    BY <2>1, <2>3, ServirEnReposo
  <2>4. CASE IniciarCompactacion
    BY <2>1, <2>4, IniciarPaso
  <2>5. CASE MoverArchivo
    BY <2>1, <2>5, MoverPaso
  <2>6. CASE ColocarAlFinal
    BY <2>1, <2>6, ColocarPaso
  <2>7. CASE MuereCreando \/ MuereBorrando \/ MuereAchicando \/ MuereAgrandando \/ MuereSinMas
               \/ MuereConVacio
    BY <2>1, <2>7, CaerEnReposo
  <2>8. CASE MuereMoviendo
    BY <2>1, <2>8, CaerMoviendo
  <2>9. CASE MuereColocando
    BY <2>1, <2>9, CaerColocando
  <2>10. QED
    BY <1>2, <2>2, <2>3, <2>4, <2>5, <2>6, <2>7, <2>8, <2>9 DEF Next, Servir, Caer
<1>3. QED
  BY <1>1, <1>2

(* The inductive invariant holds in every reachable state.                 *)
THEOREM IInvSiempre == Spec => []IInv
<1>1. Init => IInv
  BY IInvInicial
<1>2. IInv /\ [Next]_vars => IInv'
  BY IInvPaso
<1>3. QED
  BY <1>1, <1>2, PTL DEF Spec

(* Type correctness of the file system: every file lies on the disk,       *)
(* whatever programs ask and wherever the process dies.                    *)
THEOREM TipoCorrecto == Spec => []TypeOK
<1>1. IInv => TypeOK
  BY DEF IInv
<1>2. QED
  BY <1>1, IInvSiempre, PTL

(* No two files share a block and every block of a file is marked, until a *)
(* crash breaks one (DialFS.c).                                            *)
THEOREM BloquesDeUnoSiempre == Spec => []BloquesDeUno
<1>1. IInv => BloquesDeUno
  BY DEF IInv, Sano, BloquesDeUno
<1>2. QED
  BY <1>1, IInvSiempre, PTL

(* During the compaction the moved files are packed in front of those yet  *)
(* to move (compactar).                                                    *)
THEOREM CompactaEnOrdenSiempre == Spec => []CompactaEnOrden
<1>1. IInv => CompactaEnOrden
  BY DEF IInv, Sano, CompactaEnOrden, Compactando
<1>2. QED
  BY <1>1, IInvSiempre, PTL

(* A crash damages only the file of its request, or the one a compaction   *)
(* was making room for.                                                    *)
THEOREM CaidaDelimitadaSiempre == Spec => []CaidaDelimitada
<1>1. IInv => CaidaDelimitada
  BY DEF IInv, CaidaDelimitada
<1>2. QED
  BY <1>1, IInvSiempre, PTL

(* A request served in one step marks and clears exactly the blocks it     *)
(* gives and takes: only a compaction or a crash leaves bits of nobody.    *)
THEOREM SoloCompactarPierdeSiempre == Spec => SoloCompactarPierde
<1> DEFINE P == Servir /\ tarea = Ninguno => Sobrantes' = Sobrantes
<1>1. ASSUME IInv, [Next]_vars
      PROVE  [P]_vars
  <2>1. SUFFICES ASSUME Next, Servir, tarea = Ninguno
                 PROVE  Sobrantes' = Sobrantes
    BY <1>1
  <2>2. TypeOK /\ PedidoValido /\ Reposo
    BY <1>1, <2>1, SanoEsReposo DEF IInv, Sano, Next
  <2>3. CASE Crear \/ Borrar \/ Achicar \/ Agrandar
    <3>1. pedido # Ninguno
      BY <2>3 DEF Crear, Borrar, Achicar, Agrandar, Sirve
    <3>2. PICK a \in Nombres : a = pedido.archivo
      BY <2>2, <3>1, Tipos
    <3>3. UnCambio(a) /\ Existentes' \subseteq Existentes \cup {a}
      <4>1. CASE Crear
        BY <2>2, <3>2, <4>1, CrearCambia
      <4>2. CASE Borrar
        BY <2>2, <3>2, <4>2, BorrarCambia
      <4>3. CASE Achicar
        BY <2>2, <3>2, <4>3, AchicarCambia
      <4>4. CASE Agrandar
        BY <2>2, <3>2, <4>4, AgrandarCambia
      <4>5. QED
        BY <2>3, <4>1, <4>2, <4>3, <4>4
    <3>4. Existentes' \subseteq Nombres
      BY <2>2, <3>3 DEF TypeOK
    <3>5. QED
      BY <2>2, <3>3, <3>4, CambioConserva
  <2>4. CASE NoHaceNada \/ Escribir \/ Leer \/ IniciarCompactacion
    <3>1. UNCHANGED <<bitmap, metadatas>>
      BY <2>4 DEF NoHaceNada, Escribir, Leer, IniciarCompactacion
    <3>2. QED
      BY <3>1 DEF Sobrantes, Existentes, BloquesDe
  <2>5. ~MoverArchivo /\ ~ColocarAlFinal
    BY <2>1 DEF MoverArchivo, ColocarAlFinal, Compactando
  <2>6. QED
    BY <2>1, <2>3, <2>4, <2>5 DEF Servir
<1>2. QED
  BY <1>1, IInvSiempre, PTL DEF Spec, SoloCompactarPierde
-----------------------------------------------------------------------------
(* The bytes of a file, on a disk d.                                       *)
Lectura(d, inicio, tam) == [i \in 1..tam |-> d[inicio * TamBloque + 0 + i - 1]]

(* A read is the bytes of its area, one by one.                            *)
LEMMA LecturaPropiedades ==
    ASSUME NEW d \in [Bytes -> Valores], NEW inicio \in Nat, NEW tam \in Nat,
           inicio + CalcularBloques(tam) <= CantBloques
    PROVE  /\ Lectura(d, inicio, tam) \in Seq(Valores)
           /\ Len(Lectura(d, inicio, tam)) = tam
           /\ DOMAIN Lectura(d, inicio, tam) = 1..tam
           /\ \A i \in 1..tam : /\ inicio * TamBloque + i - 1 \in Bytes
                                /\ Lectura(d, inicio, tam)[i] = d[inicio * TamBloque + i - 1]
<1>1. inicio * TamBloque \in Nat /\ \A i \in 1..tam : inicio * TamBloque + i - 1 \in Bytes
  BY BytesEnDisco
<1>2. \A i \in 1..tam : inicio * TamBloque + 0 + i - 1 = inicio * TamBloque + i - 1
  BY <1>1
<1>3. Lectura(d, inicio, tam) \in [1..tam -> Valores]
  BY <1>1, <1>2 DEF Lectura
<1>4. /\ Lectura(d, inicio, tam) \in Seq(Valores)
      /\ Len(Lectura(d, inicio, tam)) = tam
      /\ DOMAIN Lectura(d, inicio, tam) = 1..tam
  BY <1>3, FuncionSecuencia
<1>5. \A i \in 1..tam : Lectura(d, inicio, tam)[i] = d[inicio * TamBloque + i - 1]
  BY <1>2 DEF Lectura
<1>6. QED
  BY <1>1, <1>4, <1>5

(* Runs of blocks that are apart are apart byte by byte.                   *)
LEMMA BytesSeparados ==
    ASSUME NEW a \in Nat, NEW m \in Nat \ {0}, NEW b \in Nat, NEW n \in Nat \ {0},
           Tramo(a, m) \cap Tramo(b, n) = {}
    PROVE  /\ a * TamBloque \in Nat /\ m * TamBloque \in Nat
           /\ b * TamBloque \in Nat /\ n * TamBloque \in Nat
           /\ \/ a * TamBloque + m * TamBloque <= b * TamBloque
              \/ b * TamBloque + n * TamBloque <= a * TamBloque
<1>1. TamBloque \in Nat \ {0}
  BY DialFSAssumption
<1>2. a + m <= b \/ b + n <= a
  BY TramosSeparados
<1>3. /\ a * TamBloque \in Nat /\ m * TamBloque \in Nat
      /\ b * TamBloque \in Nat /\ n * TamBloque \in Nat
      /\ (a + m) * TamBloque = a * TamBloque + m * TamBloque
      /\ (b + n) * TamBloque = b * TamBloque + n * TamBloque
  BY <1>1, OrdenProducto
<1>4. CASE a + m <= b
  <2>1. (a + m) * TamBloque <= b * TamBloque
    BY <1>1, <1>4, a + m \in Nat, OrdenProducto
  <2>2. QED
    BY <1>3, <2>1
<1>5. CASE b + n <= a
  <2>1. (b + n) * TamBloque <= a * TamBloque
    BY <1>1, <1>5, b + n \in Nat, OrdenProducto
  <2>2. QED
    BY <1>3, <2>1
<1>6. QED
  BY <1>2, <1>4, <1>5

(* Writing inside a run of blocks changes no file outside it.              *)
LEMMA GrabarAparte ==
    ASSUME disco \in [Bytes -> Valores], NEW l \in Nat, NEW m \in Nat \ {0},
           NEW desde \in Nat, NEW dato \in Seq(Valores), desde + Len(dato) <= m * TamBloque,
           Grabar(l, desde, dato),
           NEW inicio \in Nat, NEW tam \in Nat, inicio + CalcularBloques(tam) <= CantBloques,
           Tramo(l, m) \cap Tramo(inicio, CalcularBloques(tam)) = {}
    PROVE  Lectura(disco', inicio, tam) = Lectura(disco, inicio, tam)
<1> DEFINE c == CalcularBloques(tam)
           x == l * TamBloque
           y == inicio * TamBloque
<1>1. c \in Nat \ {0} /\ tam <= c * TamBloque
  BY CalculoBloques
<1>2. /\ x \in Nat /\ m * TamBloque \in Nat /\ y \in Nat /\ c * TamBloque \in Nat
      /\ x + m * TamBloque <= y \/ y + c * TamBloque <= x
  BY <1>1, BytesSeparados
<1>3. Len(dato) \in Nat /\ DOMAIN dato = 1..Len(dato)
  BY LenProperties
<1>4. \A i \in 1..tam : y + i - 1 \in Bytes /\ y + 0 + i - 1 = y + i - 1
  BY <1>2, BytesEnDisco
<1>5. disco' = [b \in Bytes |-> LET j == b - (x + desde) + 1
                                IN IF j \in DOMAIN dato THEN dato[j] ELSE disco[b]]
  BY DEF Grabar
<1> HIDE DEF c, x, y
<1>6. ASSUME NEW i \in 1..tam
      PROVE  disco'[y + 0 + i - 1] = disco[y + 0 + i - 1]
  <2> DEFINE b == y + i - 1
  <2>1. b \in Bytes /\ y + 0 + i - 1 = b
    BY <1>4
  <2>2. b - (x + desde) + 1 \notin 1..Len(dato)
    BY <1>1, <1>2, <1>3
  <2> HIDE DEF b
  <2>3. disco'[b] = disco[b]
    BY <2>1, <2>2, <1>3, <1>5
  <2>4. QED
    BY <2>1, <2>3
<1>7. QED
  BY <1>6 DEF Lectura, y

(* Writing in a file.                                                      *)
LEMMA GrabarDentro ==
    ASSUME disco \in [Bytes -> Valores], NEW inicio \in Nat, NEW desde \in Nat,
           NEW dato \in Seq(Valores), Grabar(inicio, desde, dato),
           NEW tam \in Nat, inicio + CalcularBloques(tam) <= CantBloques,
           NEW i \in 1..tam
    PROVE  Lectura(disco', inicio, tam)[i]
             = IF i - desde \in DOMAIN dato THEN dato[i - desde]
               ELSE Lectura(disco, inicio, tam)[i]
<1> DEFINE x == inicio * TamBloque
           b == x + i - 1
<1>1. x \in Nat /\ b \in Bytes /\ x + 0 + i - 1 = b
  BY BytesEnDisco
<1>2. disco' = [p \in Bytes |-> LET j == p - (x + desde) + 1
                                IN IF j \in DOMAIN dato THEN dato[j] ELSE disco[p]]
  BY DEF Grabar
<1>3. b - (x + desde) + 1 = i - desde
  BY <1>1
<1>4. /\ Lectura(disco', inicio, tam)[i] = disco'[b]
      /\ Lectura(disco, inicio, tam)[i] = disco[b]
  BY <1>1 DEF Lectura
<1> HIDE DEF x, b
<1>5. disco'[b] = IF i - desde \in DOMAIN dato THEN dato[i - desde] ELSE disco[b]
  BY <1>1, <1>2, <1>3
<1>6. QED
  BY <1>4, <1>5

(* Clearing a run of blocks changes no file outside it.                    *)
LEMMA LimpiarAparte ==
    ASSUME disco \in [Bytes -> Valores], NEW L,
           disco' = [b \in Bytes |-> IF b \div TamBloque \in L THEN 0 ELSE disco[b]],
           NEW inicio \in Nat, NEW tam \in Nat, inicio + CalcularBloques(tam) <= CantBloques,
           L \cap Tramo(inicio, CalcularBloques(tam)) = {}
    PROVE  Lectura(disco', inicio, tam) = Lectura(disco, inicio, tam)
<1> DEFINE c == CalcularBloques(tam)
           y == inicio * TamBloque
<1>1. TamBloque \in Nat \ {0} /\ c \in Nat \ {0} /\ tam <= c * TamBloque
  BY CalculoBloques, DialFSAssumption
<1>2. /\ y \in Nat /\ y + tam <= (inicio + c) * TamBloque
      /\ \A i \in 1..tam : y + i - 1 \in Bytes /\ y + 0 + i - 1 = y + i - 1
  BY BytesEnDisco
<1> HIDE DEF c
<1>3. ASSUME NEW i \in 1..tam
      PROVE  disco'[y + 0 + i - 1] = disco[y + 0 + i - 1]
  <2> DEFINE b == y + i - 1
             q == b \div TamBloque
  <2>1. b \in Bytes /\ y + 0 + i - 1 = b /\ b \in Nat /\ y <= b /\ b < y + tam
    BY <1>2
  <2> HIDE DEF b
  <2>2. q \in Nat /\ q * TamBloque <= b /\ b < q * TamBloque + TamBloque
    BY <1>1, <2>1, Cociente
  <2> HIDE DEF q
  <2>3. /\ q * TamBloque \in Nat
        /\ (q + 1) * TamBloque = q * TamBloque + 1 * TamBloque /\ 1 * TamBloque = TamBloque
    BY <1>1, <2>2, 1 \in Nat, OrdenProducto
  <2>4. inicio * TamBloque < (q + 1) * TamBloque /\ q * TamBloque < (inicio + c) * TamBloque
    <3>1. (inicio + c) * TamBloque \in Nat
      BY <1>1, inicio + c \in Nat, OrdenProducto
    <3>2. QED
      BY <3>1, <1>1, <1>2, <2>1, <2>2, <2>3
  <2>5. inicio < q + 1 /\ q < inicio + c
    BY <1>1, <2>2, <2>4, q + 1 \in Nat, inicio + c \in Nat, OrdenProducto
  <2>6. q \in Tramo(inicio, c)
    BY <1>1, <2>2, <2>5 DEF Tramo
  <2>7. b \div TamBloque \notin L
    BY <2>6 DEF q, c
  <2>8. disco'[b] = disco[b]
    BY <2>1, <2>7
  <2>9. QED
    BY <2>1, <2>8
<1>4. QED
  BY <1>3 DEF Lectura
-----------------------------------------------------------------------------
(* What the programs see of each file.                                     *)
LEMMA ContenidoDe ==
    ASSUME NEW n \in Nombres
    PROVE  /\ n \notin Existentes => Contenido[n] = <<>>
           /\ n \in Existentes /\ Compactando /\ n = pedido.archivo => Contenido[n] = tarea.copia
           /\ n \in Existentes /\ ~(Compactando /\ n = pedido.archivo)
                => Contenido[n] = Lectura(disco, metadatas[n].inicio, metadatas[n].tam)
           /\ n \notin Existentes' => Contenido'[n] = <<>>
           /\ n \in Existentes' /\ Compactando' /\ n = pedido'.archivo
                => Contenido'[n] = tarea'.copia
           /\ n \in Existentes' /\ ~(Compactando' /\ n = pedido'.archivo)
                => Contenido'[n] = Lectura(disco', metadatas'[n].inicio, metadatas'[n].tam)
BY DEF Contenido, LeerDisco, Lectura

(* A file whose bytes and metadata stay keeps its contents.                *)
LEMMA ContenidoSigue ==
    ASSUME NEW n \in Nombres, n \in Existentes' <=> n \in Existentes,
           ~(Compactando /\ n = pedido.archivo), ~(Compactando' /\ n = pedido'.archivo),
           n \in Existentes =>
              /\ metadatas'[n] = metadatas[n]
              /\ Lectura(disco', metadatas[n].inicio, metadatas[n].tam)
                   = Lectura(disco, metadatas[n].inicio, metadatas[n].tam)
    PROVE  Contenido'[n] = Contenido[n]
BY ContenidoDe

(* If every file keeps its bytes and its metadata, the abstract contents   *)
(* stay.                                                                   *)
LEMMA ContenidoIgual ==
    ASSUME \A n \in Nombres : Contenido'[n] = Contenido[n]
    PROVE  Contenido' = Contenido
<1> DEFINE F(n) == IF n \notin Existentes THEN <<>>
                   ELSE IF Compactando /\ n = pedido.archivo THEN tarea.copia
                   ELSE LeerDisco(metadatas[n].inicio, 0, metadatas[n].tam)
           G(n) == F(n)'
<1>1. Contenido = [n \in Nombres |-> F(n)] /\ Contenido' = [n \in Nombres |-> G(n)]
  BY DEF Contenido
<1> HIDE DEF F, G
<1>2. QED
  BY <1>1

(* If only one file changes, so do the abstract contents.                  *)
LEMMA ContenidoCambia ==
    ASSUME NEW a \in Nombres, NEW v, Contenido'[a] = v,
           \A n \in Nombres \ {a} : Contenido'[n] = Contenido[n]
    PROVE  Contenido' = [Contenido EXCEPT ![a] = v]
<1> DEFINE F(n) == IF n \notin Existentes THEN <<>>
                   ELSE IF Compactando /\ n = pedido.archivo THEN tarea.copia
                   ELSE LeerDisco(metadatas[n].inicio, 0, metadatas[n].tam)
           G(n) == F(n)'
<1>1. Contenido = [n \in Nombres |-> F(n)] /\ Contenido' = [n \in Nombres |-> G(n)]
  BY DEF Contenido
<1> HIDE DEF F, G
<1>2. QED
  BY <1>1

(* A request starts with no compaction, of a file that exists.             *)
LEMMA PedirAlto ==
    ASSUME IInv, ~Rota, Pedir
    PROVE  Alto!Pide
<1>1. /\ pedido = Ninguno /\ respuesta' = <<>>
      /\ UNCHANGED <<bitmap, disco, metadatas, archivos, tarea, caida>>
  BY DEF Pedir, PideAlta, PideBaja, PideTamanio, PideEscritura, PideLectura, Pide
<1>2. tarea = Ninguno /\ tarea' = Ninguno
  BY <1>1 DEF IInv, TypeOK
<1>3. pedido' # Ninguno
  BY PedirBien, DialFSAssumption
<1>4. Existentes' = Existentes /\ ~Compactando /\ ~Compactando'
  BY <1>1, <1>2 DEF Existentes, Compactando
<1>5. Contenido' = Contenido
  BY <1>1, <1>4, ContenidoSigue, ContenidoIgual
<1>6. QED
  BY <1>1, <1>3, <1>4, <1>5 DEF Alto!Pide

(* The state a request in one step starts and ends in.                     *)
LEMMA UnaVez ==
    ASSUME IInv, ~Rota, pedido # Ninguno, tarea = Ninguno, tarea' = Ninguno
    PROVE  /\ TypeOK /\ Reposo /\ PedidoValido /\ ~Compactando /\ ~Compactando'
           /\ pedido.archivo \in Nombres /\ pedido.tam \in Nat /\ pedido.puntero \in Nat
           /\ pedido.dato \in Seq(Valores) /\ disco \in [Bytes -> Valores]
           /\ Existentes \subseteq Nombres
           /\ \A n \in Existentes :
                 /\ metadatas[n].inicio \in Nat /\ metadatas[n].tam \in Nat
                 /\ CalcularBloques(metadatas[n].tam) \in Nat \ {0}
                 /\ metadatas[n].inicio + CalcularBloques(metadatas[n].tam) <= CantBloques
                 /\ Contenido[n] = Lectura(disco, metadatas[n].inicio, metadatas[n].tam)
<1>1. TypeOK /\ Reposo /\ PedidoValido /\ ~Compactando /\ ~Compactando'
  BY SanoEsReposo DEF IInv, Sano, Compactando
<1>2. /\ pedido.archivo \in Nombres /\ pedido.tam \in Nat /\ pedido.puntero \in Nat
      /\ pedido.dato \in Seq(Valores) /\ disco \in [Bytes -> Valores]
  BY <1>1, Tipos
<1>3. Existentes \subseteq Nombres
  BY <1>1 DEF TypeOK
<1>4. \A n \in Existentes : Contenido[n] = Lectura(disco, metadatas[n].inicio, metadatas[n].tam)
  BY <1>1, <1>3, ContenidoDe
<1>5. ASSUME NEW n \in Existentes
      PROVE  /\ metadatas[n].inicio \in Nat /\ metadatas[n].tam \in Nat
             /\ CalcularBloques(metadatas[n].tam) \in Nat \ {0}
             /\ metadatas[n].inicio + CalcularBloques(metadatas[n].tam) <= CantBloques
  BY <1>1, Tipos DEF Reposo, Caben
<1>6. QED
  BY <1>1, <1>2, <1>3, <1>4, <1>5

(* CREATE adds an empty file.                                              *)
LEMMA CrearAlto ==
    ASSUME IInv, ~Rota, Crear, NEW a, a = pedido.archivo
    PROVE  Alto!Crea(a)
<1>1. /\ pedido # Ninguno /\ tarea = Ninguno /\ tarea' = Ninguno /\ a \notin Existentes
      /\ disco' = disco /\ Alto!Contesta(<<>>)
  BY DEF Crear, Sirve, Contesta, Alto!Contesta
<1>2. TypeOK /\ Reposo /\ ~Compactando /\ ~Compactando' /\ a \in Nombres /\ bitmap \subseteq Bloques
      /\ disco \in [Bytes -> Valores]
  BY <1>1, UnaVez DEF TypeOK
<1>3. UnCambio(a) /\ Existentes' = Existentes \cup {a} /\ Caben'
  BY <1>2, CrearCambia
<1>4. \A n \in Nombres \ {a} : Contenido'[n] = Contenido[n]
  BY <1>1, <1>2, <1>3, ContenidoSigue DEF UnCambio
<1>5. Contenido[a] = <<>>
  BY <1>1, <1>2, ContenidoDe
<1>6. Contenido'[a] = <<>>
  <2>1. metadatas'[a] = [inicio |-> BloqueLibre, tam |-> 0] /\ HayLibre
    BY <1>1 DEF Crear
  <2>2. BloqueLibre \in Nat
    BY <1>2, <2>1, LibrePropiedades, DialFSAssumption DEF Bloques
  <2>3. metadatas'[a].inicio = BloqueLibre /\ metadatas'[a].tam = 0
    BY <2>1
  <2>4. BloqueLibre + CalcularBloques(0) <= CantBloques
    BY <1>3, <2>3 DEF Caben
  <2>5. /\ Lectura(disco, BloqueLibre, 0) \in Seq(Valores)
        /\ Len(Lectura(disco, BloqueLibre, 0)) = 0
    BY <1>2, <2>2, <2>4, 0 \in Nat, LecturaPropiedades
  <2>6. Lectura(disco, BloqueLibre, 0) = <<>>
    BY <2>5, EmptySeq
  <2>7. Contenido'[a] = Lectura(disco', metadatas'[a].inicio, metadatas'[a].tam)
    BY <1>2, <1>3, ContenidoDe
  <2>8. QED
    BY <1>1, <2>3, <2>6, <2>7
<1>7. Contenido' = Contenido
  BY <1>4, <1>5, <1>6, ContenidoIgual
<1>8. QED
  BY <1>1, <1>3, <1>7 DEF Alto!Crea

(* Clearing the blocks of a file loses no other.                           *)
LEMMA OtrosAlLimpiar ==
    ASSUME IInv, ~Rota, pedido # Ninguno, tarea = Ninguno, tarea' = Ninguno,
           NEW a \in Existentes,
           \/ disco' = disco
           \/ disco' = [b \in Bytes |-> IF b \div TamBloque \in BloquesDe(a) THEN 0 ELSE disco[b]],
           \A n \in Nombres \ {a} : n \in Existentes' <=> n \in Existentes,
           \A n \in Existentes \ {a} : metadatas'[n] = metadatas[n]
    PROVE  \A n \in Nombres \ {a} : Contenido'[n] = Contenido[n]
<1>1. /\ TypeOK /\ Reposo /\ ~Compactando /\ ~Compactando' /\ disco \in [Bytes -> Valores]
      /\ \A n \in Existentes :
            /\ metadatas[n].inicio \in Nat /\ metadatas[n].tam \in Nat
            /\ metadatas[n].inicio + CalcularBloques(metadatas[n].tam) <= CantBloques
  BY UnaVez
<1> SUFFICES ASSUME NEW n \in Nombres \ {a}
             PROVE  Contenido'[n] = Contenido[n]
  OBVIOUS
<1>2. ASSUME n \in Existentes
      PROVE  Lectura(disco', metadatas[n].inicio, metadatas[n].tam)
               = Lectura(disco, metadatas[n].inicio, metadatas[n].tam)
  <2>1. BloquesDe(a) \cap Tramo(metadatas[n].inicio, CalcularBloques(metadatas[n].tam)) = {}
    BY <1>1, <1>2 DEF Reposo, Comparten, BloquesDe
  <2>2. CASE disco' = disco
    BY <2>2
  <2>3. CASE disco' = [b \in Bytes |-> IF b \div TamBloque \in BloquesDe(a) THEN 0 ELSE disco[b]]
    BY <1>1, <1>2, <2>1, <2>3, LimpiarAparte, ZenonT(40)
  <2>4. QED
    BY <2>2, <2>3
<1>3. QED
  BY <1>1, <1>2, ContenidoSigue

(* DELETE takes one file away and the others keep their bytes.             *)
LEMMA BorrarAlto ==
    ASSUME IInv, ~Rota, Borrar, NEW a, a = pedido.archivo
    PROVE  Alto!Borra(a)
<1>1. /\ pedido # Ninguno /\ tarea = Ninguno /\ tarea' = Ninguno /\ a \in Existentes
      /\ disco' = [b \in Bytes |-> IF b \div TamBloque \in BloquesDe(a) THEN 0 ELSE disco[b]]
      /\ Alto!Contesta(<<>>)
  BY DEF Borrar, Sirve, Contesta, Alto!Contesta, BloquesDe, Archivo
<1>2. TypeOK /\ Reposo /\ a \in Nombres
  BY <1>1, UnaVez
<1>3. UnCambio(a) /\ Existentes' = Existentes \ {a}
  BY <1>1, <1>2, BorrarCambia
<1>4. \A n \in Nombres \ {a} : Contenido'[n] = Contenido[n]
  BY <1>1, <1>3, OtrosAlLimpiar DEF UnCambio
<1>5. Contenido'[a] = <<>>
  BY <1>2, <1>3, ContenidoDe
<1>6. Contenido' = [Contenido EXCEPT ![a] = <<>>]
  BY <1>2, <1>4, <1>5, ContenidoCambia
<1>7. QED
  BY <1>1, <1>3, <1>6 DEF Alto!Borra

(* A CREATE or DELETE that is refused changes no file.                     *)
LEMMA NoHaceNadaAlto ==
    ASSUME IInv, ~Rota, NoHaceNada, NEW a, a = pedido.archivo
    PROVE  \/ pedido.op = "create" /\ Alto!Crea(a)
           \/ pedido.op = "delete" /\ Alto!Borra(a)
<1>1. /\ pedido # Ninguno /\ tarea = Ninguno /\ tarea' = Ninguno
      /\ \/ pedido.op = "create"
         \/ pedido.op = "delete" /\ a \notin Existentes
      /\ UNCHANGED <<disco, metadatas>> /\ Alto!Contesta(<<>>)
  BY DEF NoHaceNada, Sirve, Contesta, Alto!Contesta
<1>2. a \in Nombres /\ ~Compactando /\ ~Compactando'
  BY <1>1, UnaVez
<1>3. Existentes' = Existentes
  BY <1>1 DEF Existentes
<1>4. \A n \in Nombres : Contenido'[n] = Contenido[n]
  BY <1>1, <1>2, <1>3, ContenidoSigue
<1>5. Contenido' = Contenido
  BY <1>4, ContenidoIgual
<1>6. CASE pedido.op = "create"
  BY <1>1, <1>3, <1>5, <1>6 DEF Alto!Crea
<1>7. CASE pedido.op = "delete" /\ a \notin Existentes
  <2>1. Contenido'[a] = <<>>
    BY <1>2, <1>3, <1>7, ContenidoDe
  <2>2. Contenido' = [Contenido EXCEPT ![a] = <<>>]
    BY <1>2, <1>4, <2>1, ContenidoCambia
  <2>3. QED
    BY <1>1, <1>3, <1>7, <2>2 DEF Alto!Borra
<1>8. QED
  BY <1>1, <1>6, <1>7

(* Writing in a file changes no other.                                     *)
LEMMA OtrosAlGrabar ==
    ASSUME IInv, ~Rota, pedido # Ninguno, tarea = Ninguno, tarea' = Ninguno,
           NEW a \in Existentes, NEW p \in Nat, NEW dato \in Seq(Valores),
           p + Len(dato) <= metadatas[a].tam, Grabar(metadatas[a].inicio, p, dato),
           metadatas' = metadatas
    PROVE  \A n \in Nombres \ {a} : Contenido'[n] = Contenido[n]
<1>1. /\ TypeOK /\ Reposo /\ ~Compactando /\ ~Compactando' /\ disco \in [Bytes -> Valores]
      /\ \A n \in Existentes :
            /\ metadatas[n].inicio \in Nat /\ metadatas[n].tam \in Nat
            /\ CalcularBloques(metadatas[n].tam) \in Nat \ {0}
            /\ metadatas[n].inicio + CalcularBloques(metadatas[n].tam) <= CantBloques
  BY UnaVez
<1>2. Existentes' = Existentes
  BY DEF Existentes
<1>3. p + Len(dato) <= CalcularBloques(metadatas[a].tam) * TamBloque
  <2> DEFINE t == metadatas[a].tam
             c == CalcularBloques(t)
  <2>1. t \in Nat /\ c \in Nat /\ t <= c * TamBloque /\ Len(dato) \in Nat
    BY <1>1, CalculoBloques, LenProperties
  <2>2. c * TamBloque \in Nat
    BY <2>1, OrdenProducto, DialFSAssumption
  <2> HIDE DEF c
  <2>3. QED
    BY <2>1, <2>2 DEF c
<1> SUFFICES ASSUME NEW n \in Nombres \ {a}
             PROVE  Contenido'[n] = Contenido[n]
  OBVIOUS
<1>4. ASSUME n \in Existentes
      PROVE  Lectura(disco', metadatas[n].inicio, metadatas[n].tam)
               = Lectura(disco, metadatas[n].inicio, metadatas[n].tam)
  <2>1. Tramo(metadatas[a].inicio, CalcularBloques(metadatas[a].tam))
          \cap Tramo(metadatas[n].inicio, CalcularBloques(metadatas[n].tam)) = {}
    BY <1>1, <1>4 DEF Reposo, Comparten, BloquesDe
  <2>2. QED
    BY <1>1, <1>3, <1>4, <2>1, GrabarAparte, SMTT(30)
<1>5. QED
  BY <1>1, <1>2, <1>4, ContenidoSigue

(* WRITE changes bytes of its file alone.                                  *)
LEMMA EscribirAlto ==
    ASSUME IInv, ~Rota, Escribir, NEW a, a = pedido.archivo
    PROVE  Alto!Escribe(a, pedido.puntero, pedido.dato)
<1> DEFINE p == pedido.puntero
           dato == pedido.dato
           ini == metadatas[a].inicio
           tam == metadatas[a].tam
           v == [i \in DOMAIN Contenido[a] |-> IF i - p \in DOMAIN dato THEN dato[i - p]
                                               ELSE Contenido[a][i]]
<1>1. /\ pedido # Ninguno /\ pedido.op = "write" /\ tarea = Ninguno /\ tarea' = Ninguno
      /\ Grabar(ini, p, dato) /\ metadatas' = metadatas /\ Alto!Contesta(<<>>)
  BY DEF Escribir, Sirve, Contesta, Alto!Contesta, Archivo
<1>2. /\ TypeOK /\ PedidoValido /\ ~Compactando' /\ a \in Nombres /\ p \in Nat
      /\ dato \in Seq(Valores) /\ disco \in [Bytes -> Valores]
      /\ \A n \in Existentes :
            /\ metadatas[n].inicio \in Nat /\ metadatas[n].tam \in Nat
            /\ metadatas[n].inicio + CalcularBloques(metadatas[n].tam) <= CantBloques
            /\ Contenido[n] = Lectura(disco, metadatas[n].inicio, metadatas[n].tam)
  BY <1>1, UnaVez
<1>3. a \in Existentes /\ p + Len(dato) <= tam
  BY <1>1, <1>2 DEF PedidoValido
<1>4. \A n \in Nombres \ {a} : Contenido'[n] = Contenido[n]
  BY <1>1, <1>2, <1>3, OtrosAlGrabar
<1>5. Existentes' = Existentes
  BY <1>1 DEF Existentes
<1>6. Contenido'[a] = Lectura(disco', ini, tam) /\ Contenido[a] = Lectura(disco, ini, tam)
  BY <1>1, <1>2, <1>3, <1>5, ContenidoDe
<1>7. ini \in Nat /\ tam \in Nat /\ ini + CalcularBloques(tam) <= CantBloques
  BY <1>2, <1>3
<1>8. DOMAIN Contenido[a] = 1..tam
  BY <1>2, <1>6, <1>7, LecturaPropiedades
<1>9. Contenido'[a] = v
  <2> DEFINE L == Lectura(disco, ini, tam)
             M == Lectura(disco', ini, tam)
  <2>1. \A i \in 1..tam : M[i] = IF i - p \in DOMAIN dato THEN dato[i - p] ELSE L[i]
    <3> HIDE DEF ini, tam, p, dato
    <3>1. QED
      BY <1>1, <1>2, <1>7, GrabarDentro
  <2>2. M = [i \in 1..tam |-> M[i]]
    BY DEF Lectura
  <2>3. v = [i \in 1..tam |-> IF i - p \in DOMAIN dato THEN dato[i - p] ELSE L[i]]
    BY <1>6, <1>8
  <2>4. Contenido'[a] = M
    BY <1>6
  <2> HIDE DEF v, L, M, p, dato, ini, tam
  <2>5. QED
    BY <2>1, <2>2, <2>3, <2>4
<1>10. Contenido' = [Contenido EXCEPT ![a] = v]
  <2> HIDE DEF v
  <2>1. QED
    BY <1>2, <1>4, <1>9, ContenidoCambia
<1>11. QED
  BY <1>1, <1>5, <1>10 DEF Alto!Escribe

(* READ answers the bytes of the abstract file.                            *)
LEMMA LeerAlto ==
    ASSUME IInv, ~Rota, Leer, NEW a, a = pedido.archivo
    PROVE  Alto!Lee(a, pedido.puntero, pedido.tam)
<1> DEFINE p == pedido.puntero
           k == pedido.tam
           ini == metadatas[a].inicio
           tam == metadatas[a].tam
           L == Lectura(disco, ini, tam)
           S == SubSeq(L, p + 1, p + k)
           R == LeerDisco(ini, p, k)
<1>1. /\ pedido # Ninguno /\ pedido.op = "read" /\ tarea = Ninguno /\ tarea' = Ninguno
      /\ metadatas' = metadatas /\ disco' = disco /\ pedido' = Ninguno /\ respuesta' = R
  BY DEF Leer, Sirve, Contesta, Archivo
<1>2. /\ TypeOK /\ PedidoValido /\ ~Compactando /\ ~Compactando' /\ a \in Nombres /\ p \in Nat
      /\ k \in Nat /\ disco \in [Bytes -> Valores] /\ Existentes \subseteq Nombres
      /\ \A n \in Existentes :
            /\ metadatas[n].inicio \in Nat /\ metadatas[n].tam \in Nat
            /\ metadatas[n].inicio + CalcularBloques(metadatas[n].tam) <= CantBloques
            /\ Contenido[n] = Lectura(disco, metadatas[n].inicio, metadatas[n].tam)
  BY <1>1, UnaVez
<1>3. a \in Existentes /\ p + k <= tam /\ Existentes' = Existentes
  BY <1>1, <1>2 DEF PedidoValido, Existentes
<1>4. Contenido' = Contenido
  BY <1>1, <1>2, <1>3, ContenidoSigue, ContenidoIgual
<1>5. Contenido[a] = L
  BY <1>2, <1>3
<1>6. ini \in Nat /\ tam \in Nat /\ ini + CalcularBloques(tam) <= CantBloques
  BY <1>2, <1>3
<1> HIDE DEF ini, tam, p, k
<1>7. /\ L \in Seq(Valores) /\ Len(L) = tam /\ ini * TamBloque \in Nat
      /\ \A i \in 1..tam : /\ ini * TamBloque + i - 1 \in Bytes
                           /\ L[i] = disco[ini * TamBloque + i - 1]
  BY <1>2, <1>6, LecturaPropiedades, BytesEnDisco, ZenonT(40)
<1> HIDE DEF L
<1>8. \A i \in 1..k : /\ ini * TamBloque + p + i - 1 \in Bytes
                      /\ disco[ini * TamBloque + p + i - 1] = L[p + i]
  <2> SUFFICES ASSUME NEW i \in 1..k
               PROVE  /\ ini * TamBloque + p + i - 1 \in Bytes
                      /\ disco[ini * TamBloque + p + i - 1] = L[p + i]
    OBVIOUS
  <2>1. p + i \in 1..tam
    BY <1>2, <1>3, <1>6
  <2>2. ini * TamBloque + (p + i) - 1 = ini * TamBloque + p + i - 1
    BY <1>2, <1>7
  <2>3. QED
    BY <1>7, <2>1, <2>2
<1>9. R \in Seq(Valores) /\ Len(R) = k /\ \A i \in 1..k : R[i] = L[p + i]
  <2>1. R \in Seq(Valores) /\ Len(R) = k
    BY <1>2, <1>6, <1>8, LeerTipo
  <2>2. \A i \in 1..k : R[i] = L[p + i]
    BY <1>8 DEF LeerDisco
  <2>3. QED
    BY <2>1, <2>2
<1>10. S \in Seq(Valores) /\ Len(S) = k /\ \A i \in 1..k : S[i] = L[p + i]
  <2>1. p + 1 \in Int /\ p + k \in Int /\ (p + k) - (p + 1) + 1 = k
    BY <1>2
  <2>2. \A i \in (p + 1)..(p + k) : L[i] \in Valores
    <3>1. \A i \in 1..tam : L[i] \in Valores
      BY <1>7, ElementOfSeq
    <3>2. QED
      BY <3>1, <1>2, <1>3, <1>6
  <2>3. /\ S \in Seq(Valores)
        /\ Len(S) = IF p + 1 <= p + k THEN (p + k) - (p + 1) + 1 ELSE 0
        /\ \A i \in 1..((p + k) - (p + 1) + 1) : S[i] = L[(p + 1) + i - 1]
    BY <2>1, <2>2, SubSeqProperties
  <2> HIDE DEF S
  <2>4. Len(S) = k
    BY <1>2, <2>1, <2>3
  <2>5. ASSUME NEW i \in 1..k
        PROVE  S[i] = L[p + i]
    <3>1. S[i] = L[(p + 1) + i - 1]
      BY <2>1, <2>3
    <3>2. (p + 1) + i - 1 = p + i
      BY <1>2
    <3>3. QED
      BY <3>1, <3>2
  <2>6. QED
    BY <2>3, <2>4, <2>5
<1> HIDE DEF S, R
<1>11. R = S
  BY <1>9, <1>10, SeqEqual
<1>12. respuesta' = SubSeq(Contenido[a], p + 1, p + k)
  BY <1>1, <1>5, <1>11 DEF S
<1>13. QED
  BY <1>1, <1>3, <1>4, <1>12 DEF Alto!Lee, Alto!Contesta, p, k

(* Two sequences with the same beginning.                                  *)
LEMMA PrefijoIgual ==
    ASSUME NEW s \in Seq(Valores), NEW t \in Seq(Valores), NEW q \in Nat,
           q <= Len(s), q <= Len(t), \A i \in 1..q : s[i] = t[i]
    PROVE  SubSeq(s, 1, q) = SubSeq(t, 1, q)
<1> DEFINE S == SubSeq(s, 1, q)
           T == SubSeq(t, 1, q)
<1>1. /\ 1 \in Int /\ q \in Int /\ Len(s) \in Nat /\ Len(t) \in Nat
      /\ \A i \in 1..Len(s) : s[i] \in Valores
      /\ \A i \in 1..Len(t) : t[i] \in Valores
  BY LenProperties, ElementOfSeq
<1>2. \A i \in 1..q : s[i] \in Valores /\ t[i] \in Valores
  BY <1>1
<1>3. /\ S \in Seq(Valores) /\ Len(S) = IF 1 <= q THEN q - 1 + 1 ELSE 0
      /\ \A i \in 1..(q - 1 + 1) : S[i] = s[1 + i - 1]
  BY <1>1, <1>2, SubSeqProperties
<1>4. /\ T \in Seq(Valores) /\ Len(T) = IF 1 <= q THEN q - 1 + 1 ELSE 0
      /\ \A i \in 1..(q - 1 + 1) : T[i] = t[1 + i - 1]
  BY <1>1, <1>2, SubSeqProperties
<1> HIDE DEF S, T
<1>5. Len(S) = q /\ Len(T) = q
  BY <1>3, <1>4
<1>6. ASSUME NEW i \in 1..q
      PROVE  S[i] = T[i]
  <2>1. i \in 1..(q - 1 + 1) /\ 1 + i - 1 = i
    OBVIOUS
  <2>2. S[i] = s[i] /\ T[i] = t[i]
    BY <1>3, <1>4, <2>1
  <2>3. QED
    BY <2>2
<1>7. S = T
  BY <1>3, <1>4, <1>5, <1>6, SeqEqual
<1>8. QED
  BY <1>7 DEF S, T

(* A change of size that keeps what fits.                                  *)
LEMMA TruncaBien ==
    ASSUME NEW a \in Nombres, NEW t \in Nat, Contenido[a] \in Seq(Valores),
           Contenido'[a] \in Seq(Valores), Len(Contenido'[a]) = t,
           \A i \in 1..t : i <= Len(Contenido[a]) => Contenido'[a][i] = Contenido[a][i],
           \A n \in Nombres \ {a} : Contenido'[n] = Contenido[n],
           Existentes' = Existentes, pedido' = Ninguno, respuesta' = <<>>
    PROVE  Alto!Trunca(a, t)
<1> DEFINE s == Contenido[a]
           u == Contenido'[a]
           q == IF t < Len(s) THEN t ELSE Len(s)
<1>1. s \in Seq(Valores) /\ u \in Seq(Valores) /\ Len(u) = t /\ Len(s) \in Nat
  BY LenProperties
<1>2. \A i \in 1..t : i <= Len(s) => u[i] = s[i]
  OBVIOUS
<1> HIDE DEF s, u
<1>3. q \in Nat /\ q <= Len(s) /\ q <= Len(u) /\ \A i \in 1..q : u[i] = s[i]
  BY <1>1, <1>2
<1>4. SubSeq(u, 1, q) = SubSeq(s, 1, q)
  <2> HIDE DEF q
  <2>1. QED
    BY <1>1, <1>3, PrefijoIgual
<1>5. QED
  BY <1>1, <1>4 DEF Alto!Trunca, Alto!Contesta, s, u

(* A TRUNCATE in place keeps what is left of the bytes of the file.        *)
LEMMA EnSuSitioAlto ==
    ASSUME IInv, ~Rota, Achicar \/ Agrandar, NEW a, a = pedido.archivo
    PROVE  pedido.op = "truncate" /\ Alto!Trunca(a, pedido.tam)
<1> DEFINE ini == metadatas[a].inicio
           tam == metadatas[a].tam
           t == pedido.tam
<1>1. /\ pedido # Ninguno /\ pedido.op = "truncate" /\ tarea = Ninguno /\ tarea' = Ninguno
      /\ ModificarMetadata(a, ini, t) /\ disco' = disco /\ pedido' = Ninguno /\ respuesta' = <<>>
  BY DEF Achicar, Agrandar, Sirve, Contesta, Archivo
<1>2. /\ TypeOK /\ Reposo /\ PedidoValido /\ ~Compactando /\ ~Compactando' /\ a \in Nombres
      /\ t \in Nat /\ disco \in [Bytes -> Valores]
      /\ \A n \in Existentes :
            /\ metadatas[n].inicio \in Nat /\ metadatas[n].tam \in Nat
            /\ metadatas[n].inicio + CalcularBloques(metadatas[n].tam) <= CantBloques
            /\ Contenido[n] = Lectura(disco, metadatas[n].inicio, metadatas[n].tam)
  BY <1>1, UnaVez
<1>3. UnCambio(a) /\ Caben' /\ Existentes' = Existentes /\ a \in Existentes
  <2>1. CASE Achicar
    BY <1>2, <2>1, AchicarCambia
  <2>2. CASE Agrandar
    BY <1>2, <2>2, AgrandarCambia
  <2>3. QED
    BY <2>1, <2>2
<1>4. \A n \in Nombres \ {a} : Contenido'[n] = Contenido[n]
  BY <1>1, <1>2, <1>3, ContenidoSigue DEF UnCambio
<1>5. metadatas'[a].inicio = ini /\ metadatas'[a].tam = t
  <2>1. ini \in Bloques
    BY <1>2, <1>3, Tipos
  <2>2. QED
    BY <1>1, <1>2, <1>3, <2>1, MetadataPuesta
<1>6. /\ ini \in Nat /\ tam \in Nat /\ ini + CalcularBloques(tam) <= CantBloques
      /\ Contenido[a] = Lectura(disco, ini, tam)
  BY <1>2, <1>3
<1>7. ini + CalcularBloques(t) <= CantBloques
  BY <1>3, <1>5 DEF Caben
<1>8. Contenido'[a] = Lectura(disco, ini, t)
  <2>1. Contenido'[a] = Lectura(disco', metadatas'[a].inicio, metadatas'[a].tam)
    BY <1>2, <1>3, ContenidoDe
  <2>2. QED
    BY <2>1, <1>1, <1>5
<1> DEFINE L == Lectura(disco, ini, tam)
           M == Lectura(disco, ini, t)
<1> HIDE DEF ini, tam, t
<1>9. /\ L \in Seq(Valores) /\ Len(L) = tam
      /\ \A i \in 1..tam : L[i] = disco[ini * TamBloque + i - 1]
  BY <1>2, <1>6, LecturaPropiedades
<1>10. /\ M \in Seq(Valores) /\ Len(M) = t
       /\ \A i \in 1..t : M[i] = disco[ini * TamBloque + i - 1]
  BY <1>2, <1>6, <1>7, LecturaPropiedades
<1>11. /\ Contenido[a] \in Seq(Valores) /\ Contenido'[a] \in Seq(Valores)
       /\ Len(Contenido'[a]) = t
       /\ \A i \in 1..t : i <= Len(Contenido[a]) => Contenido'[a][i] = Contenido[a][i]
  <2>1. t \in Nat /\ tam \in Nat /\ Contenido[a] = L /\ Contenido'[a] = M
    BY <1>2, <1>6, <1>8
  <2> HIDE DEF L, M
  <2>2. \A i \in 1..t : i <= Len(L) => M[i] = L[i]
    BY <2>1, <1>9, <1>10
  <2>3. QED
    BY <2>1, <2>2, <1>9, <1>10
<1>12. t \in Nat
  BY <1>2 DEF t
<1>13. Alto!Trunca(a, t)
  BY <1>1, <1>2, <1>3, <1>4, <1>11, <1>12, TruncaBien
<1>14. QED
  BY <1>1, <1>13 DEF t

(* The file that grows is read before the compaction starts.               *)
LEMMA IniciarAlto ==
    ASSUME IInv, ~Rota, IniciarCompactacion
    PROVE  UNCHANGED <<Existentes, Contenido, pedido, respuesta>>
<1>1. PICK a : a = pedido.archivo
  OBVIOUS
<1>2. /\ pedido # Ninguno /\ pedido.op = "truncate" /\ tarea = Ninguno
      /\ tarea' = [faltan |-> madre \ {a}, offset |-> 0,
                   copia |-> LeerDisco(metadatas[a].inicio, 0, metadatas[a].tam)]
      /\ UNCHANGED <<disco, metadatas, pedido, respuesta>>
  BY <1>1 DEF IniciarCompactacion, Sirve, Archivo
<1>3. ~Compactando /\ Existentes \subseteq Nombres /\ a \in Existentes
  BY <1>1, <1>2 DEF IInv, TypeOK, Sano, PedidoValido, Compactando
<1>4. Existentes' = Existentes
  BY <1>2 DEF Existentes
<1>5. tarea'.copia = Lectura(disco, metadatas[a].inicio, metadatas[a].tam)
  BY <1>2 DEF LeerDisco, Lectura
<1>6. Contenido'[a] = Contenido[a]
  BY <1>1, <1>2, <1>3, <1>4, <1>5, ContenidoDe
<1>7. \A n \in Nombres \ {a} : Contenido'[n] = Contenido[n]
  BY <1>1, <1>2, <1>3, <1>4, ContenidoSigue
<1>8. Contenido' = Contenido
  BY <1>6, <1>7, ContenidoIgual
<1>9. QED
  BY <1>2, <1>4, <1>8

(* The hole a file moves to holds no byte of another file.                 *)
LEMMA OtrosAlMover ==
    ASSUME TypeOK, Sano, ~Rota, Compactando, NEW n, EsElSiguiente(n),
           NEW dato \in Seq(Valores), Len(dato) <= metadatas[n].tam,
           Grabar(tarea.offset, 0, dato),
           NEW o \in Existentes \ {n, pedido.archivo}
    PROVE  Lectura(disco', metadatas[o].inicio, metadatas[o].tam)
             = Lectura(disco, metadatas[o].inicio, metadatas[o].tam)
<1> DEFINE off == tarea.offset
           tam == metadatas[n].tam
           cant == CalcularBloques(tam)
           i == metadatas[o].inicio
           t == metadatas[o].tam
<1>1. /\ n \in Existentes /\ off \in Nat /\ BloquesDe(o) \cap Tramo(off, cant) = {}
  BY ElSiguiente
<1>2. /\ disco \in [Bytes -> Valores] /\ tam \in Nat /\ cant \in Nat \ {0}
      /\ i \in Nat /\ t \in Nat
  BY <1>1, Tipos
<1>3. i + CalcularBloques(t) <= CantBloques
  BY DEF Sano, Caben
<1>4. Tramo(off, cant) \cap Tramo(i, CalcularBloques(t)) = {}
  BY <1>1 DEF BloquesDe
<1>5. 0 + Len(dato) <= cant * TamBloque /\ 0 \in Nat
  <2>1. tam <= cant * TamBloque /\ Len(dato) \in Nat
    BY <1>2, CalculoBloques, LenProperties
  <2>2. cant * TamBloque \in Nat
    BY <1>2, OrdenProducto, DialFSAssumption
  <2> HIDE DEF cant
  <2>3. QED
    BY <1>2, <2>1, <2>2
<1> HIDE DEF off, tam, cant, i, t
<1>6. Grabar(off, 0, dato)
  BY DEF off
<1>7. Lectura(disco', i, t) = Lectura(disco, i, t)
  BY <1>1, <1>2, <1>3, <1>4, <1>5, <1>6, GrabarAparte
<1>8. QED
  BY <1>7 DEF i, t

(* A file that moves keeps its bytes, and so does every other: no program  *)
(* sees the compaction.                                                    *)
LEMMA MoverAlto ==
    ASSUME IInv, ~Rota, MoverArchivo, Copias = {"adelante"}
    PROVE  UNCHANGED <<Existentes, Contenido, pedido, respuesta>>
<1>1. /\ TypeOK /\ Sano /\ Compactando /\ UNCHANGED <<pedido, respuesta>>
  BY DEF IInv, MoverArchivo, Sano
<1>2. PICK a : a = pedido.archivo
  OBVIOUS
<1>3. PICK n \in Nombres :
         /\ EsElSiguiente(n)
         /\ IF tarea.offset = metadatas[n].inicio
            THEN UNCHANGED <<bitmap, disco, metadatas>>
            ELSE /\ \E orden \in Copias :
                      Grabar(tarea.offset, 0, Copiado(tarea.offset, metadatas[n].inicio,
                                                      metadatas[n].tam, orden))
                 /\ ModificarMetadata(n, tarea.offset, metadatas[n].tam)
         /\ tarea' = [tarea EXCEPT !.faltan = @ \ {n},
                                   !.offset = @ + CalcularBloques(metadatas[n].tam)]
  BY DEF MoverArchivo
<1> DEFINE ini == metadatas[n].inicio
           tam == metadatas[n].tam
           cant == CalcularBloques(tam)
           off == tarea.offset
           t == [faltan |-> tarea.faltan \ {n}, offset |-> off + cant, copia |-> tarea.copia]
<1>4. /\ n \in Existentes /\ n # a /\ off \in Nat /\ off <= ini /\ off \in Bloques
      /\ ini + cant <= CantBloques /\ ini * TamBloque \in Nat
      /\ \A i \in 1..tam : ini * TamBloque + i - 1 \in Bytes
  BY <1>1, <1>2, <1>3, ElSiguiente
<1>5. /\ ini \in Nat /\ cant \in Nat \ {0} /\ tam \in Nat /\ disco \in [Bytes -> Valores]
      /\ tarea \in Tareas /\ CantBloques \in Nat /\ a \in Existentes
      /\ Existentes \subseteq Nombres
  <2>1. /\ ini \in Nat /\ cant \in Nat \ {0} /\ tam \in Nat /\ disco \in [Bytes -> Valores]
        /\ tarea \in Tareas /\ pedido # Ninguno /\ pedido.op = "truncate"
    BY <1>1, <1>4, Tipos
  <2>2. a \in Existentes /\ Existentes \subseteq Nombres
    BY <1>1, <1>2, <2>1 DEF Sano, PedidoValido, TypeOK
  <2>3. QED
    BY <2>1, <2>2, DialFSAssumption
<1>6. tarea' = t
  BY <1>3, <1>5, TareaSigue
<1>7. Compactando' /\ tarea'.copia = tarea.copia
  <2>1. t.copia = tarea.copia
    OBVIOUS
  <2>2. t \in Tareas
    <3>1. tarea.faltan \ {n} \in SUBSET Nombres /\ off + cant \in Nat
      BY <1>4, <1>5 DEF Tareas
    <3>2. QED
      BY <3>1, <1>5 DEF Tareas
  <2> HIDE DEF t
  <2>3. t # Ninguno
    BY <2>2, DialFSAssumption
  <2>4. QED
    BY <2>1, <2>3, <1>6 DEF Compactando
<1> HIDE DEF t
<1>8. CASE off = ini
  <2>1. /\ disco' = disco /\ metadatas' = metadatas /\ Existentes' = Existentes
    BY <1>3, <1>8 DEF Existentes
  <2>2. Contenido'[a] = Contenido[a]
    BY <1>1, <1>2, <1>5, <1>7, <2>1, ContenidoDe
  <2>3. \A o \in Nombres \ {a} : Contenido'[o] = Contenido[o]
    BY <1>1, <1>2, <2>1, ContenidoSigue
  <2>4. Contenido' = Contenido
    BY <2>2, <2>3, ContenidoIgual
  <2>5. QED
    BY <1>1, <2>1, <2>4
<1>9. CASE off # ini
  <2>0. PICK orden \in Copias : orden = "adelante" /\ Grabar(off, 0, Copiado(off, ini, tam, orden))
    BY <1>3, <1>9
  <2> DEFINE dato == Copiado(off, ini, tam, orden)
             L == Lectura(disco, ini, tam)
             M == Lectura(disco', off, tam)
  <2>1. Grabar(off, 0, dato) /\ ModificarMetadata(n, off, tam)
    BY <2>0, <1>3, <1>9
  <2>2. /\ Existentes' = Existentes
        /\ metadatas'[n].inicio = off /\ metadatas'[n].tam = tam
        /\ \A o \in Existentes \ {n} : metadatas'[o] = metadatas[o]
    BY <1>1, <1>4, <1>5, <2>1, MetadataPuesta
  <2>3. /\ dato \in Seq(Valores) /\ Len(dato) = tam /\ DOMAIN dato = 1..tam
        /\ \A i \in 1..tam : dato[i] = disco[ini * TamBloque + i - 1]
    <3>1. off < ini /\ orden = "adelante"
      BY <2>0, <1>4, <1>5, <1>9
    <3>2. /\ off \in Nat /\ ini \in Nat /\ tam \in Nat /\ disco \in [Bytes -> Valores]
          /\ ini * TamBloque \in Nat /\ \A i \in 1..tam : ini * TamBloque + i - 1 \in Bytes
      BY <1>4, <1>5
    <3> HIDE DEF off, ini, tam
    <3>3. /\ dato \in Seq(Valores) /\ Len(dato) = tam /\ DOMAIN dato = 1..tam
          /\ orden = "adelante" => \A i \in 1..tam : dato[i] = disco[ini * TamBloque + i - 1]
      BY <3>1, <3>2, CopiadoTipo
    <3> HIDE DEF dato
    <3>4. QED
      BY <3>1, <3>3
  <2>4. \A o \in Existentes \ {n, a} : Lectura(disco', metadatas[o].inicio, metadatas[o].tam)
                                         = Lectura(disco, metadatas[o].inicio, metadatas[o].tam)
    BY <1>1, <1>2, <1>3, <1>5, <2>1, <2>3, OtrosAlMover
  <2>5. \A o \in Nombres \ {n, a} : Contenido'[o] = Contenido[o]
    BY <1>1, <1>2, <2>2, <2>4, ContenidoSigue
  <2>6. Contenido'[a] = Contenido[a]
    BY <1>1, <1>2, <1>5, <1>7, <2>2, ContenidoDe
  <2>7. Contenido[n] = L /\ Contenido'[n] = M
    BY <1>1, <1>2, <1>4, <2>2, ContenidoDe
  <2>8. L = M
    <3>1. disco' \in [Bytes -> Valores]
      BY <1>5, <2>1, <2>3, GrabarTipo
    <3> HIDE DEF off, ini, tam, dato
    <3>2. off + CalcularBloques(tam) <= CantBloques
      BY <1>4, <1>5 DEF cant
    <3>3. ini + CalcularBloques(tam) <= CantBloques
      BY <1>4 DEF cant
    <3>4. /\ L \in Seq(Valores) /\ Len(L) = tam
          /\ \A i \in 1..tam : L[i] = disco[ini * TamBloque + i - 1]
      BY <1>5, <3>3, LecturaPropiedades
    <3>5. M \in Seq(Valores) /\ Len(M) = tam
      BY <1>4, <1>5, <3>1, <3>2, LecturaPropiedades
    <3>6. ASSUME NEW i \in 1..tam
          PROVE  M[i] = L[i]
      <4>1. M[i] = IF i - 0 \in DOMAIN dato THEN dato[i - 0] ELSE Lectura(disco, off, tam)[i]
        BY <1>4, <1>5, <2>1, <2>3, <3>2, 0 \in Nat, GrabarDentro
      <4>2. i - 0 = i
        OBVIOUS
      <4>3. M[i] = dato[i]
        BY <4>1, <4>2, <2>3
      <4>4. QED
        BY <4>3, <2>3, <3>4
    <3> HIDE DEF L, M
    <3>7. QED
      BY <3>4, <3>5, <3>6, SeqEqual
  <2>9. Contenido' = Contenido
    BY <2>5, <2>6, <2>7, <2>8, ContenidoIgual
  <2>10. QED
    BY <1>1, <2>2, <2>9
<1>10. QED
  BY <1>8, <1>9

(* Neither does the place at the end of the disk.                          *)
LEMMA OtrosAlColocar ==
    ASSUME TypeOK, Sano, ~Rota, Compactando, tarea.faltan = {}, HayLibre, Coloca \subseteq Bloques,
           Grabar(BloqueLibre, 0, tarea.copia), NEW a, a = pedido.archivo,
           NEW o \in Existentes \ {a}
    PROVE  Lectura(disco', metadatas[o].inicio, metadatas[o].tam)
             = Lectura(disco, metadatas[o].inicio, metadatas[o].tam)
<1> DEFINE l == BloqueLibre
           c == CalcularBloques(pedido.tam)
           dato == tarea.copia
           i == metadatas[o].inicio
           t == metadatas[o].tam
<1>1. l \in Nat /\ c \in Nat \ {0} /\ BloquesDe(o) \cap Coloca = {}
  BY ColocaPropiedades
<1>2. /\ disco \in [Bytes -> Valores] /\ dato \in Seq(Valores) /\ pedido.tam \in Nat
      /\ i \in Nat /\ t \in Nat /\ i + CalcularBloques(t) <= CantBloques
  BY Tipos DEF Sano, Caben
<1>3. Tramo(l, c) \cap Tramo(i, CalcularBloques(t)) = {}
  BY <1>1 DEF BloquesDe, Coloca
<1>4. 0 + Len(dato) <= c * TamBloque /\ 0 \in Nat
  <2>1. Len(dato) <= pedido.tam /\ Len(dato) \in Nat
    BY <1>2, LenProperties DEF Sano, EnCompactacion
  <2>2. pedido.tam <= c * TamBloque
    BY <1>2, CalculoBloques
  <2>3. c * TamBloque \in Nat
    BY <1>1, OrdenProducto, DialFSAssumption
  <2> HIDE DEF c, dato
  <2>4. QED
    BY <1>2, <2>1, <2>2, <2>3
<1> HIDE DEF l, c, dato, i, t
<1>5. Grabar(l, 0, dato)
  BY DEF l, dato
<1>6. Lectura(disco', i, t) = Lectura(disco, i, t)
  BY <1>1, <1>2, <1>3, <1>4, <1>5, GrabarAparte
<1>7. QED
  BY <1>6 DEF i, t

(* The end of a compaction is the abstract TRUNCATE.                       *)
LEMMA ColocarAlto ==
    ASSUME IInv, ~Rota, ColocarAlFinal, NEW a, a = pedido.archivo
    PROVE  /\ pedido # Ninguno /\ pedido.op = "truncate"
           /\ Alto!Trunca(a, pedido.tam)
<1> DEFINE l == BloqueLibre
           t == pedido.tam
           dato == tarea.copia
           M == Lectura(disco', l, t)
<1>1. /\ TypeOK /\ Sano /\ Compactando /\ tarea.faltan = {} /\ HayLibre /\ Coloca \subseteq Bloques
      /\ Grabar(l, 0, dato) /\ ModificarMetadata(a, l, t)
      /\ tarea' = Ninguno /\ pedido' = Ninguno /\ respuesta' = <<>>
  BY DEF IInv, ColocarAlFinal, Contesta
<1>2. /\ a \in Existentes /\ l \in Bloques /\ l \in Nat /\ l + CalcularBloques(t) <= CantBloques
  BY <1>1, ColocaPropiedades
<1>3. /\ pedido # Ninguno /\ pedido.op = "truncate" /\ t \in Nat /\ disco \in [Bytes -> Valores]
      /\ dato \in Seq(Valores) /\ Existentes \subseteq Nombres /\ Len(dato) <= t
  BY <1>1, Tipos DEF Sano, EnCompactacion, TypeOK
<1>4. /\ Existentes' = Existentes
      /\ metadatas'[a].inicio = l /\ metadatas'[a].tam = t
      /\ \A o \in Existentes \ {a} : metadatas'[o] = metadatas[o]
  BY <1>1, <1>2, <1>3, MetadataPuesta
<1>5. ~Compactando' /\ disco' \in [Bytes -> Valores]
  BY <1>1, <1>3, GrabarTipo DEF Compactando
<1>6. \A o \in Existentes \ {a} : Lectura(disco', metadatas[o].inicio, metadatas[o].tam)
                                    = Lectura(disco, metadatas[o].inicio, metadatas[o].tam)
  BY <1>1, OtrosAlColocar
<1>7. \A o \in Nombres \ {a} : Contenido'[o] = Contenido[o]
  BY <1>4, <1>5, <1>6, ContenidoSigue
<1>8. Contenido[a] = dato /\ Contenido'[a] = M
  BY <1>1, <1>2, <1>3, <1>4, <1>5, ContenidoDe
<1> HIDE DEF l, t, dato
<1>9. M \in Seq(Valores) /\ Len(M) = t
  BY <1>2, <1>3, <1>5, LecturaPropiedades
<1>10. Len(dato) \in Nat /\ DOMAIN dato = 1..Len(dato)
  BY <1>3, LenProperties
<1>11. ASSUME NEW i \in 1..t, i <= Len(dato)
       PROVE  M[i] = dato[i]
  <2>1. M[i] = IF i - 0 \in DOMAIN dato THEN dato[i - 0] ELSE Lectura(disco, l, t)[i]
    BY <1>1, <1>2, <1>3, 0 \in Nat, GrabarDentro
  <2>2. i - 0 = i /\ i \in DOMAIN dato
    BY <1>10, <1>11
  <2>3. QED
    BY <2>1, <2>2
<1> HIDE DEF M
<1>12. /\ Contenido[a] \in Seq(Valores) /\ Contenido'[a] \in Seq(Valores)
       /\ Len(Contenido'[a]) = t
       /\ \A i \in 1..t : i <= Len(Contenido[a]) => Contenido'[a][i] = Contenido[a][i]
  BY <1>3, <1>8, <1>9, <1>11
<1>13. a \in Nombres
  BY <1>2, <1>3
<1>14. Alto!Trunca(a, t)
  BY <1>1, <1>3, <1>4, <1>7, <1>12, <1>13, TruncaBien
<1>15. QED
  BY <1>3, <1>14 DEF t

(* A crash loses at most the file of the request and, in a compaction, the *)
(* one that was moving.                                                    *)
LEMMA CaerAlto ==
    ASSUME IInv, ~Rota, Caer
    PROVE  pedido # Ninguno /\ Alto!Pierde
<1>1. /\ pedido # Ninguno /\ tarea' = Ninguno /\ pedido' = Ninguno /\ respuesta' = <<>>
      /\ TypeOK /\ Sano /\ ~Compactando'
  BY DEF IInv, Caer, MuereCreando, MuereBorrando, MuereAchicando, MuereAgrandando, MuereMoviendo,
     MuereColocando, MuereSinMas, MuereConVacio, Rompe, Muere, Contesta, Compactando
<1> SUFFICES Alto!Pierde
  BY <1>1
<1>2. PICK a \in Nombres : a = pedido.archivo
  BY <1>1, Tipos
<1>3. Existentes \subseteq Nombres
  BY <1>1 DEF TypeOK
<1>4. ASSUME Existentes' = Existentes, NEW otro \in Nombres, otro = a \/ pedido.op = "truncate",
             \A n \in Nombres \ {a, otro} : Contenido'[n] = Contenido[n]
      PROVE  Alto!Pierde
  BY <1>1, <1>2, <1>4 DEF Alto!Pierde, Alto!Contesta
<1>5. ASSUME tarea = Ninguno, disco' = disco, metadatas' = metadatas
      PROVE  Alto!Pierde
  <2>1. Existentes' = Existentes /\ ~Compactando
    BY <1>5 DEF Existentes, Compactando
  <2>2. \A n \in Nombres \ {a, a} : Contenido'[n] = Contenido[n]
    BY <1>1, <1>5, <2>1, ContenidoSigue
  <2>3. QED
    BY <1>2, <1>4, <2>1, <2>2
<1>6. CASE MuereCreando \/ MuereAchicando \/ MuereAgrandando \/ MuereConVacio
  <2>1. tarea = Ninguno /\ disco' = disco /\ metadatas' = metadatas
    BY <1>6 DEF MuereCreando, MuereAchicando, MuereAgrandando, MuereConVacio, Sirve
  <2>2. QED
    BY <2>1, <1>5
<1>7. CASE MuereBorrando
  <2>1. /\ tarea = Ninguno /\ a \in Existentes /\ metadatas' = metadatas
        /\ \/ disco' = disco
           \/ disco' = [b \in Bytes |-> IF b \div TamBloque \in BloquesDe(a) THEN 0 ELSE disco[b]]
    BY <1>2, <1>7 DEF MuereBorrando, Sirve, BloquesDe, Archivo
  <2>2. Existentes' = Existentes
    BY <2>1 DEF Existentes
  <2>3. \A n \in Nombres \ {a} : Contenido'[n] = Contenido[n]
    BY <1>1, <2>1, <2>2, OtrosAlLimpiar
  <2>4. QED
    BY <1>2, <1>4, <2>2, <2>3
<1>8. CASE MuereSinMas
  <2>1. /\ tarea = Ninguno /\ metadatas' = metadatas
        /\ \/ disco' = disco
           \/ /\ pedido.op = "write"
              /\ \E k \in DOMAIN pedido.dato :
                    Grabar(metadatas[a].inicio, pedido.puntero, SubSeq(pedido.dato, 1, k))
    BY <1>2, <1>8 DEF MuereSinMas, Compactando, Sirve, Archivo
  <2>2. CASE disco' = disco
    BY <1>5, <2>1, <2>2
  <2>3. ASSUME pedido.op = "write", NEW k \in DOMAIN pedido.dato,
               Grabar(metadatas[a].inicio, pedido.puntero, SubSeq(pedido.dato, 1, k))
        PROVE  Alto!Pierde
    <3> DEFINE p == pedido.puntero
               d == pedido.dato
               s == SubSeq(d, 1, k)
    <3>1. a \in Existentes /\ p + Len(d) <= metadatas[a].tam
      BY <1>1, <1>2, <2>3 DEF Sano, PedidoValido
    <3>2. p \in Nat /\ d \in Seq(Valores) /\ metadatas[a].tam \in Nat
      BY <1>1, <3>1, Tipos
    <3>3. Len(d) \in Nat /\ k \in 1..Len(d) /\ \A i \in 1..k : d[i] \in Valores
      BY <2>3, <3>2, LenProperties, ElementOfSeq
    <3>4. s \in Seq(Valores) /\ Len(s) = k
      <4>1. 1 \in Int /\ k \in Int
        BY <3>3
      <4>2. s \in Seq(Valores) /\ Len(s) = IF 1 <= k THEN k - 1 + 1 ELSE 0
        BY <3>3, <4>1, SubSeqProperties
      <4> HIDE DEF s
      <4>3. QED
        BY <3>3, <4>2
    <3> HIDE DEF s, p, d
    <3>5. p + Len(s) <= metadatas[a].tam
      BY <3>1, <3>2, <3>3, <3>4
    <3>6. Grabar(metadatas[a].inicio, p, s)
      BY <2>3 DEF p, s, d
    <3>7. \A n \in Nombres \ {a} : Contenido'[n] = Contenido[n]
      BY <1>1, <2>1, <3>1, <3>2, <3>4, <3>5, <3>6, OtrosAlGrabar
    <3>8. Existentes' = Existentes
      BY <2>1 DEF Existentes
    <3>9. QED
      BY <1>2, <1>4, <3>7, <3>8
  <2>4. QED
    BY <2>1, <2>2, <2>3
<1>9. CASE MuereMoviendo
  <2>1. /\ Compactando /\ metadatas' = metadatas /\ pedido.op = "truncate"
        /\ Existentes' = Existentes
    BY <1>1, <1>9, Tipos DEF MuereMoviendo, Existentes
  <2>2. CASE disco' = disco
    <3>1. \A n \in Nombres \ {a, a} : Contenido'[n] = Contenido[n]
      BY <1>1, <1>2, <2>1, <2>2, ContenidoSigue
    <3>2. QED
      BY <1>2, <1>4, <2>1, <3>1
  <2>3. CASE disco' # disco
    <3> DEFINE off == tarea.offset
               ini(n) == metadatas[n].inicio
               tam(n) == metadatas[n].tam
    <3>1. PICK n \in tarea.faltan :
             /\ EsElSiguiente(n) /\ off # ini(n)
             /\ \E orden \in Copias, k \in 0..tam(n) :
                   Grabar(off, 0, SubSeq(Copiado(off, ini(n), tam(n), orden), 1, k))
      BY <1>9, <2>3 DEF MuereMoviendo
    <3>2. PICK orden \in Copias, k \in 0..tam(n) :
             Grabar(off, 0, SubSeq(Copiado(off, ini(n), tam(n), orden), 1, k))
      BY <3>1
    <3>3. /\ n \in Existentes /\ off \in Nat /\ off <= ini(n)
          /\ ini(n) * TamBloque \in Nat
          /\ \A i \in 1..tam(n) : ini(n) * TamBloque + i - 1 \in Bytes
      BY <1>1, <2>1, <3>1, ElSiguiente
    <3>4. ini(n) \in Nat /\ tam(n) \in Nat /\ disco \in [Bytes -> Valores]
      BY <1>1, <3>3, Tipos
    <3> DEFINE c == Copiado(off, ini(n), tam(n), orden)
               s == SubSeq(c, 1, k)
    <3>5. c \in Seq(Valores) /\ Len(c) = tam(n)
      <4> HIDE DEF off, ini, tam
      <4>1. off < ini(n)
        BY <3>1, <3>3, <3>4
      <4>2. QED
        BY <3>3, <3>4, <4>1, CopiadoTipo, ZenonT(40)
    <3> HIDE DEF c
    <3>6. s \in Seq(Valores) /\ Len(s) <= tam(n)
      <4>1. k \in Int /\ 1 \in Int /\ k <= tam(n) /\ k >= 0 /\ \A i \in 1..k : c[i] \in Valores
        BY <3>4, <3>5, ElementOfSeq
      <4>2. s \in Seq(Valores) /\ Len(s) = IF 1 <= k THEN k - 1 + 1 ELSE 0
        BY <4>1, SubSeqProperties
      <4> HIDE DEF s
      <4>3. QED
        BY <3>4, <4>1, <4>2
    <3>7. Grabar(off, 0, s)
      BY <3>2 DEF c
    <3> HIDE DEF s
    <3>8. \A o \in Existentes \ {n, a} : Lectura(disco', metadatas[o].inicio, metadatas[o].tam)
                                           = Lectura(disco, metadatas[o].inicio, metadatas[o].tam)
      BY <1>1, <1>2, <2>1, <3>1, <3>6, <3>7, OtrosAlMover
    <3>9. \A o \in Nombres \ {a, n} : Contenido'[o] = Contenido[o]
      BY <1>1, <1>2, <2>1, <3>8, ContenidoSigue
    <3>10. n \in Nombres
      BY <1>3, <3>3
    <3>11. QED
      BY <1>4, <2>1, <3>9, <3>10
  <2>4. QED
    BY <2>2, <2>3
<1>10. CASE MuereColocando
  <2>1. /\ Compactando /\ tarea.faltan = {} /\ HayLibre /\ Coloca \subseteq Bloques
        /\ Grabar(BloqueLibre, 0, tarea.copia)
        /\ metadatas' = metadatas \/ ModificarMetadata(a, BloqueLibre, pedido.tam)
    BY <1>2, <1>10 DEF MuereColocando
  <2>2. a \in Existentes /\ BloqueLibre \in Bloques /\ pedido.tam \in Nat
    BY <1>1, <1>2, <2>1, ColocaPropiedades, Tipos
  <2>3. Existentes' = Existentes /\ \A o \in Existentes \ {a} : metadatas'[o] = metadatas[o]
    <3>1. CASE metadatas' = metadatas
      BY <3>1 DEF Existentes
    <3>2. CASE ModificarMetadata(a, BloqueLibre, pedido.tam)
      BY <1>1, <2>2, <3>2, MetadataPuesta
    <3>3. QED
      BY <2>1, <3>1, <3>2
  <2>4. \A o \in Existentes \ {a} : Lectura(disco', metadatas[o].inicio, metadatas[o].tam)
                                      = Lectura(disco, metadatas[o].inicio, metadatas[o].tam)
    BY <1>1, <1>2, <2>1, OtrosAlColocar
  <2>5. \A o \in Nombres \ {a} : Contenido'[o] = Contenido[o]
    BY <1>1, <1>2, <2>3, <2>4, ContenidoSigue
  <2>6. QED
    BY <1>2, <1>4, <2>3, <2>5
<1>11. QED
  BY <1>1, <1>6, <1>7, <1>8, <1>9, <1>10 DEF Caer

-----------------------------------------------------------------------------
(* Every step of the blocks is a step of the files or a stutter.           *)
LEMMA AltoPaso ==
    ASSUME IInv, [Next]_vars, Copias = {"adelante"}
    PROVE  [Alto!Next]_<<Existentes, Contenido, pedido, respuesta>>
<1>1. CASE UNCHANGED vars
  <2>1. UNCHANGED <<disco, metadatas, pedido, respuesta, tarea>>
    BY <1>1 DEF vars
  <2>2. Existentes' = Existentes
    BY <2>1 DEF Existentes
  <2>3. Contenido' = Contenido
    BY <2>1, <2>2 DEF Contenido, LeerDisco, Compactando
  <2>4. QED
    BY <2>1, <2>2, <2>3
<1>2. CASE Next
  <2>1. ~Rota /\ (Pedir \/ Servir \/ Caer)
    BY <1>2 DEF Next
  <2>2. PICK a : a = pedido.archivo
    OBVIOUS
  <2>3. CASE Pedir
    BY <2>1, <2>3, PedirAlto DEF Alto!Next
  <2>4. CASE Crear
    <3>1. pedido # Ninguno /\ pedido.op = "create"
      BY <2>4 DEF Crear, Sirve
    <3>2. QED
      BY <2>1, <2>2, <2>4, <3>1, CrearAlto DEF Alto!Next
  <2>5. CASE Borrar
    <3>1. pedido # Ninguno /\ pedido.op = "delete"
      BY <2>5 DEF Borrar, Sirve
    <3>2. QED
      BY <2>1, <2>2, <2>5, <3>1, BorrarAlto DEF Alto!Next
  <2>6. CASE NoHaceNada
    <3>1. pedido # Ninguno
      BY <2>6 DEF NoHaceNada, Sirve
    <3>2. QED
      BY <2>1, <2>2, <2>6, <3>1, NoHaceNadaAlto DEF Alto!Next
  <2>7. CASE Escribir
    <3>1. pedido # Ninguno /\ pedido.op = "write"
      BY <2>7 DEF Escribir, Sirve
    <3>2. QED
      BY <2>1, <2>2, <2>7, <3>1, EscribirAlto DEF Alto!Next
  <2>8. CASE Leer
    <3>1. pedido # Ninguno /\ pedido.op = "read"
      BY <2>8 DEF Leer, Sirve
    <3>2. QED
      BY <2>1, <2>2, <2>8, <3>1, LeerAlto DEF Alto!Next
  <2>9. CASE Achicar \/ Agrandar
    <3>1. pedido # Ninguno
      BY <2>9 DEF Achicar, Agrandar, Sirve
    <3>2. QED
      BY <2>1, <2>2, <2>9, <3>1, EnSuSitioAlto DEF Alto!Next
  <2>10. CASE IniciarCompactacion
    BY <2>1, <2>10, IniciarAlto
  <2>11. CASE MoverArchivo
    BY <2>1, <2>11, MoverAlto
  <2>12. CASE ColocarAlFinal
    BY <2>1, <2>2, <2>12, ColocarAlto DEF Alto!Next
  <2>13. CASE Caer
    BY <2>1, <2>13, CaerAlto DEF Alto!Next
  <2>14. QED
    BY <2>1, <2>3, <2>4, <2>5, <2>6, <2>7, <2>8, <2>9, <2>10, <2>11, <2>12, <2>13 DEF Servir
<1>3. QED
  BY <1>1, <1>2

(* There are no files at the start.                                        *)
LEMMA AltoInicial ==
    ASSUME Init
    PROVE  Alto!Init
<1>1. metadatas = << >> /\ pedido = Ninguno /\ respuesta = <<>>
  BY DEF Init
<1>2. Existentes = {}
  BY <1>1 DEF Existentes
<1>3. Contenido = [n \in Nombres |-> <<>>]
  BY <1>2 DEF Contenido
<1>4. QED
  BY <1>1, <1>2, <1>3 DEF Alto!Init

(* The file system of blocks, metadata and bitmap implements the files     *)
(* with contents of their own of module Archivos, crashes and compactions  *)
(* included, when the areas are copied forward; the copies of overlapping  *)
(* areas (memcpy) that go backwards lose data.                             *)
THEOREM ImplementaArchivosSiempre ==
    ASSUME Copias = {"adelante"}
    PROVE  Spec => ImplementaArchivos
<1>1. Init => Alto!Init
  BY AltoInicial
<1>2. IInv /\ [Next]_vars => [Alto!Next]_<<Existentes, Contenido, pedido, respuesta>>
  BY AltoPaso
<1>3. QED
  BY <1>1, <1>2, IInvSiempre, PTL DEF Spec, ImplementaArchivos, Alto!Spec
====
