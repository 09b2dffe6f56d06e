-------------------------------- MODULE MMU --------------------------------
(* The arithmetic of mmu.c and the TLB of tlb.c.                           *)
EXTENDS Integers, Sequences, SequencesExt

CONSTANTS TamPagina,      \* TAM_PAGINA
          Entradas,       \* CANTIDAD_ENTRADAS_TLB
          AlgoritmoTLB    \* ALGORITMO_TLB

ASSUME MMUAssumption ==
    TamPagina \in Nat \ {0} /\ Entradas \in Nat /\ AlgoritmoTLB \in {"FIFO", "LRU"}

Techo(a, b) == (a + b - 1) \div b
Menor(a, b) == IF a < b THEN a ELSE b

Pagina(dl) == dl \div TamPagina
Desplazamiento(dl) == dl - Pagina(dl) * TamPagina
DirFisica(marco, desp) == marco * TamPagina + desp

PaginasNecesarias(desp, tam) ==
    IF TamPagina - desp < tam THEN 1 + Techo(tam - (TamPagina - desp), TamPagina) ELSE 1

(* Mutant: the pages after the first keep the offset of the first. *)
PorcionesCorridas(dl, tam, marcos) ==
    LET desp == Desplazamiento(dl)
        base(i) == IF i = 1 THEN 0 ELSE (TamPagina - desp) + (i - 2) * TamPagina
    IN [i \in 1..PaginasNecesarias(desp, tam) |->
          [base |-> base(i), dir |-> DirFisica(marcos[i], desp),
           tam |-> Menor(tam - base(i), IF i = 1 THEN TamPagina - desp ELSE TamPagina)]]

(* The pieces of an access: the rest of the first page, whole pages, the   *)
(* rest.                                                                   *)
Porciones(dl, tam, marcos) ==
    LET desp == Desplazamiento(dl)
        base(i) == IF i = 1 THEN 0 ELSE (TamPagina - desp) + (i - 2) * TamPagina
    IN [i \in 1..PaginasNecesarias(desp, tam) |->
          [base |-> base(i), dir |-> DirFisica(marcos[i], IF i = 1 THEN desp ELSE 0),
           tam |-> Menor(tam - base(i), IF i = 1 THEN TamPagina - desp ELSE TamPagina)]]

-----------------------------------------------------------------------------
(* The TLB, in order of arrival.  instante is the rank of the reference    *)
(* among those of the entries: only comparisons of it matter.              *)
EntradaTLB(Pids, Marcos) ==
    [pid : Pids, pagina : Nat, marco : Marcos, instante : Nat]

(* Mutant: the process is not compared. *)
BuscarEntradaSinPid(tlb, p, pagina) ==
    SelectInSeq(tlb, LAMBDA e : e.pagina = pagina)

BuscarEntrada(tlb, p, pagina) ==
    SelectInSeq(tlb, LAMBDA e : e.pid = p /\ e.pagina = pagina)

Referencia(tlb, i) ==
    [j \in DOMAIN tlb |->
       [tlb[j] EXCEPT !.instante = IF j = i THEN Len(tlb)
                                   ELSE IF @ > tlb[i].instante THEN @ - 1 ELSE @]]

Victima(tlb) ==
    IF AlgoritmoTLB = "FIFO" THEN 1
    ELSE CHOOSE i \in DOMAIN tlb : \A j \in DOMAIN tlb : tlb[i].instante <= tlb[j].instante

QuitarEntrada(tlb) ==
    LET v == Victima(tlb)
        sin == RemoveAt(tlb, v)
    IN [j \in DOMAIN sin |->
          [sin[j] EXCEPT !.instante = IF @ > tlb[v].instante THEN @ - 1 ELSE @]]

AgregarEntrada(tlb, p, pagina, marco) ==
    LET lugar == IF Len(tlb) < Entradas THEN tlb ELSE QuitarEntrada(tlb)
    IN Append(lugar, [pid |-> p, pagina |-> pagina, marco |-> marco,
                      instante |-> Len(lugar) + 1])
=============================================================================
