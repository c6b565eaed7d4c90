------------------------------- MODULE EtaTable -------------------------------
(***************************************************************************)
(* The table of encoding times (worker_eta_update, worker_eta_load,        *)
(* worker_eta_save_sample): a few running sums, one per encoder and size   *)
(* of image, and a file with every sample ever taken, from which the table *)
(* is made again after a restart.  Of the sums only the number of samples  *)
(* is kept here, those of the entry's own key and others apart.            *)
(***************************************************************************)
EXTENDS Naturals, Sequences, FiniteSetsExt

CONSTANTS
    EtaSlots,   (* entries of g_eta_table: 8 in the code *)
    MaxUnits    (* the largest image told apart by size: 32 megapixels *)

ASSUME EtaAssumption == EtaSlots \in Nat \ {0} /\ MaxUnits \in Nat

EtaIndex == 1 .. EtaSlots
NoKey == <<>>
FreeEntry == [key |-> NoKey, own |-> 0, foreign |-> 0]
EmptyTable == [i \in EtaIndex |-> FreeEntry]

Samples(entry) == entry.own + entry.foreign
FreeEntries(table) == {i \in EtaIndex : Samples(table[i]) = 0}
EntriesOf(table, key) == {i \in EtaIndex : Samples(table[i]) > 0 /\ table[i].key = key}

(* One more sample under a key. *)
WithSample(entry, key) ==
    IF Samples(entry) = 0 THEN [key |-> key, own |-> 1, foreign |-> 0]
    ELSE IF entry.key = key THEN [entry EXCEPT !.own = @ + 1]
    ELSE [entry EXCEPT !.foreign = @ + 1]

AddTo(table, i, key) == [table EXCEPT ![i] = WithSample(@, key)]

(* Where a key's samples go: its entry or, without one, a free one. *)
SlotsFor(table, key) ==
    IF EntriesOf(table, key) # {} THEN EntriesOf(table, key) ELSE FreeEntries(table)

(* worker_eta_make_key: sizes beyond the largest share a key. *)
EtaKey(encoder, size) == <<encoder, Min({size, MaxUnits})>>
-----------------------------------------------------------------------------
(* A plausible mistake: a line of a key that is in the table already       *)
(* replaces what is there.                                                 *)
LoadLineAnew(table, key) ==
    IF SlotsFor(table, key) = {} THEN table
    ELSE [table EXCEPT ![Min(SlotsFor(table, key))] = [key |-> key, own |-> 1, foreign |-> 0]]
-----------------------------------------------------------------------------
(* worker_eta_update; with no slot for a key its samples go to the first   *)
(* entry, under that entry's key.                                          *)
Recorded(table, key) ==
    AddTo(table, IF SlotsFor(table, key) = {} THEN 1 ELSE Min(SlotsFor(table, key)), key)

(* A line of the file; with no slot for its key it is passed over. *)
LoadLine(table, key) ==
    IF SlotsFor(table, key) = {} THEN table
    ELSE AddTo(table, Min(SlotsFor(table, key)), key)

(* worker_eta_load *)
Loaded(file) ==
    LET after[n \in 0 .. Len(file)] ==
            IF n = 0 THEN EmptyTable ELSE LoadLine(after[n - 1], file[n])
    IN  after[Len(file)]
=============================================================================
