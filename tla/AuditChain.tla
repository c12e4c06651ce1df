------------------------------ MODULE AuditChain ------------------------------
(***************************************************************************)
(* The audit file of one VM (audit/store.py): lines, each a record with    *)
(* the hash that chains it to the line before.  A digest is modelled by    *)
(* what makes it one: different pasts have different digests, so the       *)
(* digest of a line is the sequence of the records it covers.              *)
(***************************************************************************)
EXTENDS Naturals, Sequences

Zero == <<>>  \* the digest a chain starts from

(* Operators marked "Defect" are not part of the specification.  Each is a *)
(* plausible mistake in the definition below it, which some property must  *)
(* notice (PROJECT.json, mutants).                                         *)

(* Defect: a digest of the record alone.                                   *)
DigestAlone(prev, record) == <<record>>

(* sha256 over the digest before and the record.                           *)
Digest(prev, record) == Append(prev, record)

Line(prev, record) == [record |-> record, chain |-> Digest(prev, record)]

Records(file) == [i \in DOMAIN file |-> file[i].record]

(* The file that anyone can make over given records: the chain has no key. *)
Chain(records) ==
  [i \in DOMAIN records |-> [record |-> records[i], chain |-> SubSeq(records, 1, i)]]

(* verify_chain: every line carries the digest of its record after the     *)
(* digest of the line before.                                              *)
Before(file, i) == IF i = 1 THEN Zero ELSE file[i - 1].chain

Verifies(file) ==
  \A i \in DOMAIN file : file[i].chain = Digest(Before(file, i), file[i].record)
=============================================================================
