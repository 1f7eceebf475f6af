----------------------------- MODULE SchemaKeys -----------------------------
(***************************************************************************)
(* The keys that look into a schema, and what a table of columns is: the   *)
(* words in which schemas (SchemaTables), methods (MethodAnalysis) and     *)
(* address spaces (AddressSpace) speak of one another.                     *)
(***************************************************************************)
EXTENDS Sequences

\* An object key is [kind, path]: none, a plain name or a JSON path (already
\* split, without its "$").
NoKey == [kind |-> "none", path |-> <<>>]
PlainKey(k) == [kind |-> "plain", path |-> <<k>>]

\* A column is [name, wire, of], of the property behind it.
NamesOf(cols) == {c.name : c \in cols}

\* nil: the schema makes no table: a number, a boolean.
NoTable == {[name |-> "", wire |-> "", of |-> ""]}

=============================================================================
