--------------------------- MODULE MCCustomerList ---------------------------
(* Small instances of CustomerList: the input files its runs read. *)
EXTENDS CustomerList

\* The header promises more customers, and the file has two lines.
ShortLines == <<[id |-> 1, class_type |-> Economy], [id |-> 2, class_type |-> Business]>>
=============================================================================
