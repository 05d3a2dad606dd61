------------------------------ MODULE MCTrustStore ------------------------------
(***************************************************************************)
(* A small universe of certificates for TrustStore: a path to the root of  *)
(* the longest admissible length, one that is longer, a circle, and ids    *)
(* that two certificates share.                                            *)
(***************************************************************************)
EXTENDS TrustStore

MCIds   == {"r", "a", "b", "c", "d"}
MCRoots == {"r"}

Cert(i, j) == [id |-> i, issuer |-> j]

MCCerts == {Cert("a", "b"), Cert("b", "c"), Cert("c", "d"), Cert("d", "r"),
            Cert("c", "r"), Cert("c", "a"), Cert("a", "r")}

===============================================================================
