--------------------------- MODULE MCCertificate ---------------------------
(***************************************************************************)
(* A small world of certificates: a leaf that outlives its intermediate or *)
(* not, two cross-signed intermediates of one name, a root that is trusted *)
(* and an old one that has expired, and a certificate that belongs to      *)
(* nothing.                                                                *)
(***************************************************************************)
EXTENDS Certificate

Cert(subject, issuer, notAfter, weak) ==
    [subject |-> subject, issuer |-> issuer, notAfter |-> notAfter, weak |-> weak]

Root    == Cert("root", "root", 9, TRUE)
OldRoot == Cert("old", "old", 1, FALSE)

SomeLeaves == {Cert("leaf", "inter", 6, FALSE), Cert("leaf", "inter", 4, FALSE),
               Cert("leaf", "inter", 6, TRUE), Cert("leaf", "leaf", 6, FALSE)}

SomeOthers == {Cert("inter", "root", 5, FALSE), Cert("inter", "root", 8, TRUE),
               Cert("inter", "old", 3, FALSE), Root, OldRoot,
               Cert("stray", "astray", 1, FALSE)}

Stores == {{Root}, {Root, OldRoot}, {}}
=============================================================================
