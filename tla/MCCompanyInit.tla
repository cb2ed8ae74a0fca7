--------------------------- MODULE MCCompanyInit ---------------------------
(* Small instances of CompanyInit for TLC. *)
EXTENDS CompanyInit

\* The same request twice, which the daemon refuses, and the wizard's progress
\* notes next to whatever does not write the company's state.
Tame == {{op} : op \in {"selfcheck", "assemble", "link", "sync", "confirm"}}
            \cup {{"progress", op} : op \in {"selfcheck", "link", "claim", "sync", "confirm", "collab"}}
=============================================================================
