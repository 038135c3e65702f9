--------------------------- MODULE MC_TrustStores ---------------------------
(* Small instances of TrustStores: one or two profiles, one store, a Root CA *)
(* and an intermediate.                                                      *)
EXTENDS TrustStores, TLC

CONSTANTS e1, e2, i1, i2, s1, root, inter

NoneOrAll == {{}, Stores}
Symmetric == Permutations({e1, e2}) \cup Permutations({i1, i2})
=============================================================================
