------------------------------ MODULE Optional ------------------------------
(* The None of Rust's Option, shared by the modules of the components.     *)
CONSTANT NULL
=============================================================================
