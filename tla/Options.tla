------------------------------ MODULE Options -------------------------------
(* Rust's Option: nothing, or one thing. Unwrapping nothing is a panic,    *)
(* which the users of this module look out for.                            *)

None == {}
Some(x) == {x}
Unwrap(option) == CHOOSE x \in option : TRUE
=============================================================================
