----------------------------- MODULE MCServlet -----------------------------
(* Servlet on a small instance. *)
EXTENDS Servlet

=============================================================================
