------------------------ MODULE MCRendererLifecycle ------------------------
(* RendererLifecycle on a short clock *)
EXTENDS RendererLifecycle

MCDelay == <<1, 1, 2>>
=============================================================================
