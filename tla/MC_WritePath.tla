----------------------------- MODULE MC_WritePath ------------------------------
EXTENDS WritePath

Resp(head, body, kind, close) == [head |-> head, body |-> body, kind |-> kind, close |-> close]

\* A header block that needs two buffers and a file that needs two chunks; a
\* header block that fills its buffer, without a body; a string to end with.
ThreeKinds == <<Resp(3, 3, "BODY_FILE", FALSE),
                Resp(2, 0, "BODY_NONE", FALSE),
                Resp(5, 2, "BODY_STRING", TRUE),
                Resp(1, 1, "BODY_FILE", FALSE)>>
================================================================================
