------------------------------ MODULE MCUartTx ------------------------------
(***************************************************************************)
(* Small instance: a ring of two bytes; a handler echoes a byte, erases    *)
(* one, erases none, takes the end of an empty line, or prints a byte from *)
(* the DONE handler.                                                       *)
(***************************************************************************)
EXTENDS UartTx

Jobs(sends, size, isUsart) == [sends |-> sends, size |-> size, usart |-> isUsart]
MCHandlerJobs == {Jobs(1, 1, TRUE), Jobs(3, 1, TRUE), Jobs(3, 0, TRUE), Jobs(0, 0, TRUE),
                  Jobs(1, 1, FALSE)}
=============================================================================
