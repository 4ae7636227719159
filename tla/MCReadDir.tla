------------------------------- MODULE MCReadDir -------------------------------
(* Model values for ReadDir: directories of up to four entries.               *)
EXTENDS ReadDir

MCNames  == {"a", "b"}
MCErrnos == {5, 9}     \* EIO, EBADF
===============================================================================
