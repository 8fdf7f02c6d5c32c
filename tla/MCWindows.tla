------------------------------ MODULE MCWindows ------------------------------
(* For TLC, the parts of the Windows port, each on its own: they share no   *)
(* state but the macros of WinHandle.  wh is the state of the part win.     *)
EXTENDS WinTcp, WinPipe, WinTty, WinUdp, WinPoll, WinFsEvent,
        WinProcess, WinFile, WinFs, WinLoop

CONSTANT WinParts   \* the modules to look at

VARIABLE win

AcceptReqs == <<"a1", "a2">>
ServerInstances == <<"i1", "i2", "i3">>

\* Bytes for the console, in groups: UTF-8 and ends of lines; moves of the caret
\* (ESC [ ; 1 2 A..H s u); styles (m, with 1 and 7 and with
\* the colours 33 and 37, alone and in lists, saved and restored); clears
\* (J K c); control strings and the shape of the cursor; extensions (? 2 5 l h).
Console(bytes, screens) == [bytes |-> bytes, screens |-> screens]
ConsoleInputs ==
  {Console({10, 13, 65, 194, 155, 226, 240, 255}, {<<2, 2, 2>>}),
   Console({10, 27, 49, 59, 65, 72, 91}, {<<2, 3, 2>>}),
   Console({27, 50, 66, 67, 68, 69, 70, 71, 91, 115, 117}, {<<2, 3, 2>>}),
   Console({27, 49, 55, 56, 91, 109}, {<<1, 1, 1>>}),
   Console({27, 49, 55, 59, 91, 109}, {<<1, 1, 1>>}),
   Console({27, 51, 55, 59, 91, 109}, {<<1, 1, 1>>}),
   Console({27, 49, 50, 72, 74, 75, 91, 99}, {<<2, 3, 2>>, <<1, 2, 1>>}),
   Console({7, 27, 32, 34, 64, 91, 92, 93, 113}, {<<1, 1, 1>>}),
   Console({27, 50, 53, 63, 91, 95, 104, 108, 126}, {<<1, 1, 1>>})}

\* What uv_spawn() is given: arguments of letters, blanks, quotes and backslashes;
\* environments of variables 1 to 5, where 2 and 4 are required; paths of the
\* directories a and b with separators and quotes, and files in some of them.
Chars == {"a", " ", "\t", "\"", "\\"}
ProgramInputs ==
  [what : {"args"}, args : [1 .. 1 -> BoundedSeq(Chars, 3)] \cup [1 .. 2 -> BoundedSeq(Chars, 2)]]
  \cup [what : {"env"}, env : BoundedSeq(0 .. 5, 3), required : {<<2, 4>>}, parent : SUBSET {2, 4}]
  \cup [what : {"search"}, path : BoundedSeq({"a", "b", ";", "\""}, 4), has_ext : BOOLEAN,
         files : SUBSET {<<<<>>, "exe">>, <<<<"a">>, "com">>, <<<<"b">>, "">>}]

\* Paths of a drive, separators and names, and times around 1970.
NamesAndTimes ==
  [what : {"path"}, path : BoundedSeq({"C", ":", "\\", "/"}, 6)]
  \cup [what : {"time"}, time : -9 .. 9]

WindowsInit ==
  /\ win \in WinParts
  /\ \/ win = "tcp" /\ WinTcpInit
     \/ win = "pipe" /\ WinPipeInit
     \/ win = "pipe_server" /\ WinPipeServerInit
     \/ win = "tty" /\ WinTtyInit
     \/ win = "ansi" /\ WinAnsiInit
     \/ win = "udp" /\ WinUdpInit
     \/ win = "poll" /\ WinPollInit
     \/ win = "fs_event" /\ WinFsEventInit
     \/ win = "process" /\ WinProcessInit
     \/ win = "command" /\ WinCommandInit
     \/ win = "open" /\ WinOpenInit
     \/ win = "file" /\ WinFileInit
     \/ win = "hash" /\ WinHashInit
     \/ win = "fs" /\ WinFsInit
     \/ win = "dirs" /\ WinDirInit
     \/ win = "paths" /\ WinPathInit
     \/ win = "run" /\ WinRunInit
     \/ win = "wait" /\ WinWaitInit
     \/ win = "watchers" /\ WinWatchInit
     \/ win = "signal" /\ WinSignalInit
     \/ win = "loops" /\ WinLoopsInit
     \/ win = "resolve" /\ WinResolveInit

WindowsNext ==
  /\ win' = win
  /\ \/ win = "tcp" /\ WinTcpNext
     \/ win = "pipe" /\ WinPipeNext
     \/ win = "pipe_server" /\ WinPipeServerNext
     \/ win = "tty" /\ WinTtyNext
     \/ win = "ansi" /\ WinAnsiNext
     \/ win = "udp" /\ WinUdpNext
     \/ win = "poll" /\ WinPollNext
     \/ win = "fs_event" /\ WinFsEventNext
     \/ win = "process" /\ WinProcessNext
     \/ win = "command" /\ WinCommandNext
     \/ win = "open" /\ WinOpenNext
     \/ win = "file" /\ WinFileNext
     \/ win = "hash" /\ WinHashNext
     \/ win = "fs" /\ WinFsNext
     \/ win = "dirs" /\ WinDirNext
     \/ win = "paths" /\ WinPathNext
     \/ win = "run" /\ WinRunNext
     \/ win = "wait" /\ WinWaitNext
     \/ win = "watchers" /\ WinWatchNext
     \/ win = "signal" /\ WinSignalNext
     \/ win = "loops" /\ WinLoopsNext
     \/ win = "resolve" /\ WinResolveNext

WindowsSpec == WindowsInit /\ [][WindowsNext]_<<win, wh>>

\* A TCP socket, a named pipe and the server of one keep their promises (WinTcp,
\* WinPipe): every request counted and answered once, the end only
\* when the system holds nothing, nothing taken by two.
WinStreamSound ==
  /\ win = "tcp" => WinTcpSound
  /\ win = "pipe" => WinPipeSound
  /\ win = "pipe_server" => WinPipeServerSound

\* So do the input of the console, with its thread and its lock, and the output with
\* its escape sequences (WinTty).
WinConsoleSound ==
  /\ win = "tty" => WinTtySound
  /\ win = "ansi" => WinAnsiSound

\* A datagram socket, a polled socket, a watched path and a child process keep
\* theirs (WinUdp, WinPoll, WinFsEvent, WinProcess): what is asked for stays asked
\* for, whatever callbacks stop, start and close, and nothing the system may still
\* answer outlives the handle.
WinHandleSound ==
  /\ win = "udp" => WinUdpSound
  /\ win = "poll" => WinPollSound
  /\ win = "fs_event" => WinFsEventSound
  /\ win = "process" => WinProcessSound

\* A file opened with UV_FS_O_FILEMAP is the file it would be without (WinFile): who
\* may open it and what is found, what reads, writes and truncations do, and which
\* descriptors are remembered.  A file request says what happened, holds nothing
\* after uv_fs_req_cleanup(), and gives every entry, name and time as they are (WinFs).
\* The strings a child is started with say what the caller meant (WinProcess).
WinDataExact ==
  /\ win = "open" => WinOpenSound
  /\ win = "file" => WinFileSound
  /\ win = "hash" => WinHashSound
  /\ win = "fs" => WinFsSound
  /\ win = "dirs" => WinDirSound
  /\ win = "paths" => WinPathSound
  /\ win = "command" => WinCommandSound

\* The loop of the port keeps its promises (WinLoop): wake-ups, waits, watchers,
\* signals, the table of loops and the memory of name resolution.
WinLoopSound ==
  /\ win = "run" => WinRunSound
  /\ win = "wait" => WinWaitSound
  /\ win = "watchers" => WinWatchSound
  /\ win = "signal" => WinSignalSound
  /\ win = "loops" => WinLoopsSound
  /\ win = "resolve" => WinResolveSound
=============================================================================
