------------------------------ MODULE Win32Env ------------------------------
(***************************************************************************)
(* win32_impl_src/env_win32.cc and util/env.cc: the file-system side of    *)
(* Win32Env as threads of one process use it.  Every file object holds a   *)
(* Win32 handle opened with CreateFileW, whose access and share modes      *)
(* decide which later opens, deletes and renames of the same file fail    *)
(* with a sharing violation.  RenameFile and the helpers WriteStringToFile *)
(* and ReadFileToString are split where another thread can run between     *)
(* their system calls.                                                     *)
(*                                                                         *)
(* A file's content is a model value of Data, Empty or Absent; what a      *)
(* WritableFile does with its bytes is the subject of Win32MapFile and is  *)
(* one step here.  A file deleted while handles that share deletion are    *)
(* open is unlinked at once and those handles write to an orphan.          *)
(***************************************************************************)
EXTENDS Naturals, FiniteSets

CONSTANTS
    Threads,    \* threads calling the Env
    Names,      \* file names
    Data,       \* contents written by WriteStringToFile
    Protected   \* names callers never delete or rename away (CURRENT)

Absent == "absent"                  \* no file of that name
Empty  == "empty"                   \* a file of length 0
Orphan == "orphan"                  \* the name of a deleted file still open
NoName == "none"
Contents == Data \cup {Empty}

(* Access rights and share modes of CreateFileW.                           *)
R == "read"
W == "write"
D == "delete"
Rights == {R, W, D}

Handle == [kind : {"seq", "rand", "map", "lock"}, name : Names \cup {Orphan},
           valid : BOOLEAN, acc : SUBSET Rights, shr : SUBSET Rights]
NoHandle == [kind |-> "none", name |-> NoName, valid |-> FALSE, acc |-> {}, shr |-> {}]

Pcs == {"idle", "write", "read", "random", "locked", "rename"}

VARIABLES
    fs,         \* the directory: name -> content or Absent
    h,          \* the file object each thread holds, or NoHandle
    op,         \* each thread's call in progress: [pc, name, tgt, data]
    last        \* history: the call that returned last and what it did

vars == <<fs, h, op, last>>

Idle == [pc |-> "idle", name |-> NoName, tgt |-> NoName, data |-> NoName]
Ops == {"none", "new_writable", "write", "new_sequential", "read", "new_random",
        "get_size", "lock", "delete", "rename", "crash"}

TypeOK ==
    /\ fs \in [Names -> Contents \cup {Absent}]
    /\ h \in [Threads -> Handle \cup {NoHandle}]
    /\ op \in [Threads -> [pc : Pcs, name : Names \cup {NoName},
                           tgt : Names \cup {NoName}, data : Data \cup {NoName}]]
    /\ last \in [op : Ops, ok : BOOLEAN, effect : BOOLEAN]

(* The status a call returned and whether it did what it reports.         *)
Ret(o, ok, effect) == [op |-> o, ok |-> ok, effect |-> effect]

Init ==
    /\ fs \in {f \in [Names -> Contents \cup {Absent}] : \A n \in Protected : f[n] # Absent}
    /\ h = [t \in Threads |-> NoHandle]
    /\ op = [t \in Threads |-> Idle]
    /\ last = Ret("none", TRUE, TRUE)

-----------------------------------------------------------------------------
(* The sharing check of CreateFileW (IoCheckShareAccess): a new open with  *)
(* access acc and share mode shr fails when it asks for a right an open    *)
(* handle does not share, or an open handle holds a right the new open     *)
(* does not share.  An open asking for none of read, write and delete is   *)
(* neither checked nor recorded, so its share mode excludes nothing.       *)
Holders(n) == {t \in Threads : h[t].valid /\ h[t].name = n /\ h[t].acc # {}}

Conflicts(n, acc, shr) ==
    /\ acc # {}
    /\ \E t \in Holders(n) : (acc \ h[t].shr) # {} \/ (h[t].acc \ shr) # {}

(* DeleteFileW and MoveFileW open the file for DELETE, sharing everything. *)
CanUnlink(n) == fs[n] # Absent /\ ~Conflicts(n, {D}, Rights)

(* Handles of a file that is unlinked keep it open as an orphan; handles  *)
(* of a file that is moved follow it to its new name.                     *)
Orphaned(hh, n) ==
    [t \in Threads |-> IF hh[t].valid /\ hh[t].name = n
                       THEN [hh[t] EXCEPT !.name = Orphan] ELSE hh[t]]

Moved(hh, s, tg) ==
    [t \in Threads |-> IF hh[t].valid /\ hh[t].name = s
                       THEN [hh[t] EXCEPT !.name = tg] ELSE hh[t]]
-----------------------------------------------------------------------------
(* Win32MapFile::_Init through NewWritableFile: CREATE_ALWAYS when         *)
(* PathFileExistsW finds no file, else OPEN_EXISTING, for read and write   *)
(* sharing everything.  A failed CreateFileW leaves INVALID_HANDLE_VALUE,  *)
(* which isEnable takes for an open file, so the status is always OK.      *)
NewWritableFile(n) ==
    [kind |-> "map", name |-> n, valid |-> ~Conflicts(n, {R, W}, Rights),
     acc |-> {R, W}, shr |-> Rights]

(* WriteStringToFile, up to the return of NewWritableFile.                 *)
StartWriteStringToFile(t, n, d) ==
    LET file == NewWritableFile(n)
    IN  /\ op[t].pc = "idle"
        /\ fs' = IF file.valid /\ fs[n] = Absent THEN [fs EXCEPT ![n] = Empty] ELSE fs
        /\ h' = [h EXCEPT ![t] = file]
        /\ op' = [op EXCEPT ![t] = [Idle EXCEPT !.pc = "write", !.name = n, !.data = d]]
        /\ last' = Ret("new_writable", TRUE, file.valid)

(* Mutant: the call is reset before its data is written.                   *)
FinishWriteResetFirst(t) ==
    LET n == op[t].name
        op1 == [op EXCEPT ![t] = Idle]
    IN  /\ op[t].pc = "write"
        /\ op' = op1
        /\ IF h[t].valid
           THEN /\ fs' = IF h[t].name \in Names
                         THEN [fs EXCEPT ![h[t].name] = op1[t].data] ELSE fs
                /\ h' = [h EXCEPT ![t] = NoHandle]
                /\ last' = Ret("write", TRUE, TRUE)
           ELSE /\ IF CanUnlink(n)
                   THEN /\ fs' = [fs EXCEPT ![n] = Absent]
                        /\ h' = Orphaned([h EXCEPT ![t] = NoHandle], n)
                   ELSE /\ fs' = fs
                        /\ h' = [h EXCEPT ![t] = NoHandle]
                /\ last' = Ret("write", FALSE, FALSE)

(* The rest of WriteStringToFile: Append and Close of the Win32MapFile (one *)
(* step here), delete file, and DeleteFile(fname) when the status is not   *)
(* OK, whatever DeleteFile returns.  On INVALID_HANDLE_VALUE, Append fails *)
(* in _MapNewRegion and the destructor does not Close.                     *)
FinishWriteStringToFile(t) ==
    LET n == op[t].name
    IN  /\ op[t].pc = "write"
        /\ IF h[t].valid
           THEN /\ fs' = IF h[t].name \in Names
                         THEN [fs EXCEPT ![h[t].name] = op[t].data] ELSE fs
                /\ h' = [h EXCEPT ![t] = NoHandle]
                /\ last' = Ret("write", TRUE, TRUE)
           ELSE /\ IF CanUnlink(n)
                   THEN /\ fs' = [fs EXCEPT ![n] = Absent]
                        /\ h' = Orphaned([h EXCEPT ![t] = NoHandle], n)
                   ELSE /\ fs' = fs
                        /\ h' = [h EXCEPT ![t] = NoHandle]
                /\ last' = Ret("write", FALSE, FALSE)
        /\ op' = [op EXCEPT ![t] = Idle]

(* Win32SequentialFile::_Init: OPEN_EXISTING for reading, sharing reads    *)
(* only; the handle is kept even when it is INVALID_HANDLE_VALUE, which    *)
(* isEnable takes for an open file.                                        *)
SequentialFileInit(n) ==
    [kind |-> "seq", name |-> n, acc |-> {R}, shr |-> {R},
     valid |-> fs[n] # Absent /\ ~Conflicts(n, {R}, {R})]

(* Win32SequentialFile::Read: ReadFile on the handle; on INVALID_HANDLE_VALUE *)
(* it fails and the status is IOError.                                     *)
SequentialRead(hh) == hh.valid

(* ReadFileToString up to the return of NewSequentialFile, which is OK     *)
(* whenever isEnable is.                                                   *)
StartReadFileToString(t, n) ==
    LET file == SequentialFileInit(n)
    IN  /\ op[t].pc = "idle"
        /\ h' = [h EXCEPT ![t] = file]
        /\ op' = [op EXCEPT ![t] = [Idle EXCEPT !.pc = "read", !.name = n]]
        /\ last' = Ret("new_sequential", TRUE, file.valid)
        /\ UNCHANGED fs

(* The read loop, Read until an error or an empty fragment; then delete    *)
(* file closes the handle.                                                 *)
FinishReadFileToString(t) ==
    /\ op[t].pc = "read"
    /\ h' = [h EXCEPT ![t] = NoHandle]
    /\ op' = [op EXCEPT ![t] = Idle]
    /\ last' = Ret("read", SequentialRead(h[t]), SequentialRead(h[t]))
    /\ UNCHANGED fs
(* Win32RandomAccessFile::_Init: OPEN_EXISTING for reading with share mode *)
(* 0; INVALID_HANDLE_VALUE becomes NULL, so isEnable is FALSE.             *)
RandomAccessFileInit(n) ==
    [kind |-> "rand", name |-> n, acc |-> {R}, shr |-> {},
     valid |-> fs[n] # Absent /\ ~Conflicts(n, {R}, {})]

(* NewRandomAccessFile: on a failed isEnable the object is deleted and     *)
(* IOError returned.                                                       *)
NewRandomAccessFile(t, n) ==
    LET file == RandomAccessFileInit(n)
        opened == file.valid
    IN  /\ op[t].pc = "idle"
        /\ h' = IF opened THEN [h EXCEPT ![t] = file] ELSE h
        /\ op' = IF opened THEN [op EXCEPT ![t] = [Idle EXCEPT !.pc = "random", !.name = n]]
                 ELSE op
        /\ last' = Ret("new_random", opened, opened)
        /\ UNCHANGED fs

(* delete of the Win32RandomAccessFile: _CleanUp closes the handle.        *)
CloseRandomAccessFile(t) ==
    /\ op[t].pc = "random"
    /\ h' = [h EXCEPT ![t] = NoHandle]
    /\ op' = [op EXCEPT ![t] = Idle]
    /\ UNCHANGED <<fs, last>>

(* GetFileSize: a transient handle for reading, sharing reads.             *)
GetFileSize(t, n) ==
    LET ok == fs[n] # Absent /\ ~Conflicts(n, {R}, {R})
    IN  /\ op[t].pc = "idle"
        /\ last' = Ret("get_size", ok, ok)
        /\ UNCHANGED <<fs, h, op>>

(* Mutant: the lock file is opened sharing deletion.                       *)
FileLockInitShareDelete(n) ==
    LET acc == IF fs[n] # Absent THEN {W} ELSE {}
    IN  [kind |-> "lock", name |-> n, acc |-> acc, shr |-> {D},
         valid |-> ~Conflicts(n, acc, {D})]

(* Win32FileLock::_Init: CreateFileW with no access, share mode 0 and      *)
(* CREATE_ALWAYS, which truncates an existing file and so also asks for    *)
(* write access; INVALID_HANDLE_VALUE becomes NULL.                        *)
FileLockInit(n) ==
    LET acc == IF fs[n] # Absent THEN {W} ELSE {}
    IN  [kind |-> "lock", name |-> n, acc |-> acc, shr |-> {},
         valid |-> ~Conflicts(n, acc, {})]

(* LockFile: on a failed isEnable the lock is deleted and IOError          *)
(* returned; the file it created or truncated stays.                       *)
LockFile(t, n) ==
    LET file == FileLockInit(n)
        opened == file.valid
    IN  /\ op[t].pc = "idle"
        /\ fs' = IF opened THEN [fs EXCEPT ![n] = Empty] ELSE fs
        /\ h' = IF opened THEN [h EXCEPT ![t] = file] ELSE h
        /\ op' = IF opened THEN [op EXCEPT ![t] = [Idle EXCEPT !.pc = "locked", !.name = n]]
                 ELSE op
        /\ last' = Ret("lock", opened, opened)

(* UnlockFile: delete lock closes the handle; the file stays.              *)
UnlockFile(t) ==
    /\ op[t].pc = "locked"
    /\ h' = [h EXCEPT ![t] = NoHandle]
    /\ op' = [op EXCEPT ![t] = Idle]
    /\ UNCHANGED <<fs, last>>

(* DeleteFile: DeleteFileW, IOError when it fails.                         *)
DeleteFile(t, n) ==
    LET ok == CanUnlink(n)
    IN  /\ op[t].pc = "idle"
        /\ fs' = IF ok THEN [fs EXCEPT ![n] = Absent] ELSE fs
        /\ h' = IF ok THEN Orphaned(h, n) ELSE h
        /\ last' = Ret("delete", ok, ok)
        /\ UNCHANGED op

(* MoveFile(src, target) fails with ERROR_FILE_NOT_FOUND or a sharing      *)
(* violation on the source before it looks at the target, and with         *)
(* ERROR_ALREADY_EXISTS (0xb7) when the target exists.                     *)
MoveFails(s, tg) == fs[s] = Absent \/ Conflicts(s, {D}, Rights) \/ fs[tg] # Absent

(* RenameFile, first MoveFile: on success OK; on 0xb7 DeleteFileW(target)  *)
(* and, when that succeeds, a second MoveFileW follows as a step of its    *)
(* own; any other error of MoveFile is dropped and the status stays OK.    *)
RenameFile(t, s, tg) ==
    /\ op[t].pc = "idle"
    /\ s # tg
    /\ CASE ~MoveFails(s, tg) ->
              /\ fs' = [fs EXCEPT ![tg] = fs[s], ![s] = Absent]
              /\ h' = Moved(h, s, tg)
              /\ last' = Ret("rename", TRUE, TRUE)
              /\ UNCHANGED op
         [] fs[s] = Absent \/ Conflicts(s, {D}, Rights) ->
              /\ last' = Ret("rename", TRUE, FALSE)
              /\ UNCHANGED <<fs, h, op>>
         [] CanUnlink(tg) ->
              /\ fs' = [fs EXCEPT ![tg] = Absent]
              /\ h' = Orphaned(h, tg)
              /\ op' = [op EXCEPT ![t] = [Idle EXCEPT !.pc = "rename", !.name = s, !.tgt = tg]]
              /\ UNCHANGED last
         [] OTHER ->
              /\ last' = Ret("rename", FALSE, FALSE)
              /\ UNCHANGED <<fs, h, op>>

(* RenameFile, the MoveFileW after the target was deleted: IOError when   *)
(* it fails.                                                               *)
RenameRetry(t) ==
    LET s == op[t].name
        tg == op[t].tgt
        ok == ~MoveFails(s, tg)
    IN  /\ op[t].pc = "rename"
        /\ fs' = IF ok THEN [fs EXCEPT ![tg] = fs[s], ![s] = Absent] ELSE fs
        /\ h' = IF ok THEN Moved(h, s, tg) ELSE h
        /\ op' = [op EXCEPT ![t] = Idle]
        /\ last' = Ret("rename", ok, ok)

(* The process dies: the system closes every handle, the directory stays.  *)
Crash ==
    /\ h' = [t \in Threads |-> NoHandle]
    /\ op' = [t \in Threads |-> Idle]
    /\ last' = Ret("crash", TRUE, TRUE)
    /\ UNCHANGED fs

Next ==
    \/ \E t \in Threads :
          \/ \E n \in Names, d \in Data : StartWriteStringToFile(t, n, d)
          \/ FinishWriteStringToFile(t)
          \/ \E n \in Names : StartReadFileToString(t, n)
          \/ FinishReadFileToString(t)
          \/ \E n \in Names : NewRandomAccessFile(t, n) \/ GetFileSize(t, n)
          \/ CloseRandomAccessFile(t)
          \/ \E n \in Names : LockFile(t, n)
          \/ UnlockFile(t)
          \/ \E n \in Names \ Protected : DeleteFile(t, n)
          \/ \E s \in Names \ Protected, tg \in Names : RenameFile(t, s, tg)
          \/ RenameRetry(t)
    \/ Crash

Spec == Init /\ [][Next]_vars
-----------------------------------------------------------------------------
(* Two threads never hold Win32FileLocks on one file at once: LockFile     *)
(* opens LOCK with share mode 0 so that a second LockFile fails (the       *)
(* Win32FileLock contract of env_win32.cc).  On a LOCK file that does not  *)
(* exist yet the open asks for no access, so the share check ignores it.   *)
LockExclusive ==
    \A t, u \in Threads :
        t # u /\ h[t].kind = "lock" /\ h[u].kind = "lock" => h[t].name # h[u].name

(* While a thread holds a Win32FileLock whose handle has access (LOCK      *)
(* existed, so CREATE_ALWAYS opened it for writing), no step of another    *)
(* thread deletes, replaces, renames or rewrites the locked file.          *)
LockedFileIntact ==
    [][\A t \in Threads :
          h[t].kind = "lock" /\ h[t].acc # {} /\ op'[t] = op[t]
              => fs'[h[t].name] = fs[h[t].name]]_vars

(* A WriteStringToFile that fails never destroys a file it did not write:  *)
(* its open failed, so had NewWritableFile returned the error, the call    *)
(* would have returned before its DeleteFile (env.cc, "if (!s.ok()) return *)
(* s;").                                                                   *)
FailedWriteKeepsFiles ==
    [][\A t \in Threads :
          op[t].pc = "write" /\ last'.op = "write" /\ ~last'.ok => fs' = fs]_vars

(* A name the callers never delete, CURRENT, is never missing: RenameFile  *)
(* onto it replaces it.                                                    *)
ProtectedPresent == \A n \in Protected : fs[n] # Absent

(* RenameFile returns OK only when the file was renamed.                   *)
RenameOkMeansMoved == last.op = "rename" /\ last.ok => last.effect

(* The contract SetCurrentFile relies on: RenameFile replaces its target   *)
(* in one step, so CURRENT is never missing, and it reports OK exactly     *)
(* when it renamed.                                                        *)
RenameContract == ProtectedPresent /\ RenameOkMeansMoved
=============================================================================
