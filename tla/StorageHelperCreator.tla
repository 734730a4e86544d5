------------------------- MODULE StorageHelperCreator -------------------------
(***************************************************************************)
(* StorageHelperCreator::getStorageHelper: a storage is reached through    *)
(* one helper, chosen by its name.  The specification is the sum of those  *)
(* of the helpers: one behaviour is one of the helper created.             *)
(*                                                                         *)
(* Helpers share no state, so their modules share the variables of the     *)
(* same name; those a helper does not have keep the value None.            *)
(* PosixHelper has two modules, for operations on paths and on open files, *)
(* and so do the object stores, for the blocks of a file and for the calls *)
(* below.  The buffering proxy in front of a helper is module              *)
(* BufferedFile.                                                           *)
(***************************************************************************)
EXTENDS StorageHelper, Integers, FiniteSets

CONSTANTS
    None,
    Users, Settable, KeepUser, ProcessUser, Directory,              \* PosixHelper
    Handles, NoHandle, Descriptors, MaxQueue, MaxChunks,            \* PosixFileHandle
    Sessions, Ops, RangeWriteSupport,                               \* WebDAVHelper
    Calls, Helpers, FileHelper, MaxContexts, NoWorker, NoHelper,    \* GlusterFSHelper
    Crashed,                                                        \* CephHelper
    Trees, Filters, GrowSpeed, MaxTime, MaxCount,                   \* NullDeviceHelper
    Old, MaxOps, BlockSize, Blocks, NoObject, MAX_DELETE_OBJECTS, Stores,  \* KeyValueAdapter
    MaxAccounts, MaxBatches                                         \* ObjectStores

ASSUME PosixAssumption == Settable \subseteq Users /\ KeepUser \in Users \ Settable

VARIABLES
    helper,     \* the module of the helper created
    worker, mutex, fsuid, cluster, handle, closeRepeated, op, store,
    errno, queue, exec, fdOwner, refused, idle, session, lost, rangeWrite,
    call, connection, glfsCtx, contexts, initialized, m_connected, lockers,
    params, filter, drain, now, object, locks, started, latest, excused, accounts, connected

\* Threads of the POSIX and null device helpers share nothing: one shows what each does.
OneThread == {CHOOSE w \in Workers : TRUE}

Posix == INSTANCE PosixHelper WITH Workers <- OneThread
File == INSTANCE PosixFileHandle WITH Users <- Settable
WebDAV == INSTANCE WebDAVHelper
GlusterFS == INSTANCE GlusterFSHelper
Ceph == INSTANCE CephHelper
NullDevice == INSTANCE NullDeviceHelper WITH Workers <- OneThread
KeyValue == INSTANCE KeyValueAdapter
Objects == INSTANCE ObjectStores

\* Variables only one of the modules has.
fileVars == <<queue, exec, fdOwner, refused>>
webDAVVars == <<idle, session, lost, rangeWrite>>
glusterFSVars == <<call, connection, glfsCtx, contexts, initialized>>
cephVars == <<m_connected, lockers>>
nullDeviceVars == <<params, filter, drain, now>>
keyValueVars == <<object, locks, started, latest, excused>>
objectsVars == <<accounts, connected>>

NoFile == queue = None /\ exec = None /\ fdOwner = None /\ refused = None
NoWebDAV == idle = None /\ session = None /\ lost = None /\ rangeWrite = None
NoGlusterFS ==
    call = None /\ connection = None /\ glfsCtx = None /\ contexts = None /\ initialized = None
NoCeph == m_connected = None /\ lockers = None
NoNullDevice == params = None /\ filter = None /\ drain = None /\ now = None
NoKeyValue == object = None /\ locks = None /\ started = None /\ latest = None /\ excused = None
NoObjects == accounts = None /\ connected = None

\* The helper of a name is created.
getStorageHelper(name) ==
    /\ helper = name
    /\ \/ /\ name = "posix" /\ Posix!Init
          /\ NoFile /\ NoWebDAV /\ NoGlusterFS /\ NoCeph /\ NoNullDevice /\ NoKeyValue /\ NoObjects
          /\ mutex = None /\ cluster = None /\ handle = None /\ closeRepeated = None
          /\ op = None /\ store = None
       \/ /\ name = "posix file" /\ File!Init
          /\ NoWebDAV /\ NoGlusterFS /\ NoCeph /\ NoNullDevice /\ NoKeyValue /\ NoObjects
          /\ mutex = None /\ cluster = None /\ op = None /\ store = None /\ errno = None
       \/ /\ name = "webdav" /\ WebDAV!Init
          /\ NoFile /\ NoGlusterFS /\ NoCeph /\ NoNullDevice /\ NoKeyValue /\ NoObjects
          /\ worker = None /\ mutex = None /\ fsuid = None /\ cluster = None /\ handle = None
          /\ closeRepeated = None /\ store = None /\ errno = None
       \/ /\ name = "glusterfs" /\ GlusterFS!Init
          /\ NoFile /\ NoWebDAV /\ NoCeph /\ NoNullDevice /\ NoKeyValue /\ NoObjects
          /\ worker = None /\ cluster = None /\ op = None /\ store = None /\ errno = None
       \/ /\ name = "ceph" /\ Ceph!Init
          /\ NoFile /\ NoWebDAV /\ NoGlusterFS /\ NoNullDevice /\ NoKeyValue /\ NoObjects
          /\ fsuid = None /\ handle = None /\ closeRepeated = None /\ op = None /\ store = None
          /\ errno = None
       \/ /\ name = "nulldevice" /\ NullDevice!Init
          /\ NoFile /\ NoWebDAV /\ NoGlusterFS /\ NoCeph /\ NoKeyValue /\ NoObjects
          /\ mutex = None /\ fsuid = None /\ cluster = None /\ handle = None
          /\ closeRepeated = None /\ op = None /\ store = None /\ errno = None
       \/ /\ name = "object store" /\ KeyValue!Init
          /\ NoFile /\ NoWebDAV /\ NoGlusterFS /\ NoCeph /\ NoNullDevice /\ NoObjects
          /\ worker = None /\ mutex = None /\ fsuid = None /\ cluster = None /\ handle = None
          /\ closeRepeated = None /\ errno = None
       \/ /\ name = "object store calls" /\ Objects!Init
          /\ NoFile /\ NoWebDAV /\ NoGlusterFS /\ NoCeph /\ NoNullDevice /\ NoKeyValue
          /\ fsuid = None /\ handle = None /\ closeRepeated = None /\ op = None /\ errno = None

Names == {"posix", "posix file", "webdav", "glusterfs", "ceph", "nulldevice",
          "object store", "object store calls"}

Init == \E name \in Names : getStorageHelper(name)

PosixNext ==
    /\ helper = "posix" /\ Posix!Next
    /\ UNCHANGED <<helper, mutex, cluster, handle, closeRepeated, op, store, fileVars, webDAVVars,
                   glusterFSVars, cephVars, nullDeviceVars, keyValueVars, objectsVars>>

FileNext ==
    /\ helper = "posix file" /\ File!Next
    /\ UNCHANGED <<helper, mutex, cluster, op, store, errno, webDAVVars,
                   glusterFSVars, cephVars, nullDeviceVars, keyValueVars, objectsVars>>

WebDAVNext ==
    /\ helper = "webdav" /\ WebDAV!Next
    /\ UNCHANGED <<helper, worker, mutex, fsuid, cluster, handle, closeRepeated, store, errno, fileVars,
                   glusterFSVars, cephVars, nullDeviceVars, keyValueVars, objectsVars>>

GlusterFSNext ==
    /\ helper = "glusterfs" /\ GlusterFS!Next
    /\ UNCHANGED <<helper, worker, cluster, op, store, errno, fileVars, webDAVVars,
                   cephVars, nullDeviceVars, keyValueVars, objectsVars>>

CephNext ==
    /\ helper = "ceph" /\ Ceph!Next
    /\ UNCHANGED <<helper, fsuid, handle, closeRepeated, op, store, errno, fileVars, webDAVVars,
                   glusterFSVars, nullDeviceVars, keyValueVars, objectsVars>>

NullDeviceNext ==
    /\ helper = "nulldevice" /\ NullDevice!Next
    /\ UNCHANGED <<helper, mutex, fsuid, cluster, handle, closeRepeated, op, store, errno, fileVars,
                   webDAVVars, glusterFSVars, cephVars, keyValueVars, objectsVars>>

KeyValueNext ==
    /\ helper = "object store" /\ KeyValue!Next
    /\ UNCHANGED <<helper, worker, mutex, fsuid, cluster, handle, closeRepeated, errno, fileVars,
                   webDAVVars, glusterFSVars, cephVars, nullDeviceVars, objectsVars>>

ObjectsNext ==
    /\ helper = "object store calls" /\ Objects!Next
    /\ UNCHANGED <<helper, fsuid, handle, closeRepeated, op, errno, fileVars, webDAVVars,
                   glusterFSVars, cephVars, nullDeviceVars, keyValueVars>>

Next ==
    \/ PosixNext \/ FileNext \/ WebDAVNext \/ GlusterFSNext
    \/ CephNext \/ NullDeviceNext \/ KeyValueNext \/ ObjectsNext

vars == <<helper, worker, mutex, fsuid, cluster, handle, closeRepeated, op, store, errno, fileVars,
          webDAVVars, glusterFSVars, cephVars, nullDeviceVars, keyValueVars, objectsVars>>

Spec == Init /\ [][Next]_vars

-----------------------------------------------------------------------------
\* The properties of the helpers, explained in their modules.

\* Threads act as the user of their operation, and as the process between operations.
CallsAsOwner == helper = "posix" => Posix!CallsAsOwner

\* A retry error is answered after all retries, and is what the last call left in errno.
GivesUpWithErrno == [][helper = "posix" => Posix!GivesUpWithErrno]_vars

\* A directory listing of PosixHelper::readdir is a slice of the directory.
ListingIsSlice == helper = "posix" => Posix!ListingIsSlice

\* The calls on an open file reach the file its descriptor was opened for.
OwnDescriptor == helper = "posix file" => File!OwnDescriptor

\* A descriptor stays open behind a destroyed handle only if its release was refused.
LeftOpenOnlyIfRefused == helper = "posix file" => File!LeftOpenOnlyIfRefused

\* A WebDAV session is idle once, or one operation has it.
SessionExclusive == helper = "webdav" => WebDAV!SessionExclusive




(***************************************************************************)
(* No call reaches a storage library before all it needs is set up, while  *)
(* operations connect for one another and attempts to connect fail halfway *)
(* (the connect() of GlusterFSHelper, CephHelper and CephRadosHelper and   *)
(* SwiftHelper's getAccount).                                              *)
(***************************************************************************)
ConnectedBeforeUse ==
    /\ helper = "glusterfs" => GlusterFS!UsesInitializedContext
    /\ helper = "ceph" => Ceph!CallsConnectedStriper
    /\ helper = "object store calls" => Objects!CallsOnReadyStore

=============================================================================
