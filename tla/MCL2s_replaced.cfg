SPECIFICATION Spec
CONSTANTS
 p1 = p1
 p2 = p2
 n1 = n1
 n2 = n2
 n3 = n3
 n4 = n4
 n5 = n5
 n6 = n6
 n7 = n7
 sub = sub
 home = home
 mnt = mnt
 Nobody = Nobody
 Store = Store
 Procs = {p1, p2}
 Names = {n1, n2, n3, n4, n5, n6, n7}
 Dirs = {home, sub, mnt}
 DirOf <- MCDirOf
 Mounted = {mnt}
 Inos = {1, 2, 3, 4, 5}
 PrIno = 9
 PR_MAX_COUNT = 3
 LOOKS = 1
 Programs <- Replaced

PROPERTY NamesKeep
CHECK_DEADLOCK FALSE
