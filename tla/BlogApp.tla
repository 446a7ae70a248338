------------------------------ MODULE BlogApp ------------------------------
(***************************************************************************)
(* apps/blog: the Prisma calls of each route handler in the order they are *)
(* issued.  Calls that Promise.all runs side by side stand in one of their *)
(* orders: what is counted per request does not depend on it.              *)
(***************************************************************************)
EXTENDS OrmCalls

AuthorsIdCard == <<With(FindUnique("Author", "id"), {"posts"})>>

AuthorsId == <<With(FindUnique("Author", "id"), {"posts"})>>

AuthorsIdStats ==
    <<OrNotFound(FindUnique("Author", "id")),
      CountRows("Post", {"authorId", "status"}),
      CountRows("Post", {"authorId", "status"}),
      CountRows("Comment", {"post"})>>

Authors == <<Page("Author", {}), ForEachRow(CountRows("Post", {"authorId", "status"}))>>

CommentsExport == <<With(FindMany("Comment", {}), {"post"})>>

CommentsRecent == <<With(Page("Comment", {"createdAt"}), {"post"})>>

Comments == <<With(Page("Comment", {"authorEmail"}), {"post"})>>

Feed ==
    <<With(Page("Post", {"status"}), {"author"}),
      ForEachRow(CountRows("Comment", {"postId"}))>>

PostsSlugComments == <<Page("Comment", {"post"})>>

PostsSlugMeta ==
    <<With(FindUnique("Post", "slug"), {"author", "tags", "tags.tag", "comments"})>>

FindPublishedPost ==
    OrNotFound(With(FindFirst("Post", {"slug", "status"}), {"tags"}))

PostsSlugRelated ==
    <<FindPublishedPost, FindPublishedPost, Page("Post", {"status", "id", "tags"})>>

PostsSlug ==
    <<With(FindUnique("Post", "slug"), {"author", "tags", "tags.tag", "comments"})>>

PostsNew == <<Page("Post", {"createdAt"})>>

Posts == <<With(Page("Post", {"status", "tags"}), {"author", "tags", "tags.tag"})>>

PostsSearch == <<With(Page("Post", {"status", "title"}), {"author"})>>

SearchIndex == <<With(FindMany("Post", {"status"}), {"tags", "tags.tag"})>>

Sitemap == <<FindMany("Post", {"status"})>>

Stats ==
    <<GroupBy("Post", {"status"}), Page("Author", {"id"}),
      GroupBy("Comment", {}), Page("Post", {"id"})>>

TagsSlugPosts == <<Page("PostTag", {"tag"}), ForEachRow(FindUnique("Post", "id"))>>

TagsSlug ==
    <<With(FindUnique("Tag", "slug"), {"posts", "posts.post", "posts.post.author"})>>

TagsCloud == <<Page("Tag", {}), Page("Tag", {})>>

Tags == <<Page("Tag", {})>>

BlogHandlers ==
    [authorsIdCard |-> AuthorsIdCard, authorsId |-> AuthorsId,
     authorsIdStats |-> AuthorsIdStats, authors |-> Authors,
     commentsExport |-> CommentsExport, commentsRecent |-> CommentsRecent,
     comments |-> Comments, feed |-> Feed, postsSlugComments |-> PostsSlugComments,
     postsSlugMeta |-> PostsSlugMeta, postsSlugRelated |-> PostsSlugRelated,
     postsSlug |-> PostsSlug, postsNew |-> PostsNew, posts |-> Posts,
     postsSearch |-> PostsSearch, searchIndex |-> SearchIndex, sitemap |-> Sitemap,
     blogStats |-> Stats, tagsSlugPosts |-> TagsSlugPosts, tagsSlug |-> TagsSlug,
     tagsCloud |-> TagsCloud, tags |-> Tags]

(* prisma/schema.prisma                                                    *)
BlogSchema ==
    [Author |-> [leading |-> {"id", "email"}, keyOf |-> <<>>, lists |-> {"posts"}],
     Post |-> [leading |-> {"id", "slug", "authorId", "status", "title"},
               keyOf |-> [author |-> "authorId"], lists |-> {"comments", "tags"}],
     Comment |-> [leading |-> {"id", "postId"}, keyOf |-> [post |-> "postId"], lists |-> {}],
     Tag |-> [leading |-> {"id", "name", "slug"}, keyOf |-> <<>>, lists |-> {"posts"}],
     PostTag |-> [leading |-> {"postId", "tagId"},
                  keyOf |-> [post |-> "postId", tag |-> "tagId"], lists |-> {}]]

(* services/experiments/groundtruth/manifests/blog.json, of the types a    *)
(* static rule or the run-time detector reports.                           *)
BlogLabels ==
    [feed |-> "n_plus_one", authors |-> "n_plus_one", tagsSlugPosts |-> "n_plus_one",
     comments |-> "missing_index", commentsRecent |-> "missing_index",
     postsNew |-> "missing_index",
     sitemap |-> "unpaginated_find_many", commentsExport |-> "unpaginated_find_many",
     searchIndex |-> "unpaginated_find_many"]
=============================================================================
